-------------------------- MODULE DashboardProofs --------------------------
(***************************************************************************)
(* Theorems about Dashboard, for every number of mandates, nonces, calls   *)
(* and timer fetches.                                                      *)
(***************************************************************************)
EXTENDS Dashboard, TLAPS

USE DEF mandateState, formState, resultState, counters, server

(***************************************************************************)
(* The inductive invariant.  At most one handler is in progress, the one   *)
(* busy names; while it is, the authorization on display is the one it     *)
(* captured or the user has reset it.                                      *)
(***************************************************************************)
OneCall ==
    /\ \A b \in Buttons : ~At(b, "idle") => busy = b
    /\ \A f \in Refreshers : fetches[f] # None => At(f, "refresh")

ConfirmInFlight ==
    LET c == call["confirm"] IN
    /\ ~At("confirm", "idle") => c.key # 0
    /\ At("confirm", "served") \/ At("confirm", "fetch") =>
         c.auth \in Auths /\ enrolled[c.auth] = c.key
    /\ At("confirm", "fetch") => auth \in {None, c.auth}

AgentInFlight ==
    LET c == call["agent"] IN
    ~At("agent", "idle") =>
        /\ payment = None
        /\ c.auth \in Auths /\ auth \in {None, c.auth}
        /\ c.signed # None
        /\ c.signed.id.auth = c.auth /\ c.signed.key = enrolled[c.auth]
        /\ At("agent", "served") => c.decision # None /\ c.decision.id = c.signed.id

PaymentInFlight ==
    LET c == call["payment"] IN
    ~At("payment", "idle") =>
        /\ c.decision # None /\ c.decision.decision = "ALLOW"
        /\ c.auth \in {None, c.decision.id.auth}
        /\ At("payment", "served") => c.auth # None
        /\ decision \in {None, c.decision}

\* OneMandateShown, also during a call, except while the envelope is fetched.
MandateShown ==
    auth # None /\ ~At("confirm", "fetch") =>
        /\ envelope = auth
        /\ decision # None => decision.id.auth = auth

Safe == /\ OneCall
        /\ ConfirmInFlight /\ AgentInFlight /\ PaymentInFlight
        /\ KeyIsEnrolled /\ MandateShown /\ PaymentOfShownDecision

Inv == TypeOK /\ Safe

-----------------------------------------------------------------------------
(* Types *)

LEMMA IdleFields ==
    /\ Idle \in Call
    /\ Idle.stage = "idle" /\ Idle.auth = None /\ Idle.key = 0
    /\ Idle.signed = None /\ Idle.decision = None
  BY DEF Idle, Call, Scenarios

\* What a click, the end and the progress of a handler leave well typed.
LEMMA CallTyped ==
  ASSUME TypeOK, NEW b \in Buttons, NEW c \in Call,
         Click(b, c) \/ Finish(b) \/ Advance(b, c)
  PROVE  /\ busy' \in Buttons \cup {"no"}
         /\ call' \in [Buttons -> Call]
         /\ Click(b, c) => calls' \in Nat
  BY IdleFields DEF TypeOK, Click, Finish, Advance

LEMMA OutdatedTyped ==
  ASSUME NEW t \in Trail \cup {None}, NEW a
  PROVE  Outdated(t, a) \in Trail \cup {None}
<1>1. t # None => [t EXCEPT !.whole = FALSE] \in Trail
  BY DEF Trail
<1>2. QED
  BY <1>1 DEF Outdated

\* What an append and a fetch leave well typed.
LEMMA TrailTyped ==
  ASSUME TypeOK
  PROVE  /\ \A a \in Auths : Log(a) => /\ fetches' \in [Fetches -> Trail \cup {None}]
                                       /\ trail' \in Trail \cup {None}
         /\ \A f, a : a \in Auths /\ Fetch(f, a) => fetches' \in [Fetches -> Trail \cup {None}]
<1>1. ASSUME NEW a \in Auths, Log(a)
      PROVE  /\ fetches' \in [Fetches -> Trail \cup {None}]
             /\ trail' \in Trail \cup {None}
  BY <1>1, OutdatedTyped DEF TypeOK, Log
<1>2. ASSUME NEW f, NEW a \in Auths, Fetch(f, a)
      PROVE  fetches' \in [Fetches -> Trail \cup {None}]
  <2>1. [auth |-> a, whole |-> TRUE] \in Trail
    BY DEF Trail
  <2>2. QED
    BY <1>2, <2>1 DEF TypeOK, Fetch
<1>3. QED
  BY <1>1, <1>2

LEMMA CompileType == TypeOK /\ (ClickCompile \/ CompileAnswered) => TypeOK'
<1>1. SUFFICES ASSUME TypeOK PROVE ClickCompile \/ CompileAnswered => TypeOK'
  OBVIOUS
<1>2. [Idle EXCEPT !.stage = "sent"] \in Call /\ "compile" \in Buttons
  BY IdleFields DEF Call, Buttons
<1>3. CASE ClickCompile
  BY <1>1, <1>2, <1>3, CallTyped DEF ClickCompile, TypeOK
<1>4. CASE CompileAnswered
  BY <1>1, <1>2, <1>4, CallTyped DEF CompileAnswered, Reset, TypeOK
<1>5. QED
  BY <1>3, <1>4

LEMMA ConfirmType ==
  ASSUME TypeOK,
         \/ ClickConfirm
         \/ \E a \in Auths : ServeConfirm(a)
         \/ ConfirmAnswered
         \/ EnvelopeFetched
  PROVE  TypeOK'
<1>1. "confirm" \in Buttons /\ call["confirm"] \in Call
  BY DEF TypeOK, Buttons
<1>2. CASE ClickConfirm
  <2>1. keys + 1 \in Nat
    BY DEF TypeOK
  <2>2. [Idle EXCEPT !.stage = "sent", !.key = keys + 1] \in Call
    BY <2>1, IdleFields DEF Call
  <2>3. QED
    BY <1>1, <1>2, <2>1, <2>2, CallTyped DEF ClickConfirm, TypeOK
<1>3. ASSUME NEW a \in Auths, ServeConfirm(a)
      PROVE  TypeOK'
  <2>1. [call["confirm"] EXCEPT !.stage = "served", !.auth = a] \in Call
    BY <1>1 DEF Call
  <2>2. call["confirm"].key \in Nat
    BY <1>1 DEF Call
  <2>3. QED
    BY <1>1, <1>3, <2>1, <2>2, CallTyped, TrailTyped DEF ServeConfirm, TypeOK
<1>4. CASE ConfirmAnswered
  <2>1. [call["confirm"] EXCEPT !.stage = "fetch"] \in Call
    BY <1>1 DEF Call
  <2>2. call["confirm"].auth \in Auths \cup {None} /\ call["confirm"].key \in Nat
    BY <1>1 DEF Call
  <2>3. QED
    BY <1>1, <1>4, <2>1, <2>2, CallTyped DEF ConfirmAnswered, TypeOK
<1>5. CASE EnvelopeFetched
  <2>1. call["confirm"].auth \in Auths \cup {None}
    BY <1>1 DEF Call
  <2>2. QED
    BY <1>1, <1>5, <2>1, CallTyped DEF EnvelopeFetched, TypeOK
<1>6. QED
  BY <1>2, <1>3, <1>4, <1>5

LEMMA SubmitType == ASSUME TypeOK, NEW n \in Nonces, ClickSubmit(n) PROVE TypeOK'
<1> DEFINE signed == IF Replaying THEN replay
                     ELSE [id |-> [auth |-> auth, nonce |-> n], key |-> key]
           c == [Idle EXCEPT !.stage = IF Replaying THEN "sent" ELSE "sign",
                             !.auth = auth, !.signed = signed, !.scenario = scenario]
<1>1. signed \in Signed
  BY DEF ClickSubmit, TypeOK, Signed, RequestId, Keys
<1>2. c \in Call
  BY <1>1, IdleFields DEF TypeOK, Call
<1>3. "agent" \in Buttons /\ Click("agent", c)
  BY DEF ClickSubmit, Buttons
<1>4. QED
  BY <1>2, <1>3, CallTyped DEF ClickSubmit, TypeOK

LEMMA AgentType ==
  ASSUME TypeOK, AgentInFlight,
         ClickSubmitRefused \/ RequestSigned \/ ServeAgent \/ DecisionAnswered
  PROVE  TypeOK'
<1> DEFINE c == call["agent"]
<1>1. "agent" \in Buttons /\ c \in Call
  BY DEF TypeOK, Buttons
<1>2. ~At("agent", "idle") =>
        /\ c.auth \in Auths /\ c.signed \in Signed
        /\ c.signed.id \in RequestId
        /\ c.signed.id.auth \in Auths /\ c.signed.id.nonce \in Nonces
  BY <1>1 DEF AgentInFlight, Call, Signed, RequestId
<1>3. CASE ClickSubmitRefused
  BY <1>3 DEF ClickSubmitRefused, TypeOK
<1>4. CASE RequestSigned
  <2>1. [c EXCEPT !.stage = "sent"] \in Call
    BY <1>1 DEF Call
  <2>2. c.signed \in Signed
    BY <1>2, <1>4 DEF RequestSigned, At
  <2>3. QED
    BY <1>1, <1>4, <2>1, <2>2, CallTyped DEF RequestSigned, TypeOK
<1>5. CASE ServeAgent
  <2>1. c.signed.id \in RequestId /\ c.signed.id.auth \in Auths /\ c.signed.id.nonce \in Nonces
    BY <1>2, <1>5 DEF ServeAgent, At
  <2>2. PICK v \in Verdicts :
          /\ verdict' = [verdict EXCEPT ![c.signed.id.auth][c.signed.id.nonce] = v]
          /\ Advance("agent", [c EXCEPT !.stage = "served",
                               !.decision = [id |-> c.signed.id, decision |-> v]])
    BY <1>5 DEF ServeAgent
  <2>3. [id |-> c.signed.id, decision |-> v] \in Decision
    BY <2>1 DEF Decision
  <2>4. [c EXCEPT !.stage = "served",
                  !.decision = [id |-> c.signed.id, decision |-> v]] \in Call
    BY <1>1, <2>3 DEF Call
  <2>5. verdict' \in [Auths -> [Nonces -> Verdicts \cup {"none"}]]
    BY <2>1, <2>2 DEF TypeOK
  <2>6. QED
    BY <1>1, <1>5, <2>1, <2>2, <2>4, <2>5, CallTyped, TrailTyped DEF ServeAgent, TypeOK
<1>6. CASE DecisionAnswered
  <2>1. [c EXCEPT !.stage = "refresh"] \in Call
    BY <1>1 DEF Call
  <2>2. c.auth \in Auths /\ c.decision \in Decision \cup {None}
    BY <1>1, <1>2, <1>6 DEF DecisionAnswered, At, Call
  <2>3. QED
    BY <1>1, <1>6, <2>1, <2>2, CallTyped, TrailTyped DEF DecisionAnswered, TypeOK
<1>7. QED
  BY <1>3, <1>4, <1>5, <1>6

LEMMA PaymentType ==
  ASSUME TypeOK, PaymentInFlight, ClickExecute \/ ServeExecute \/ PaymentAnswered
  PROVE  TypeOK'
<1> DEFINE c == call["payment"]
<1>1. "payment" \in Buttons /\ c \in Call
  BY DEF TypeOK, Buttons
<1>2. ~At("payment", "idle") => /\ c.decision \in Decision /\ c.decision.id \in RequestId
                                /\ c.decision.id.auth \in Auths
  BY <1>1 DEF PaymentInFlight, Call, Decision, RequestId
<1>3. CASE ClickExecute
  <2>1. [Idle EXCEPT !.stage = "sent", !.auth = auth, !.decision = decision] \in Call
    BY IdleFields DEF TypeOK, Call
  <2>2. QED
    BY <1>1, <1>3, <2>1, CallTyped DEF ClickExecute, TypeOK
<1>4. CASE ServeExecute
  <2>1. [c EXCEPT !.stage = "served"] \in Call
    BY <1>1 DEF Call
  <2>2. c.decision.id \in RequestId /\ c.decision.id.auth \in Auths
    BY <1>2, <1>4 DEF ServeExecute, At
  <2>3. QED
    BY <1>1, <1>4, <2>1, <2>2, CallTyped, TrailTyped DEF ServeExecute, TypeOK
<1>5. CASE PaymentAnswered
  <2>1. [c EXCEPT !.stage = "refresh"] \in Call
    BY <1>1 DEF Call
  <2>2. c.decision.id \in RequestId /\ c.auth \in Auths
    BY <1>1, <1>2, <1>5 DEF PaymentAnswered, PaymentInFlight, At, Call
  <2>3. QED
    BY <1>1, <1>5, <2>1, <2>2, CallTyped, TrailTyped DEF PaymentAnswered, TypeOK
<1>6. QED
  BY <1>3, <1>4, <1>5

LEMMA EvidenceType ==
  ASSUME TypeOK,
         (\E t \in Timers : Poll(t)) \/ \E f \in Fetches : FetchStep(f)
  PROVE  TypeOK'
<1>1. ASSUME NEW t \in Timers, Poll(t)
      PROVE  TypeOK'
  BY <1>1, TrailTyped DEF Poll, TypeOK
<1>2. ASSUME NEW f \in Fetches, FetchStep(f)
      PROVE  TypeOK'
  <2>1. fetches' \in [Fetches -> Trail \cup {None}]
    BY <1>2 DEF FetchStep, EvidenceAnswered, EvidenceFailed, FetchOver, TypeOK
  <2>2. trail' \in Trail \cup {None}
    BY <1>2 DEF FetchStep, EvidenceAnswered, EvidenceFailed, TypeOK
  <2>3. busy' \in Buttons \cup {"no"} /\ call' \in [Buttons -> Call]
    BY <1>2, IdleFields DEF FetchStep, EvidenceAnswered, EvidenceFailed, FetchOver, Finish,
                            TypeOK, Refreshers, Buttons
  <2>4. QED
    BY <1>2, <2>1, <2>2, <2>3 DEF FetchStep, EvidenceAnswered, EvidenceFailed, FetchOver, TypeOK
<1>3. QED
  BY <1>1, <1>2

LEMMA OtherType ==
  ASSUME TypeOK,
         \/ \E b \in Buttons : Fail(b)
         \/ EditMandate
         \/ \E s \in Scenarios : ChooseScenario(s)
         \/ Reload
  PROVE  TypeOK'
<1>1. ASSUME NEW b \in Buttons, Fail(b)
      PROVE  TypeOK'
  BY <1>1, IdleFields, CallTyped DEF Fail, TypeOK
<1>2. CASE EditMandate
  BY <1>2 DEF EditMandate, Reset, TypeOK
<1>3. ASSUME NEW s \in Scenarios, ChooseScenario(s)
      PROVE  TypeOK'
  BY <1>3 DEF ChooseScenario, TypeOK
<1>4. CASE Reload
  BY <1>4, IdleFields DEF Reload, Reset, TypeOK, Scenarios
<1>5. QED
  BY <1>1, <1>2, <1>3, <1>4

-----------------------------------------------------------------------------
(* The inductive invariant *)

LEMMA InvInit == Init => Inv
<1>1. SUFFICES ASSUME Init PROVE Inv
  OBVIOUS
<1>2. TypeOK
  BY <1>1, IdleFields DEF Init, TypeOK, Scenarios
<1>3. Safe
  BY <1>1, IdleFields, DashboardAssumption
     DEF Init, Safe, OneCall, ConfirmInFlight, AgentInFlight, PaymentInFlight, At,
         KeyIsEnrolled, MandateShown, PaymentOfShownDecision, Buttons, Refreshers, Fetches
<1>4. QED
  BY <1>2, <1>3 DEF Inv

LEMMA InvType == Inv /\ [Next]_vars => TypeOK'
<1>1. SUFFICES ASSUME Inv, [Next]_vars PROVE TypeOK'
  OBVIOUS
<1>2. TypeOK /\ AgentInFlight /\ PaymentInFlight
  BY <1>1 DEF Inv, Safe
<1>3. CASE UserStep
  BY <1>2, <1>3, CompileType, ConfirmType, PaymentType, SubmitType, AgentType, OtherType
     DEF UserStep
<1>4. CASE CallStep
  BY <1>2, <1>4, CompileType, ConfirmType, AgentType, PaymentType, OtherType, EvidenceType
     DEF CallStep, Fetches
<1>5. CASE \E t \in Timers : Poll(t) \/ FetchStep(t)
  BY <1>2, <1>5, EvidenceType DEF Fetches
<1>6. CASE UNCHANGED vars
  BY <1>2, <1>6 DEF vars, TypeOK
<1>7. QED
  BY <1>1, <1>3, <1>4, <1>5, <1>6 DEF Next

\* One step per action.  The leaves share the invariant's parts: a handler that
\* goes on depends on what the inputs and the other handlers leave it.
LEMMA SafeStep ==
  ASSUME Inv, Next
  PROVE  Safe'
<1> USE DashboardAssumption, IdleFields
        DEF Inv, TypeOK, Safe, OneCall, ConfirmInFlight, AgentInFlight, PaymentInFlight,
            KeyIsEnrolled, MandateShown, PaymentOfShownDecision, At,
            Scenarios, Buttons, Refreshers, Fetches, Keys, RequestId, Signed, Verdicts,
            Decision, Call
<1>1. CASE ClickCompile
  BY <1>1 DEF ClickCompile, Click
<1>2. CASE CompileAnswered
  BY <1>2 DEF CompileAnswered, Reset, Finish
<1>3. CASE ClickConfirm
  BY <1>3 DEF ClickConfirm, Click
<1>4. ASSUME NEW a \in Auths, ServeConfirm(a) PROVE Safe'
  BY <1>4, SMTT(30) DEF ServeConfirm, Log, Outdated, Advance
<1>5. CASE ConfirmAnswered
  BY <1>5 DEF ConfirmAnswered, Advance
<1>6. CASE EnvelopeFetched
  BY <1>6 DEF EnvelopeFetched, Finish
<1>7. ASSUME NEW n \in Nonces, ClickSubmit(n) PROVE Safe'
  BY <1>7 DEF ClickSubmit, Click, Replaying
<1>8. CASE ClickSubmitRefused
  BY <1>8 DEF ClickSubmitRefused
<1>9. CASE RequestSigned
  BY <1>9 DEF RequestSigned, Advance
<1>10. CASE ServeAgent
  <2> DEFINE c == call["agent"]
             d == call'["agent"]
  <2>1. PICK v \in Verdicts :
          call' = [call EXCEPT !["agent"] =
                     [c EXCEPT !.stage = "served",
                               !.decision = [id |-> c.signed.id, decision |-> v]]]
    BY <1>10 DEF ServeAgent, Advance
  <2>2. c \in Call /\ c.stage = "sent" /\ \A b \in Buttons \ {"agent"} : call'[b] = call[b]
    BY <1>10, <2>1 DEF ServeAgent
  <2>3. /\ d.stage = "served" /\ d.auth = c.auth /\ d.signed = c.signed
        /\ d.decision = [id |-> c.signed.id, decision |-> v]
    BY <2>1, <2>2
  <2>4. d.decision # None /\ d.decision.id = c.signed.id
    BY <2>1, <2>2, <2>3
  <2>5. \A f \in Fetches : fetches'[f] # None => fetches[f] # None
    BY <1>10 DEF ServeAgent, Log, Outdated
  <2>6. UNCHANGED <<auth, key, envelope, replay, decision, payment, busy, enrolled>>
    BY <1>10 DEF ServeAgent, Advance
  <2>7. OneCall'
    BY <2>2, <2>3, <2>5, <2>6
  <2>8. ConfirmInFlight' /\ PaymentInFlight' /\ MandateShown'
    BY <2>2, <2>6
  <2>9. AgentInFlight'
    BY <2>2, <2>3, <2>4, <2>6
  <2>10. KeyIsEnrolled' /\ PaymentOfShownDecision'
    BY <2>6
  <2>11. QED
    BY <2>7, <2>8, <2>9, <2>10
<1>11. CASE DecisionAnswered
  BY <1>11 DEF DecisionAnswered, Fetch, Advance
<1>12. CASE ClickExecute
  BY <1>12 DEF ClickExecute, Click
<1>13. CASE ServeExecute
  BY <1>13, SMTT(30) DEF ServeExecute, Log, Outdated, Advance
<1>14. CASE PaymentAnswered
  BY <1>14 DEF PaymentAnswered, Fetch, Advance
<1>15. ASSUME NEW b \in Buttons, Fail(b) PROVE Safe'
  BY <1>15 DEF Fail, Failing, Finish
<1>16. CASE EditMandate
  BY <1>16 DEF EditMandate, Reset
<1>17. ASSUME NEW s \in Scenarios, ChooseScenario(s) PROVE Safe'
  BY <1>17 DEF ChooseScenario
<1>18. CASE Reload
  BY <1>18 DEF Reload, Reset
<1>19. ASSUME NEW t \in Timers, Poll(t) PROVE Safe'
  BY <1>19 DEF Poll, Fetch
<1>20. ASSUME NEW f \in Fetches, EvidenceAnswered(f) PROVE Safe'
  BY <1>20 DEF EvidenceAnswered, FetchOver, Finish
<1>21. ASSUME NEW f \in Fetches, EvidenceFailed(f) PROVE Safe'
  BY <1>21 DEF EvidenceFailed, FetchOver, Finish
<1>22. UserStep \/ CallStep \/ (\E t \in Timers : Poll(t)) \/ (\E t \in Timers : FetchStep(t))
  BY DEF Next
<1>23. QED
  BY <1>22, <1>1, <1>2, <1>3, <1>4, <1>5, <1>6, <1>7, <1>8, <1>9, <1>10, <1>11,
     <1>12, <1>13, <1>14, <1>15, <1>16, <1>17, <1>18, <1>19, <1>20, <1>21
     DEF UserStep, CallStep, FetchStep

LEMMA InvStep == Inv /\ [Next]_vars => Inv'
<1>1. SUFFICES ASSUME Inv, [Next]_vars PROVE Inv'
  OBVIOUS
<1>2. TypeOK'
  BY <1>1, InvType
<1>3. CASE Next
  BY <1>1, <1>2, <1>3, SafeStep DEF Inv
<1>4. CASE UNCHANGED vars
  BY <1>1, <1>2, <1>4
     DEF vars, Inv, Safe, OneCall, ConfirmInFlight, AgentInFlight, PaymentInFlight,
         KeyIsEnrolled, MandateShown, PaymentOfShownDecision, At
<1>5. QED
  BY <1>1, <1>3, <1>4

\* The invariant holds of the page in every state it reaches.
THEOREM DashboardInv == Spec => []Inv
<1>1. Init => Inv
  BY InvInit
<1>2. Inv /\ [Next]_vars => Inv'
  BY InvStep
<1>3. QED
  BY <1>1, <1>2, PTL DEF Spec

\* Every variable keeps its type.
THEOREM DashboardTypes == Spec => []TypeOK
<1>1. Inv => TypeOK
  BY DEF Inv
<1>2. QED
  BY <1>1, DashboardInv, PTL

\* The key and the saved request in memory are always those of the mandate on
\* display, whenever it was edited, confirmed or reloaded.
THEOREM KeyIsOfTheMandate == Spec => []KeyIsEnrolled
<1>1. Inv => KeyIsEnrolled
  BY DEF Inv, Safe
<1>2. QED
  BY <1>1, DashboardInv, PTL

\* Between calls envelope and decision are those of the mandate on display.
THEOREM PageShowsOneMandate == Spec => []OneMandateShown
<1>1. Inv => OneMandateShown
  <2>1. SUFFICES ASSUME Inv, busy = "no" PROVE ~At("confirm", "fetch")
    BY DEF Inv, Safe, MandateShown, OneMandateShown
  <2>2. "confirm" \in Buttons /\ "no" # "confirm"
    BY DEF Buttons
  <2>3. At("confirm", "idle")
    BY <2>1, <2>2 DEF Inv, Safe, OneCall
  <2>4. QED
    BY <2>3 DEF At
<1>2. QED
  BY <1>1, DashboardInv, PTL

\* An order shown next to a decision pays that decision.
THEOREM PageShowsItsPayment == Spec => []PaymentOfShownDecision
<1>1. Inv => PaymentOfShownDecision
  BY DEF Inv, Safe
<1>2. QED
  BY <1>1, DashboardInv, PTL

\* No execution is asked for under an authorization other than the decision's.
THEOREM ExecuteIsForItsMandate == Spec => []ExecuteNamesItsMandate
<1>1. Inv => ExecuteNamesItsMandate
  BY DEF Inv, Safe, PaymentInFlight, ExecuteNamesItsMandate, At
<1>2. QED
  BY <1>1, DashboardInv, PTL
=============================================================================

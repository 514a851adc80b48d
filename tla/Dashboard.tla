----------------------------- MODULE Dashboard -----------------------------
(***************************************************************************)
(* The single-page dashboard: React state, the four buttons that call the  *)
(* API, the inputs that stay enabled while a call is in flight, and the    *)
(* evidence polling.  A handler is split at every await; it goes on with   *)
(* the state it captured when it was clicked, whatever the user did since. *)
(*                                                                         *)
(* The API is external: what its answers and its lost answers can be.      *)
(* Carts and mandate texts are left out; ALLOW or not is all of a decision.*)
(*                                                                         *)
(* A definition marked "Fault" is a plausible mistake in the code that the *)
(* definition after it models.                                             *)
(***************************************************************************)
EXTENDS Integers

CONSTANTS
    Auths,        \* authorization ids the server can make
    Nonces,       \* what the nonce field can hold when a cart is submitted
    Timers,       \* evidence fetches of the timer that can be in flight at once
    MaxCalls,     \* bound: confirm, submit and execute calls
    None

Scenarios == {"allow", "replay", "other"}
Buttons == {"compile", "confirm", "agent", "payment"}
Refreshers == {"agent", "payment"}       \* handlers that await refreshEvidence
Fetches == Timers \cup Refreshers

Keys == Nat \ {0}
RequestId == [auth: Auths, nonce: Nonces]
Signed == [id: RequestId, key: Keys]
Verdicts == {"ALLOW", "BLOCK"}           \* RECONSENT counts as BLOCK
Decision == [id: RequestId, decision: Verdicts]
Trail == [auth: Auths, whole: BOOLEAN]
Call == [stage: {"idle", "sign", "sent", "served", "fetch", "refresh"},
         auth: Auths \cup {None}, key: Nat, signed: Signed \cup {None},
         scenario: Scenarios, decision: Decision \cup {None}]

ASSUME DashboardAssumption ==
    /\ Timers \cap Refreshers = {}
    /\ MaxCalls \in Nat
    /\ None \notin Auths \cup RequestId \cup Signed \cup Decision \cup Trail
    /\ None \notin Nat

VARIABLES
    text,                     \* mandateText
    auth, key, envelope,      \* authorization, agentKey (0: null), canonicalEnvelope
    replay,                   \* replayPayload
    scenario,
    decision, payment,
    trail,                    \* events: whose, and whether all of them
    busy,                     \* the button in progress, or "no"
    call,                     \* by button: its handler in progress
    fetches,                  \* evidence requests in flight
    keys, calls,              \* keys made, calls started (bound)
    enrolled, verdict, ordered   \* external: what the server stores

mandateState == <<auth, key, envelope, replay>>
formState == <<text, scenario>>
resultState == <<decision, payment>>
server == <<enrolled, verdict, ordered>>
counters == <<keys, calls>>
vars == <<mandateState, formState, resultState, trail, busy, call, fetches,
          counters, server>>

Idle == [stage |-> "idle", auth |-> None, key |-> 0, signed |-> None,
         scenario |-> "other", decision |-> None]

-----------------------------------------------------------------------------
(* Helpers *)

\* resetDownstream
Reset ==
    /\ auth' = None /\ key' = 0 /\ envelope' = None /\ replay' = None
    /\ decision' = None /\ payment' = None /\ trail' = None

At(b, stage) == call[b].stage = stage

\* Fault: the button is not disabled while another call is in flight.
ClickAnyTime(b, c) ==
    /\ At(b, "idle")
    /\ busy' = b
    /\ call' = [call EXCEPT ![b] = c]
    /\ IF b = "compile" THEN UNCHANGED calls
                         ELSE calls < MaxCalls /\ calls' = calls + 1

\* A button is clicked: the handler starts and setBusy disables all four.
Click(b, c) ==
    /\ busy = "no"
    /\ busy' = b
    /\ call' = [call EXCEPT ![b] = c]
    /\ IF b = "compile" THEN UNCHANGED calls
                         ELSE calls < MaxCalls /\ calls' = calls + 1

\* The handler ends: its `finally`.
Finish(b) == /\ busy' = "no"
             /\ call' = [call EXCEPT ![b] = Idle]

Advance(b, c) == /\ call' = [call EXCEPT ![b] = c]
                 /\ UNCHANGED busy

\* Part of the trail t when the server has appended to the evidence of a.
Outdated(t, a) ==
    IF t # None /\ t.auth = a THEN [t EXCEPT !.whole = FALSE] ELSE t

\* The server appends: what was read before, on its way or on display, is no
\* longer the whole log.
Log(a) == /\ fetches' = [f \in Fetches |-> Outdated(fetches[f], a)]
          /\ trail' = Outdated(trail, a)

\* The server reads the log at once: to read it later is to be asked later.
Fetch(f, a) == fetches' = [fetches EXCEPT ![f] = [auth |-> a, whole |-> TRUE]]

-----------------------------------------------------------------------------
(* compileIntent *)

ClickCompile ==
    /\ Click("compile", [Idle EXCEPT !.stage = "sent"])
    /\ UNCHANGED <<mandateState, formState, resultState, trail, fetches, keys, server>>

CompileAnswered ==
    /\ At("compile", "sent")
    /\ text' = "mandate"
    /\ Reset
    /\ Finish("compile")
    /\ UNCHANGED <<scenario, fetches, counters, server>>

-----------------------------------------------------------------------------
(* confirmMandate *)

ClickConfirm ==
    /\ text # "empty"
    /\ Click("confirm", [Idle EXCEPT !.stage = "sent", !.key = keys + 1])
    /\ keys' = keys + 1
    /\ UNCHANGED <<mandateState, formState, resultState, trail, fetches, server>>

\* Which unused id the server makes does not matter.
ServeConfirm(a) ==
    /\ At("confirm", "sent")
    /\ \E b \in Auths : enrolled[b] = 0
    /\ a = CHOOSE b \in Auths : enrolled[b] = 0
    /\ enrolled' = [enrolled EXCEPT ![a] = call["confirm"].key]
    /\ Log(a)
    /\ Advance("confirm", [call["confirm"] EXCEPT !.stage = "served", !.auth = a])
    /\ UNCHANGED <<mandateState, formState, resultState, counters, verdict, ordered>>

\* Fault: the saved request of the old mandate is kept.
ConfirmKeepsReplay ==
    /\ At("confirm", "served")
    /\ auth' = call["confirm"].auth
    /\ key' = call["confirm"].key
    /\ Advance("confirm", [call["confirm"] EXCEPT !.stage = "fetch"])
    /\ UNCHANGED <<envelope, replay, formState, resultState, trail, fetches, counters,
                   server>>

\* The answer has no envelope: it is fetched by a second call.
ConfirmAnswered ==
    /\ At("confirm", "served")
    /\ auth' = call["confirm"].auth
    /\ key' = call["confirm"].key
    /\ replay' = None
    /\ Advance("confirm", [call["confirm"] EXCEPT !.stage = "fetch"])
    /\ UNCHANGED <<envelope, formState, resultState, trail, fetches, counters, server>>

\* Fault: the decision of the old mandate stays on display.
ConfirmKeepsDecision ==
    /\ At("confirm", "fetch")
    /\ envelope' = call["confirm"].auth
    /\ Finish("confirm")
    /\ UNCHANGED <<auth, key, replay, resultState, formState, trail, fetches, counters,
                   server>>

\* The transaction, or if it cannot be had, an envelope put together from the
\* first answer.
EnvelopeFetched ==
    /\ At("confirm", "fetch")
    /\ envelope' = call["confirm"].auth
    /\ decision' = None
    /\ payment' = None
    /\ Finish("confirm")
    /\ UNCHANGED <<auth, key, replay, formState, trail, fetches, counters, server>>

-----------------------------------------------------------------------------
(* submitCart *)

Replaying == scenario = "replay"

\* Fault: the last order stays on display.
SubmitKeepsPayment(n) ==
    LET signed == IF Replaying THEN replay
                  ELSE [id |-> [auth |-> auth, nonce |-> n], key |-> key] IN
    /\ auth # None
    /\ key # 0 /\ signed # None
    /\ Click("agent", [Idle EXCEPT !.stage = IF Replaying THEN "sent" ELSE "sign",
                                   !.auth = auth, !.signed = signed,
                                   !.scenario = scenario])
    /\ UNCHANGED <<mandateState, formState, resultState, trail, fetches, keys, server>>

\* A replay posts the saved request at once; any other request is signed first.
ClickSubmit(n) ==
    LET signed == IF Replaying THEN replay
                  ELSE [id |-> [auth |-> auth, nonce |-> n], key |-> key] IN
    /\ auth # None
    /\ key # 0 /\ signed # None
    /\ Click("agent", [Idle EXCEPT !.stage = IF Replaying THEN "sent" ELSE "sign",
                                   !.auth = auth, !.signed = signed,
                                   !.scenario = scenario])
    /\ payment' = None
    /\ UNCHANGED <<mandateState, formState, decision, trail, fetches, keys, server>>

\* No key, or nothing to replay: the error is shown and nothing is sent.
ClickSubmitRefused ==
    /\ auth # None
    /\ busy = "no"
    /\ key = 0 \/ (Replaying /\ replay = None)
    /\ decision' = None
    /\ payment' = None
    /\ UNCHANGED <<mandateState, formState, trail, busy, call, fetches, counters, server>>

RequestSigned ==
    LET c == call["agent"] IN
    /\ At("agent", "sign")
    /\ replay' = IF c.scenario = "allow" THEN c.signed ELSE replay
    /\ Advance("agent", [c EXCEPT !.stage = "sent"])
    /\ UNCHANGED <<auth, key, envelope, formState, resultState, trail, fetches,
                   counters, server>>

\* A known nonce is blocked as a replay; a signature by another key is refused
\* with 401 and answered like a failure.
ServeAgent ==
    LET c == call["agent"]
        id == c.signed.id IN
    /\ At("agent", "sent")
    /\ enrolled[id.auth] = c.signed.key
    /\ \E v \in Verdicts :
         /\ v = "ALLOW" => verdict[id.auth][id.nonce] = "none"
         /\ verdict' = [verdict EXCEPT ![id.auth][id.nonce] = v]
         /\ Advance("agent", [c EXCEPT !.stage = "served",
                                       !.decision = [id |-> id, decision |-> v]])
    /\ Log(id.auth)
    /\ UNCHANGED <<mandateState, formState, resultState, counters, enrolled, ordered>>

\* setDecision, then refreshEvidence as it was when the button was clicked.
DecisionAnswered ==
    LET c == call["agent"] IN
    /\ At("agent", "served")
    /\ decision' = c.decision
    /\ Fetch("agent", c.auth)
    /\ Advance("agent", [c EXCEPT !.stage = "refresh"])
    /\ UNCHANGED <<mandateState, formState, payment, trail, counters, server>>

-----------------------------------------------------------------------------
(* executePayment *)

\* The current authorization, which may be null, with the decision on display.
ClickExecute ==
    /\ decision # None
    /\ decision.decision = "ALLOW"
    /\ payment = None
    /\ Click("payment", [Idle EXCEPT !.stage = "sent", !.auth = auth,
                                     !.decision = decision])
    /\ UNCHANGED <<mandateState, formState, resultState, trail, fetches, keys, server>>

\* The request must be one of the authorization and its latest decision ALLOW;
\* an order that exists is answered again.
ServeExecute ==
    LET c == call["payment"]
        id == c.decision.id IN
    /\ At("payment", "sent")
    /\ c.auth = id.auth
    /\ verdict[id.auth][id.nonce] = "ALLOW"
    /\ ordered' = ordered \cup {id}
    /\ IF id \in ordered THEN UNCHANGED <<trail, fetches>> ELSE Log(id.auth)
    /\ Advance("payment", [c EXCEPT !.stage = "served"])
    /\ UNCHANGED <<mandateState, formState, resultState, counters, enrolled, verdict>>

PaymentAnswered ==
    LET c == call["payment"] IN
    /\ At("payment", "served")
    /\ payment' = c.decision.id
    /\ Fetch("payment", c.auth)
    /\ Advance("payment", [c EXCEPT !.stage = "refresh"])
    /\ UNCHANGED <<mandateState, formState, decision, trail, counters, server>>

-----------------------------------------------------------------------------
(* A call fails: the request or its answer is lost, or it is refused. *)

Failing(b) == call[b].stage \in {"sign", "sent", "served"}

\* Fault: busy is reset on success only.
FailLeavesBusy(b) ==
    /\ Failing(b)
    /\ call' = [call EXCEPT ![b] = Idle]
    /\ decision' = IF b = "agent" THEN None ELSE decision
    /\ UNCHANGED <<mandateState, formState, payment, trail, busy, fetches, counters,
                   server>>

Fail(b) ==
    /\ Failing(b)
    /\ Finish(b)
    /\ decision' = IF b = "agent" THEN None ELSE decision
    /\ UNCHANGED <<mandateState, formState, payment, trail, fetches, counters, server>>

-----------------------------------------------------------------------------
(* Inputs that are never disabled *)

\* The mandate's text is edited.  Clearing it only hides the button as well.
EditMandate ==
    /\ text # "empty"
    /\ Reset
    /\ UNCHANGED <<formState, busy, call, fetches, counters, server>>

ChooseScenario(s) ==
    /\ auth # None
    /\ scenario' = s
    /\ decision' = None
    /\ payment' = None
    /\ UNCHANGED <<mandateState, text, trail, busy, call, fetches, counters, server>>

\* The page is loaded again: the browser forgets everything, the key included.
Reload ==
    /\ Reset
    /\ text' = "empty"
    /\ scenario' = "allow"
    /\ busy' = "no"
    /\ call' = [b \in Buttons |-> Idle]
    /\ fetches' = [f \in Fetches |-> None]
    /\ UNCHANGED <<counters, server>>

-----------------------------------------------------------------------------
(* Evidence: a timer while there is an authorization, the refresh button, and *)
(* the handlers that refresh when they have their answer.                     *)

\* Fault: evidence is fetched without an authorization.
PollUnguarded(t) ==
    /\ fetches[t] = None
    /\ Fetch(t, auth)
    /\ UNCHANGED <<mandateState, formState, resultState, trail, busy, call, counters,
                   server>>

\* Fault: the timer keeps the refreshEvidence of the first mandate.
PollFirst(t) ==
    LET first == CHOOSE a \in Auths :
                   /\ enrolled[a] # 0
                   /\ \A b \in Auths : enrolled[b] # 0 => enrolled[a] <= enrolled[b] IN
    /\ auth # None
    /\ fetches[t] = None
    /\ Fetch(t, first)
    /\ UNCHANGED <<mandateState, formState, resultState, trail, busy, call, counters,
                   server>>

Poll(t) ==
    /\ auth # None
    /\ fetches[t] = None
    /\ Fetch(t, auth)
    /\ UNCHANGED <<mandateState, formState, resultState, trail, busy, call, counters,
                   server>>

\* The fetch is over; a handler that awaited it ends.
FetchOver(f) ==
    /\ fetches' = [fetches EXCEPT ![f] = None]
    /\ IF f \in Refreshers THEN Finish(f) ELSE UNCHANGED <<busy, call>>
    /\ UNCHANGED <<mandateState, formState, resultState, counters, server>>

EvidenceAnswered(f) ==
    /\ fetches[f] # None
    /\ trail' = fetches[f]
    /\ FetchOver(f)

\* refreshEvidence catches its own errors; the events stay.
EvidenceFailed(f) ==
    /\ fetches[f] # None
    /\ FetchOver(f)
    /\ UNCHANGED trail

-----------------------------------------------------------------------------

Init ==
    /\ text = "empty"
    /\ auth = None /\ key = 0 /\ envelope = None /\ replay = None
    /\ scenario = "allow"
    /\ decision = None /\ payment = None /\ trail = None
    /\ busy = "no"
    /\ call = [b \in Buttons |-> Idle]
    /\ fetches = [f \in Fetches |-> None]
    /\ keys = 0 /\ calls = 0
    /\ enrolled = [a \in Auths |-> 0]
    /\ verdict = [a \in Auths |-> [n \in Nonces |-> "none"]]
    /\ ordered = {}

FetchStep(f) == EvidenceAnswered(f) \/ EvidenceFailed(f)

\* What the network, the server and the browser do on their own.
CallStep ==
    \/ CompileAnswered
    \/ \E a \in Auths : ServeConfirm(a)
    \/ ConfirmAnswered \/ EnvelopeFetched
    \/ RequestSigned \/ ServeAgent \/ DecisionAnswered
    \/ ServeExecute \/ PaymentAnswered
    \/ \E b \in Buttons : Fail(b)
    \/ \E f \in Refreshers : FetchStep(f)

UserStep ==
    \/ ClickCompile \/ ClickConfirm \/ ClickExecute
    \/ (\E n \in Nonces : ClickSubmit(n)) \/ ClickSubmitRefused
    \/ EditMandate
    \/ \E s \in Scenarios : ChooseScenario(s)
    \/ Reload

Next ==
    \/ UserStep
    \/ CallStep
    \/ \E t \in Timers : Poll(t)
    \/ \E t \in Timers : FetchStep(t)

Spec == Init /\ [][Next]_vars

\* A call ends one way or the other, the timer ticks, and the evidence endpoint
\* does not fail for ever.
Fairness ==
    /\ WF_vars(CallStep)
    /\ \A t \in Timers : WF_vars(Poll(t)) /\ WF_vars(FetchStep(t))
    /\ SF_vars(\E t \in Timers : EvidenceAnswered(t))

FairSpec == Spec /\ Fairness

-----------------------------------------------------------------------------
(* Properties *)

\* Every variable has its type.
TypeOK ==
    /\ text \in {"empty", "mandate"}
    /\ auth \in Auths \cup {None} /\ envelope \in Auths \cup {None}
    /\ key \in Nat
    /\ replay \in Signed \cup {None}
    /\ scenario \in Scenarios
    /\ decision \in Decision \cup {None}
    /\ payment \in RequestId \cup {None}
    /\ trail \in Trail \cup {None}
    /\ busy \in Buttons \cup {"no"}
    /\ call \in [Buttons -> Call]
    /\ fetches \in [Fetches -> Trail \cup {None}]
    /\ keys \in Nat /\ calls \in Nat
    /\ enrolled \in [Auths -> Nat]
    /\ verdict \in [Auths -> [Nonces -> Verdicts \cup {"none"}]]
    /\ ordered \subseteq RequestId

\* The mandate on display can be used: the key in memory is the one the server
\* enrolled for it, and a request saved for replay is of this mandate and by this
\* key, however edits, reloads and late answers fell.
KeyIsEnrolled ==
    auth # None =>
        /\ key # 0 /\ enrolled[auth] = key
        /\ replay # None => replay.id.auth = auth /\ replay.key = key

\* Between calls the page shows one mandate: envelope and decision are those of
\* the authorization on display.
OneMandateShown ==
    busy = "no" /\ auth # None =>
        /\ envelope = auth
        /\ decision # None => decision.id.auth = auth

\* An order on display next to a decision pays that decision, which was ALLOW.
PaymentOfShownDecision ==
    payment # None /\ decision # None => payment = decision.id /\ decision.decision = "ALLOW"

\* /payment/execute is never called with a request of another authorization: when
\* the user changed the mandate meanwhile, the call names none.
ExecuteNamesItsMandate ==
    call["payment"].stage = "sent" =>
        /\ call["payment"].decision # None
        /\ call["payment"].auth \in {None, call["payment"].decision.id.auth}

\* The buttons are enabled again, whatever fails.
ButtonsReturn == busy # "no" ~> busy = "no"

\* If the authorization stays, the evidence on display comes to be its whole log
\* and stays so, though answers for another mandate or of an earlier time arrive
\* late.
EvidenceCatchesUp ==
    \A a \in Auths :
        <>[](auth = a) => <>[](trail = [auth |-> a, whole |-> TRUE])
=============================================================================

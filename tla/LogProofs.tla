------------------------------ MODULE LogProofs ------------------------------
(***************************************************************************)
(* Theorems about the evidence of a mandate in Firewall, for any number of *)
(* handlers and any faults: its order, for mandates whose id the server    *)
(* made, and its agreement with the state, for all.                        *)
(***************************************************************************)
EXTENDS BudgetProofs

USE DEF Procs, dbVars, mandateVars, requestVars, settleVars, providerVars, timeVars,
        external, bounds

-----------------------------------------------------------------------------
(* Logs as sequences *)

Mentions(s, type) == \E i \in 1..Len(s) : s[i].type = type

\* Linked one to the next, signed first, nothing ordered once revoked.
GoodLog(s) ==
    /\ \A i \in 1..Len(s) : s[i].prev = i - 1
    /\ \A i, k \in 1..Len(s) :
         /\ i = 1 => s[i].type = "MANDATE_SIGNED"
         /\ i < k /\ s[i].type = "MANDATE_REVOKED"
              => s[k].type \notin {"ORDER_CREATED", "MANDATE_REVOKED", "MANDATE_SIGNED"}

\* What may be appended to a log, and where it must link to.
MayFollow(s, e) ==
    /\ e.prev = Len(s)
    /\ s = <<>> <=> e.type = "MANDATE_SIGNED"
    /\ e.type \in {"ORDER_CREATED", "MANDATE_REVOKED"} => ~Mentions(s, "MANDATE_REVOKED")

LEMMA GoodAppend ==
  ASSUME NEW s \in Seq(Event), NEW e \in Event, GoodLog(s), MayFollow(s, e)
  PROVE  /\ GoodLog(Append(s, e)) /\ Append(s, e) # <<>>
         /\ Append(s, e) \in Seq(Event) /\ Len(Append(s, e)) = Len(s) + 1
         /\ Mentions(Append(s, e), "MANDATE_REVOKED") =>
              Mentions(s, "MANDATE_REVOKED") \/ e.type = "MANDATE_REVOKED"
<1> DEFINE t == Append(s, e)
           n == Len(s)
<1>1. /\ n \in Nat /\ t \in Seq(Event) /\ Len(t) = n + 1 /\ t[n + 1] = e
      /\ \A i \in 1..n : t[i] = s[i]
  OBVIOUS
<1>2. \A i \in 1..Len(t) : i \in 1..n \/ i = n + 1
  BY <1>1
<1>3. t # <<>>
  BY <1>1
<1>4. n = 0 <=> s = <<>>
  OBVIOUS
<1> HIDE DEF t
<1>5. \A i \in 1..Len(t) : t[i].prev = i - 1
  BY <1>1, <1>2 DEF GoodLog, MayFollow
<1>6. t[1].type = "MANDATE_SIGNED"
  BY <1>1, <1>4 DEF GoodLog, MayFollow
<1>7. ASSUME NEW i \in 1..Len(t), NEW k \in 1..Len(t), i < k, t[i].type = "MANDATE_REVOKED"
      PROVE  t[k].type \notin {"ORDER_CREATED", "MANDATE_REVOKED", "MANDATE_SIGNED"}
  <2>1. i \in 1..n /\ s[i].type = "MANDATE_REVOKED"
    BY <1>1, <1>2, <1>7
  <2>2. CASE k \in 1..n
    BY <1>1, <1>7, <2>1, <2>2 DEF GoodLog
  <2>3. CASE k = n + 1
    BY <1>1, <1>4, <2>1, <2>3 DEF MayFollow, Mentions
  <2>4. QED
    BY <1>2, <2>2, <2>3
<1>8. Mentions(t, "MANDATE_REVOKED") =>
        Mentions(s, "MANDATE_REVOKED") \/ e.type = "MANDATE_REVOKED"
  BY <1>1, <1>2 DEF Mentions
<1>9. QED
  BY <1>1, <1>3, <1>5, <1>6, <1>7, <1>8 DEF GoodLog, t
-----------------------------------------------------------------------------
(***************************************************************************)
(* The inductive invariant.  Until /confirm has answered, nobody but its   *)
(* one handler knows the id, so the log is empty and the tail it read      *)
(* stays right although it holds no lock; afterwards the log starts with   *)
(* that handler's event, and whoever appends holds the lock.               *)
(***************************************************************************)
ServerIds == Auths \ ChosenIds

\* What the handler in slot w knows of its mandate.
Own(w) ==
    LET j == job[w] IN
    /\ j.op \in {"agent", "revoke", "execute"} => Known(j.auth)
    /\ pc[w] \in {"tail", "append"} => j.auth \in signed
    /\ j.op = "confirm" /\ j.auth \in ServerIds => j.auth \notin announced
    /\ pc[w] = "append" /\ j.auth \in ServerIds => j.tail = 0

SameConfirm(w, v) ==
    /\ job[w].op = "confirm" /\ job[v].op = "confirm"
    /\ job[w].auth = job[v].auth /\ job[w].auth \in ServerIds

RowsKnown == \A o \in Orders : payment[o] # None => Known(payment[o].auth)

Identities ==
    /\ announced \subseteq signed
    /\ RowsKnown
    /\ \A w \in Workers : Own(w)
    /\ \A w, v \in Workers : SameConfirm(w, v) => w = v

Log(a) ==
    /\ GoodLog(evidence[a])
    /\ evidence[a] # <<>> <=> a \in announced
    /\ Mentions(evidence[a], "MANDATE_REVOKED") => a \in revoked

Logs == \A a \in ServerIds : Log(a)

-----------------------------------------------------------------------------
(* Who knows an id *)

LEMMA SameRowsKnown ==
  ASSUME RowsKnown, UNCHANGED payment, announced \subseteq announced'
  PROVE  RowsKnown'
  BY DEF RowsKnown, Known

\* A step of the handler in slot w that confirms nothing: it keeps to its mandate
\* or is done.
LEMMA KeepIdentities ==
  ASSUME Inv, Identities, NEW w \in Workers, NEW l, NEW j,
         pc' = [pc EXCEPT ![w] = l], job' = [job EXCEPT ![w] = j],
         j.op = "none" \/ (j.op = job[w].op /\ j.auth = job[w].auth),
         signed \subseteq signed', UNCHANGED announced, RowsKnown', Own(w)'
  PROVE  Identities'
<1>1. job'[w] = j /\ \A v \in Workers : v # w => job'[v] = job[v] /\ pc'[v] = pc[v]
  BY DEF Inv, TypeOK
<1>2. \A v \in Workers : Own(v)'
  BY <1>1 DEF Identities, Own, Known
<1>3. \A u, v \in Workers : SameConfirm(u, v)' => SameConfirm(u, v)
  BY <1>1 DEF SameConfirm
<1>4. QED
  BY <1>2, <1>3 DEF Identities

LEMMA DoneIdentities ==
  ASSUME Inv, Identities, NEW w \in Workers, Return(w) \/ Abandon(w),
         UNCHANGED <<signed, announced>>, RowsKnown'
  PROVE  Identities'
<1>1. \E l \in {"idle", "closing"} : pc' = [pc EXCEPT ![w] = l]
  BY DEF Return, Abandon, Goto
<1>2. job' = [job EXCEPT ![w] = NoJob]
  BY DEF Return, Abandon
<1>3. Own(w)' /\ NoJob.op = "none"
  BY <1>1, <1>2 DEF Inv, TypeOK, Own, NoJob
<1>4. QED
  BY <1>1, <1>2, <1>3, KeepIdentities

\* A request for a mandate the client knows.
LEMMA RequestIdentities ==
  ASSUME Inv, Identities, NEW w \in Workers, NEW j,
         Submit(w, j, "lock"), j.op # "confirm", Known(j.auth)
  PROVE  Identities'
<1>1. job'[w] = j /\ \A v \in Workers : v # w => job'[v] = job[v] /\ pc'[v] = pc[v]
  BY DEF Inv, TypeOK, Submit, Goto
<1>2. pc'[w] = "lock" /\ UNCHANGED <<signed, announced, payment>>
  BY DEF Inv, TypeOK, Submit, Goto
<1>3. \A v \in Workers : Own(v)'
  BY <1>1, <1>2 DEF Identities, Own, Known
<1>4. \A u, v \in Workers : SameConfirm(u, v)' => SameConfirm(u, v)
  BY <1>1 DEF SameConfirm
<1>5. QED
  BY <1>2, <1>3, <1>4, SameRowsKnown DEF Identities

\* A new uuid is nobody's yet.
LEMMA ConfirmIdentities ==
  ASSUME Inv, Identities, NEW w \in Workers, NEW a \in Auths, SubmitConfirm(w, a)
  PROVE  Identities'
<1> DEFINE j == [NoJob EXCEPT !.op = "confirm", !.auth = a]
<1>1. Submit(w, j, "insert") /\ j.auth = a /\ j.op = "confirm"
  BY DEF SubmitConfirm, NoJob
<1>2. a \in ServerIds => a \notin signed /\ \A v \in Workers : job[v].auth # a
  BY DEF SubmitConfirm, ServerIds
<1> HIDE DEF j
<1>3. job'[w] = j /\ \A v \in Workers : v # w => job'[v] = job[v] /\ pc'[v] = pc[v]
  BY <1>1 DEF Inv, TypeOK, Submit, Goto
<1>4. pc'[w] = "insert" /\ UNCHANGED <<signed, announced, payment>>
  BY <1>1 DEF Inv, TypeOK, Submit, Goto
<1>5. \A v \in Workers : Own(v)'
  BY <1>1, <1>2, <1>3, <1>4 DEF Identities, Own, Known
<1>6. \A u, v \in Workers : SameConfirm(u, v)' => u = v
  BY <1>1, <1>2, <1>3 DEF Identities, SameConfirm
<1>7. QED
  BY <1>4, <1>5, <1>6, SameRowsKnown DEF Identities

LEMMA ClientIdentities ==
  ASSUME Inv, Identities, ClientStep
  PROVE  Identities'
<1>1. SUFFICES ASSUME NEW w \in Workers, NEW a \in Auths,
                      \/ SubmitConfirm(w, a)
                      \/ SubmitRevoke(w, a)
                      \/ \E n \in Nonces : \/ SubmitExecute(w, a, n)
                                           \/ \E c \in Carts : SubmitAgent(w, a, n, c)
               PROVE  Identities'
  BY DEF ClientStep
<1>2. CASE SubmitRevoke(w, a)
  <2> DEFINE j == [NoJob EXCEPT !.op = "revoke", !.auth = a]
  <2>1. Submit(w, j, "lock") /\ Known(a)
    BY <1>2 DEF SubmitRevoke
  <2>2. j.auth = a /\ j.op # "confirm"
    BY DEF NoJob
  <2> HIDE DEF j
  <2>3. QED
    BY <2>1, <2>2, RequestIdentities
<1>3. ASSUME NEW n \in Nonces, SubmitExecute(w, a, n)
      PROVE  Identities'
  <2> DEFINE j == [NoJob EXCEPT !.op = "execute", !.auth = a, !.nonce = n]
  <2>1. Submit(w, j, "lock") /\ Known(a)
    BY <1>3 DEF SubmitExecute
  <2>2. j.auth = a /\ j.op # "confirm"
    BY DEF NoJob
  <2> HIDE DEF j
  <2>3. QED
    BY <2>1, <2>2, RequestIdentities
<1>4. ASSUME NEW n \in Nonces, NEW c \in Carts, SubmitAgent(w, a, n, c)
      PROVE  Identities'
  <2> DEFINE j == [NoJob EXCEPT !.op = "agent", !.auth = a, !.nonce = n, !.cart = c]
  <2>1. Submit(w, j, "lock") /\ Known(a)
    BY <1>4 DEF SubmitAgent
  <2>2. j.auth = a /\ j.op # "confirm"
    BY DEF NoJob
  <2> HIDE DEF j
  <2>3. QED
    BY <2>1, <2>2, RequestIdentities
<1>5. QED
  BY <1>1, <1>2, <1>3, <1>4, ConfirmIdentities

\* The handler of /confirm is alone with an id the server made: it finds the log
\* empty, and its answer makes the id known when its own work is over.
LEMMA ConfirmStepIdentities ==
  ASSUME Inv, Identities, Logs, NEW w \in Workers, ConfirmStep(w)
  PROVE  Identities'
<1> DEFINE a == job[w].auth
<1>1. /\ UNCHANGED payment /\ signed \subseteq signed' /\ announced \subseteq announced'
      /\ job[w] \in Job /\ Own(w) /\ JobWellFormed(w)
  BY DEF ConfirmStep, ConfirmInsert, ConfirmTail, ConfirmAppend, Inv, TypeOK, WellFormed,
         Identities
<1>2. RowsKnown'
  BY <1>1, SameRowsKnown DEF Identities
<1>3. CASE ConfirmInsert(w)
  <2>1. CASE a \in signed
    BY <1>2, <1>3, <2>1, DoneIdentities DEF ConfirmInsert
  <2>2. CASE a \notin signed
    <3>1. /\ signed' = signed \cup {a} /\ UNCHANGED <<announced, job>>
          /\ pc' = [pc EXCEPT ![w] = "tail"] /\ pc'[w] = "tail"
      BY <1>3, <2>2 DEF ConfirmInsert, Goto, Inv, TypeOK
    <3>2. job' = [job EXCEPT ![w] = job[w]]
      BY <3>1 DEF Inv, TypeOK
    <3>3. Own(w)'
      BY <1>1, <3>1 DEF Own, Known
    <3>4. QED
      BY <1>1, <1>2, <3>1, <3>2, <3>3, KeepIdentities
  <2>3. QED
    BY <2>1, <2>2
<1>4. CASE ConfirmTail(w)
  <2> DEFINE j == [job[w] EXCEPT !.tail = Len(evidence[a])]
  <2>1. pc[w] = "tail" /\ pc' = [pc EXCEPT ![w] = "append"] /\ UNCHANGED <<signed, announced>>
    BY <1>4 DEF ConfirmTail, Goto
  <2>2. job[w].op = "confirm" /\ a \in signed /\ a \in Auths
    BY <1>1, <2>1 DEF Own, JobWellFormed
  <2>3. job' = [job EXCEPT ![w] = j]
    BY <1>4 DEF ConfirmTail, Inv, TypeOK
  <2>4. j.op = job[w].op /\ j.auth = a /\ j.tail = Len(evidence[a])
    BY <1>1 DEF Job
  <2>5. a \in ServerIds => Len(evidence[a]) = 0
    BY <1>1, <2>2 DEF Own, Logs, Log
  <2> HIDE DEF j
  <2>6. job'[w] = j /\ pc'[w] = "append"
    BY <2>1, <2>3 DEF Inv, TypeOK
  <2>7. Own(w)'
    BY <1>1, <2>1, <2>2, <2>4, <2>5, <2>6 DEF Own, Known
  <2>8. QED
    BY <1>1, <1>2, <2>1, <2>3, <2>4, <2>7, KeepIdentities
<1>5. CASE ConfirmAppend(w)
  <2>1. /\ pc[w] = "append" /\ announced' = announced \cup {a} /\ UNCHANGED signed
        /\ pc' = [pc EXCEPT ![w] = "idle"] /\ job' = [job EXCEPT ![w] = NoJob]
    BY <1>5 DEF ConfirmAppend, Return, Goto
  <2>2. job[w].op = "confirm" /\ a \in signed
    BY <1>1, <2>1 DEF Own, JobWellFormed
  <2>3. /\ job'[w].op = "none" /\ pc'[w] = "idle"
        /\ \A v \in Workers : v # w => job'[v] = job[v] /\ pc'[v] = pc[v]
    BY <2>1 DEF Inv, TypeOK, NoJob
  <2>4. ASSUME NEW v \in Workers
        PROVE  Own(v)'
    <3>1. CASE v = w
      BY <2>3, <3>1 DEF Own
    <3>2. CASE v # w
      <4>1. Own(v) /\ ~SameConfirm(w, v)
        BY <3>2 DEF Identities
      <4>2. QED
        BY <2>1, <2>2, <2>3, <3>2, <4>1 DEF Own, SameConfirm, Known
    <3>3. QED
      BY <3>1, <3>2
  <2>5. \A u, v \in Workers : SameConfirm(u, v)' => SameConfirm(u, v)
    BY <2>3 DEF SameConfirm
  <2>6. QED
    BY <1>2, <2>1, <2>2, <2>4, <2>5 DEF Identities
<1>6. QED
  BY <1>3, <1>4, <1>5 DEF ConfirmStep

LEMMA RowIdentities ==
  ASSUME Inv, Identities, UNCHANGED announced, NEW o \in Orders, NEW r,
         payment' = [payment EXCEPT ![o] = r], Known(r.auth)
  PROVE  RowsKnown'
<1>1. \A q \in Orders : payment'[q] = IF q = o THEN r ELSE payment[q]
  BY DEF Inv, TypeOK
<1>2. QED
  BY <1>1 DEF Identities, RowsKnown, Known

\* A handler under the lock, or waiting for it.
LEMMA HandlerIdentities ==
  ASSUME Inv, Identities, NEW w \in Workers,
         AgentStep(w) \/ Revoke(w) \/ ExecuteStep(w) \/ WebhookStep(w)
           \/ UnknownAuthorization(w) \/ LockTimeout(w) \/ Fail(w) \/ CloseSession(w)
  PROVE  Identities'
<1>1. UNCHANGED <<signed, announced>>
  BY DEF AgentStep, AgentReject, AgentEvaluate, AgentCommit, Revoke, ExecuteStep,
         ExecuteReturnEarly, ExecuteBegin, CreateOrder, ExecuteCommit, WebhookStep,
         WebhookDuplicate, WebhookBegin, WebhookCommit, UnknownAuthorization,
         LockTimeout, Fail, CloseSession
<1>2. RowsKnown'
  <2>1. CASE ExecuteCommit(w)
    <3>1. job[w].order \in Orders /\ payment' = [payment EXCEPT ![job[w].order] = NewRow(job[w])]
      BY <2>1, NewRowType
    <3>2. job[w].op = "execute" /\ Own(w)
      BY <2>1 DEF ExecuteCommit, Inv, WellFormed, JobWellFormed, Identities
    <3>3. Known(NewRow(job[w]).auth)
      BY <3>2 DEF Own, NewRow
    <3>4. QED
      BY <1>1, <3>1, <3>3, RowIdentities
  <2>2. CASE WebhookCommit(w)
    <3> DEFINE o == job[w].order
               s == IF paid[job[w].pid].amount # None
                       /\ paid[job[w].pid].amount # payment[o].amount
                    THEN "AMOUNT_MISMATCH" ELSE "CAPTURED"
    <3>1. HasRow(o)
      BY <2>2 DEF WebhookCommit, Inv, WellFormed, JobWellFormed
    <3>2. payment' = [payment EXCEPT ![o].status = s]
      BY <2>2 DEF WebhookCommit
    <3> HIDE DEF s
    <3>3. payment' = [payment EXCEPT ![o] = [payment[o] EXCEPT !.status = s]]
      BY <3>2 DEF Inv, TypeOK
    <3>4. payment[o] \in Row
      BY <3>1 DEF HasRow, Inv, TypeOK
    <3>5. [payment[o] EXCEPT !.status = s].auth = payment[o].auth
      BY <3>4 DEF Row
    <3>6. Known([payment[o] EXCEPT !.status = s].auth)
      BY <3>1, <3>5 DEF HasRow, Identities, RowsKnown
    <3>7. QED
      BY <1>1, <3>1, <3>3, <3>6, RowIdentities DEF HasRow
  <2>3. CASE UNCHANGED payment
    BY <1>1, <2>3, SameRowsKnown DEF Identities
  <2>4. QED
    BY <2>1, <2>2, <2>3
    DEF AgentStep, AgentReject, AgentEvaluate, AgentCommit, Revoke, ExecuteStep,
        ExecuteReturnEarly, ExecuteBegin, CreateOrder, WebhookStep, WebhookDuplicate,
        WebhookBegin, UnknownAuthorization, LockTimeout, Fail, CloseSession
<1>3. CASE Return(w) \/ Abandon(w)
  BY <1>1, <1>2, <1>3, DoneIdentities
<1>4. ASSUME NEW l \in {"commit", "provider", "record", "idle"}, NEW j,
             pc' = [pc EXCEPT ![w] = l], job' = [job EXCEPT ![w] = j],
             j.op = job[w].op, j.auth = job[w].auth
      PROVE  Identities'
  <2>1. job'[w] = j /\ pc'[w] = l /\ Own(w)
    BY <1>4 DEF Inv, TypeOK, Identities
  <2>2. Own(w)'
    BY <1>1, <1>4, <2>1 DEF Own, Known
  <2>3. QED
    BY <1>1, <1>2, <1>4, <2>2, KeepIdentities
<1>5. job[w] \in Job /\ job = [job EXCEPT ![w] = job[w]]
  BY DEF Inv, TypeOK
<1>6. CASE AgentEvaluate(w)
  <2> DEFINE j == [job[w] EXCEPT
                     !.verdict = Evaluate(job[w].auth, job[w].nonce, job[w].cart),
                     !.fresh = (requests[job[w].auth][job[w].nonce] = None),
                     !.used = used[job[w].auth]]
  <2>1. pc' = [pc EXCEPT ![w] = "commit"] /\ job' = [job EXCEPT ![w] = j]
    BY <1>6 DEF AgentEvaluate, Goto, Inv, TypeOK
  <2>2. j.op = job[w].op /\ j.auth = job[w].auth
    BY <1>5 DEF Job
  <2> HIDE DEF j
  <2>3. QED
    BY <1>4, <2>1, <2>2
<1>7. CASE ExecuteBegin(w)
  <2> DEFINE j == [job[w] EXCEPT !.cart = requests[job[w].auth][job[w].nonce],
                                 !.dec = latest[job[w].auth][job[w].nonce]]
  <2>1. pc' = [pc EXCEPT ![w] = "provider"] /\ job' = [job EXCEPT ![w] = j]
    BY <1>7 DEF ExecuteBegin, Goto, Inv, TypeOK
  <2>2. j.op = job[w].op /\ j.auth = job[w].auth
    BY <1>5 DEF Job
  <2> HIDE DEF j
  <2>3. QED
    BY <1>4, <2>1, <2>2
<1>8. CASE CreateOrder(w)
  <2> DEFINE j == [job[w] EXCEPT !.order = Len(orders) + 1]
  <2>1. pc' = [pc EXCEPT ![w] = "record"] /\ job' = [job EXCEPT ![w] = j]
    BY <1>8 DEF CreateOrder, Goto, Inv, TypeOK
  <2>2. j.op = job[w].op /\ j.auth = job[w].auth
    BY <1>5 DEF Job
  <2> HIDE DEF j
  <2>3. QED
    BY <1>4, <2>1, <2>2
<1>9. CASE WebhookBegin(w) \/ CloseSession(w)
  <2>1. job' = [job EXCEPT ![w] = job[w]]
    BY <1>5, <1>9 DEF WebhookBegin, CloseSession
  <2>2. \E l \in {"commit", "idle"} : pc' = [pc EXCEPT ![w] = l]
    BY <1>9 DEF WebhookBegin, CloseSession, Goto
  <2>3. QED
    BY <1>4, <2>1, <2>2
<1>10. QED
  BY <1>3, <1>6, <1>7, <1>8, <1>9
  DEF AgentStep, AgentReject, AgentCommit, Revoke, ExecuteStep, ExecuteReturnEarly,
      ExecuteCommit, WebhookStep, WebhookDuplicate, WebhookCommit, UnknownAuthorization,
      LockTimeout, Fail

LEMMA SweepIdentities ==
  ASSUME Inv, Identities, SweepStep
  PROVE  Identities'
<1>1. UNCHANGED <<signed, announced, job>>
  BY DEF SweepStep, SweepSelect, SweepSkip, SweepBegin, SweepCommit, SweepAbort
<1>2. RowsKnown'
  <2>1. ASSUME NEW o \in Orders, SweepCommit(o)
        PROVE  RowsKnown'
    <3> DEFINE r == [payment[o] EXCEPT !.status = "STALE"]
    <3>1. HasRow(o) /\ payment[o] \in Row
      BY <2>1, RowType DEF SweepCommit, IsNext, Inv, WellFormed
    <3>2. r.auth = payment[o].auth
      BY <3>1 DEF Row
    <3>3. payment' = [payment EXCEPT ![o] = r]
      BY <2>1 DEF SweepCommit, Inv, TypeOK
    <3> HIDE DEF r
    <3>4. Known(r.auth)
      BY <3>1, <3>2 DEF HasRow, Identities, RowsKnown
    <3>5. QED
      BY <1>1, <3>3, <3>4, RowIdentities
  <2>2. CASE UNCHANGED payment
    BY <1>1, <2>2, SameRowsKnown DEF Identities
  <2>3. QED
    BY <2>1, <2>2 DEF SweepStep, SweepSelect, SweepSkip, SweepBegin, SweepAbort
<1>3. \A v \in Workers : pc'[v] = pc[v]
  BY SweepMovesNoWorker
<1>4. QED
  BY <1>1, <1>2, <1>3 DEF Identities, Own, SameConfirm, Known

LEMMA EnvironmentIdentities ==
  ASSUME Inv, Identities, ProviderStep \/ TimeStep \/ Crash \/ UNCHANGED vars
  PROVE  Identities'
<1>1. UNCHANGED <<signed, announced, payment>>
  BY DEF ProviderStep, WebhookReceive, CustomerPays, TimeStep, Expire, PassTimeout, Crash,
         vars
<1>2. RowsKnown'
  BY <1>1, SameRowsKnown DEF Identities
<1>3. ASSUME NEW w \in Workers, NEW pid \in PaymentIds, WebhookReceive(w, pid)
      PROVE  Identities'
  <2> DEFINE j == [NoJob EXCEPT !.op = "webhook", !.pid = pid, !.order = paid[pid].order]
  <2>1. pc' = [pc EXCEPT ![w] = "lock"] /\ job' = [job EXCEPT ![w] = j]
    BY <1>3 DEF WebhookReceive, Goto
  <2>2. j.op = "webhook"
    BY DEF NoJob
  <2> HIDE DEF j
  <2>3. /\ job'[w] = j /\ pc'[w] = "lock"
        /\ \A v \in Workers : v # w => job'[v] = job[v] /\ pc'[v] = pc[v]
    BY <2>1 DEF Inv, TypeOK
  <2>4. QED
    BY <1>1, <1>2, <2>2, <2>3 DEF Identities, Own, SameConfirm, Known
<1>4. CASE Crash
  <2>1. \A w \in Workers : job'[w].op = "none" /\ pc'[w] = "idle"
    BY <1>4 DEF Crash, NoJob
  <2>2. QED
    BY <1>1, <1>2, <2>1 DEF Identities, Own, SameConfirm
<1>5. CASE UNCHANGED <<pc, job>>
  BY <1>1, <1>2, <1>5 DEF Identities, Own, SameConfirm, Known
<1>6. QED
  BY <1>3, <1>4, <1>5
  DEF ProviderStep, CustomerPays, TimeStep, Expire, PassTimeout, vars

LEMMA IdentitiesStep ==
  ASSUME Inv, Identities, Logs, [Next]_vars
  PROVE  Identities'
  BY ClientIdentities, ConfirmStepIdentities, HandlerIdentities, SweepIdentities,
     EnvironmentIdentities
  DEF Next, HandlerStep, Quiet

-----------------------------------------------------------------------------
(* Logs grow well *)

LEMMA SameLogs ==
  ASSUME Logs, UNCHANGED <<evidence, announced>>, revoked \subseteq revoked'
  PROVE  Logs'
  BY DEF Logs, Log

\* An event appended under the lock to the log of a mandate the client knows.
LEMMA AppendLogs ==
  ASSUME Inv, Logs, NEW a \in Auths, Known(a), NEW type \in EventTypes,
         type # "MANDATE_SIGNED", Linked(a, type, Len(evidence[a])),
         UNCHANGED announced, revoked \subseteq revoked',
         type \in {"ORDER_CREATED", "MANDATE_REVOKED"} => a \notin revoked,
         type = "MANDATE_REVOKED" => a \in revoked'
  PROVE  Logs'
<1> DEFINE e == [type |-> type, prev |-> Len(evidence[a])]
<1>1. evidence[a] \in Seq(Event) /\ evidence' = [evidence EXCEPT ![a] = Append(@, e)]
  BY DEF Inv, TypeOK, Linked
<1>2. e \in Event /\ e.type = type /\ e.prev = Len(evidence[a])
  BY <1>1 DEF Event
<1> HIDE DEF e
<1>3. evidence'[a] = Append(evidence[a], e)
  BY <1>1 DEF Inv, TypeOK
<1>4. \A b \in ServerIds : b # a => evidence'[b] = evidence[b]
  BY <1>1 DEF Inv, TypeOK, ServerIds
<1>5. ASSUME a \in ServerIds
      PROVE  Log(a)'
  <2>1. Log(a) /\ a \in announced
    BY <1>5 DEF Logs, Known, ServerIds
  <2>2. GoodLog(evidence[a]) /\ MayFollow(evidence[a], e)
    BY <1>2, <2>1 DEF Log, MayFollow
  <2>3. QED
    BY <1>1, <1>2, <1>3, <2>1, <2>2, GoodAppend DEF Log
<1>6. QED
  BY <1>4, <1>5 DEF Logs, Log

\* The event of /confirm opens the log; a client who chose the id has none of
\* the promise.
LEMMA ConfirmLogs ==
  ASSUME Inv, Identities, Logs, NEW w \in Workers, ConfirmStep(w)
  PROVE  Logs'
<1>1. CASE ConfirmInsert(w) \/ ConfirmTail(w)
  BY <1>1, SameLogs DEF ConfirmInsert, ConfirmTail
<1>2. CASE ConfirmAppend(w)
  <2> DEFINE a == job[w].auth
             e == [type |-> "MANDATE_SIGNED", prev |-> job[w].tail]
  <2>1. /\ evidence' = [evidence EXCEPT ![a] = Append(@, e)]
        /\ announced' = announced \cup {a} /\ UNCHANGED revoked /\ pc[w] = "append"
    BY <1>2 DEF ConfirmAppend, Linked
  <2>2. job[w] \in Job /\ job[w].op = "confirm" /\ a \in Auths /\ Own(w)
    BY <2>1 DEF Inv, TypeOK, WellFormed, JobWellFormed, Identities
  <2>3. e \in Event /\ e.type = "MANDATE_SIGNED" /\ e.prev = job[w].tail
    BY <2>2 DEF Event, EventTypes, Job
  <2> HIDE DEF e
  <2>4. evidence[a] \in Seq(Event) /\ evidence'[a] = Append(evidence[a], e)
    BY <2>1, <2>2 DEF Inv, TypeOK
  <2>5. \A b \in ServerIds : b # a => evidence'[b] = evidence[b]
    BY <2>1 DEF Inv, TypeOK, ServerIds
  <2>6. ASSUME NEW b \in ServerIds, b = a
        PROVE  Log(b)'
    <3>1. Log(a) /\ evidence[a] = <<>> /\ e.prev = 0
      BY <2>1, <2>2, <2>3, <2>6 DEF Logs, Log, Own
    <3>2. GoodLog(evidence[a]) /\ MayFollow(evidence[a], e)
      BY <2>3, <3>1 DEF Log, MayFollow
    <3>3. ~Mentions(evidence[a], "MANDATE_REVOKED")
      BY <3>1 DEF Mentions
    <3>4. /\ GoodLog(Append(evidence[a], e)) /\ Append(evidence[a], e) # <<>>
          /\ ~Mentions(Append(evidence[a], e), "MANDATE_REVOKED")
      BY <2>3, <2>4, <3>2, <3>3, GoodAppend
    <3>5. QED
      BY <2>1, <2>4, <2>6, <3>4 DEF Log
  <2>7. QED
    BY <2>1, <2>5, <2>6 DEF Logs, Log
<1>3. QED
  BY <1>1, <1>2 DEF ConfirmStep

\* The two events of an agent request.
LEMMA AgentCommitLogs ==
  ASSUME Inv, Identities, Logs, NEW w \in Workers, AgentCommit(w)
  PROVE  Logs'
<1> DEFINE a == job[w].auth
           s == evidence[a]
           d == [type |-> IF job[w].fresh THEN "AGENT_REQUEST_RECEIVED"
                                          ELSE "REPLAY_ATTEMPT_BLOCKED",
                 prev |-> Len(s)]
           e == [type |-> "POLICY_EVALUATED", prev |-> Len(s) + 1]
<1>1. job[w].op = "agent" /\ UNCHANGED <<announced, revoked>>
      /\ evidence' = [evidence EXCEPT ![a] = Append(Append(s, d), e)]
  BY DEF AgentCommit
<1>2. a \in Auths /\ Known(a) /\ s \in Seq(Event)
  BY <1>1 DEF Inv, TypeOK, WellFormed, JobWellFormed, Identities, Own
<1>3. /\ d \in Event /\ d.prev = Len(s)
      /\ d.type \in {"AGENT_REQUEST_RECEIVED", "REPLAY_ATTEMPT_BLOCKED"}
  BY <1>2 DEF Event, EventTypes
<1>4. e \in Event /\ e.prev = Len(s) + 1 /\ e.type = "POLICY_EVALUATED"
  BY <1>2 DEF Event, EventTypes
<1> HIDE DEF d, e
<1>5. /\ evidence'[a] = Append(Append(s, d), e)
      /\ \A b \in ServerIds : b # a => evidence'[b] = evidence[b]
  BY <1>1, <1>2 DEF Inv, TypeOK, ServerIds
<1>6. ASSUME NEW b \in ServerIds, b = a
      PROVE  Log(b)'
  <2>1. Log(a) /\ a \in announced /\ s # <<>> /\ GoodLog(s)
    BY <1>2, <1>6 DEF Logs, Log, Known, ServerIds
  <2>2. MayFollow(s, d)
    BY <1>3, <2>1 DEF MayFollow
  <2> DEFINE t == Append(s, d)
  <2>3. /\ GoodLog(t) /\ t # <<>> /\ t \in Seq(Event) /\ Len(t) = Len(s) + 1
        /\ Mentions(t, "MANDATE_REVOKED") => Mentions(s, "MANDATE_REVOKED")
    BY <1>2, <1>3, <2>1, <2>2, GoodAppend
  <2> HIDE DEF t
  <2>4. MayFollow(t, e)
    BY <1>4, <2>3 DEF MayFollow
  <2>5. /\ GoodLog(Append(t, e)) /\ Append(t, e) # <<>>
        /\ Mentions(Append(t, e), "MANDATE_REVOKED") => Mentions(t, "MANDATE_REVOKED")
    BY <1>4, <2>3, <2>4, GoodAppend
  <2>6. evidence'[a] = Append(t, e)
    BY <1>5 DEF t
  <2>7. QED
    BY <1>1, <1>6, <2>1, <2>3, <2>5, <2>6 DEF Log
<1>7. QED
  BY <1>1, <1>5, <1>6 DEF Logs, Log

\* The other handlers append one event, under the lock; execute's holder of the
\* lock knows that its mandate is not revoked.
LEMMA HandlerLogs ==
  ASSUME Inv, Identities, Logs, NEW w \in Workers,
         AgentStep(w) \/ Revoke(w) \/ ExecuteStep(w) \/ WebhookStep(w)
           \/ UnknownAuthorization(w) \/ LockTimeout(w) \/ Fail(w) \/ CloseSession(w)
  PROVE  Logs'
<1>1. JobWellFormed(w) /\ Own(w) /\ WorkerReads(w)
  BY DEF Inv, WellFormed, Identities, ReadsStillTrue
<1>2. CASE AgentReject(w)
  <2>1. job[w].auth \in Auths /\ Known(job[w].auth)
    BY <1>1, <1>2 DEF AgentReject, JobWellFormed, Own
  <2>2. QED
    BY <1>2, <2>1, AppendLogs DEF AgentReject, EventTypes
<1>3. CASE Revoke(w)
  <2> DEFINE a == job[w].auth
  <2>1. a \in Auths /\ Known(a) /\ revoked' = revoked \cup {a} /\ UNCHANGED announced
    BY <1>1, <1>3 DEF Revoke, JobWellFormed, Own
  <2>2. CASE a \in revoked
    BY <1>3, <2>1, <2>2, SameLogs DEF Revoke
  <2>3. CASE a \notin revoked
    <3>1. Linked(a, "MANDATE_REVOKED", Len(evidence[a]))
      BY <1>3, <2>3 DEF Revoke
    <3>2. QED
      BY <2>1, <2>3, <3>1, AppendLogs DEF EventTypes
  <2>4. QED
    BY <2>2, <2>3
<1>4. CASE ExecuteCommit(w)
  <2>1. /\ job[w].auth \in Auths /\ Known(job[w].auth) /\ job[w].auth \notin revoked
    BY <1>1, <1>4 DEF ExecuteCommit, JobWellFormed, Own, WorkerReads, Payable
  <2>2. QED
    BY <1>4, <2>1, AppendLogs DEF ExecuteCommit, EventTypes
<1>5. CASE WebhookCommit(w)
  <2> DEFINE o == job[w].order
             a == payment[o].auth
             type == IF paid[job[w].pid].amount # None
                          /\ paid[job[w].pid].amount # payment[o].amount
                       THEN "PAYMENT_AMOUNT_MISMATCH" ELSE "PAYMENT_CAPTURED"
  <2>1. HasRow(o)
    BY <1>1, <1>5 DEF WebhookCommit, JobWellFormed
  <2>2. a \in Auths /\ Known(a)
    BY <2>1, RowType DEF Inv, HasRow, Identities, RowsKnown
  <2>3. Linked(a, type, Len(evidence[a])) /\ UNCHANGED <<announced, revoked>>
    BY <1>5 DEF WebhookCommit
  <2>4. type \in {"PAYMENT_AMOUNT_MISMATCH", "PAYMENT_CAPTURED"}
    OBVIOUS
  <2> HIDE DEF type
  <2>5. QED
    BY <2>2, <2>3, <2>4, AppendLogs DEF EventTypes
<1>6. CASE UNCHANGED <<evidence, announced, revoked>>
  BY <1>6, SameLogs
<1>7. QED
  BY <1>2, <1>3, <1>4, <1>5, <1>6, AgentCommitLogs
  DEF AgentStep, AgentEvaluate, ExecuteStep, ExecuteReturnEarly, ExecuteBegin,
      CreateOrder, WebhookStep, WebhookDuplicate, WebhookBegin, UnknownAuthorization,
      LockTimeout, Fail, CloseSession

LEMMA SweepLogs ==
  ASSUME Inv, Identities, Logs, SweepStep
  PROVE  Logs'
<1>1. ASSUME NEW o \in Orders, SweepCommit(o)
      PROVE  Logs'
  <2>1. HasRow(o)
    BY <1>1 DEF SweepCommit, IsNext, Inv, WellFormed
  <2>2. payment[o].auth \in Auths /\ Known(payment[o].auth)
    BY <2>1, RowType DEF Inv, HasRow, Identities, RowsKnown
  <2>3. QED
    BY <1>1, <2>2, AppendLogs DEF SweepCommit, EventTypes
<1>2. CASE UNCHANGED <<evidence, announced, revoked>>
  BY <1>2, SameLogs
<1>3. QED
  BY <1>1, <1>2 DEF SweepStep, SweepSelect, SweepSkip, SweepBegin, SweepAbort

LEMMA LogsStep ==
  ASSUME Inv, Identities, Logs, [Next]_vars
  PROVE  Logs'
<1>1. CASE ClientStep \/ ProviderStep \/ TimeStep \/ Crash \/ UNCHANGED vars
  BY <1>1, SameLogs
  DEF ClientStep, SubmitConfirm, SubmitAgent, SubmitRevoke, SubmitExecute, Submit,
      ProviderStep, WebhookReceive, CustomerPays, TimeStep, Expire, PassTimeout, Crash, vars
<1>2. QED
  BY <1>1, ConfirmLogs, HandlerLogs, SweepLogs DEF Next, HandlerStep, Quiet

-----------------------------------------------------------------------------
(* Theorems *)

\* In every state a server-made id is known only through its own log.
THEOREM LogInvariance == Spec => [](Identities /\ Logs)
<1>1. Init => Identities /\ Logs
  BY DEF Init, Identities, RowsKnown, Own, SameConfirm, NoJob, Logs, Log, GoodLog, Mentions,
         ServerIds
<1>2. Inv /\ (Identities /\ Logs) /\ [Next]_vars => (Identities /\ Logs)'
  BY IdentitiesStep, LogsStep
<1>3. QED
  BY <1>1, <1>2, Invariance, PTL DEF Spec

\* Each event of a mandate whose id the server made links to the one before it,
\* although /confirm reads the tail and appends in different transactions.
THEOREM EventsLinked == Spec => []ChainLinked
<1>1. Logs => ChainLinked
  BY DEF Logs, Log, GoodLog, ChainLinked, ServerIds
<1>2. QED
  BY <1>1, LogInvariance, PTL

\* Such a mandate's log starts with its signature, and after its revocation it
\* shows no order and no second revocation, however handlers interleave.
THEOREM StoryInOrder == Spec => []LogInOrder
<1>1. Logs => LogInOrder
  BY DEF Logs, Log, GoodLog, LogInOrder, ServerIds
<1>2. QED
  BY <1>1, LogInvariance, PTL

-----------------------------------------------------------------------------
(***************************************************************************)
(* Evidence and state.  What a log counts is compared with the rows R of   *)
(* its mandate, the requests Q, the revocations v (0 or 1), the payment    *)
(* events P, and the rows L that are no longer CREATED: an order is marked *)
(* STALE only while it is CREATED, hence at most once.                     *)
(***************************************************************************)
Count(s, types) == Cardinality({i \in 1..Len(s) : s[i].type \in types})

PaidTypes == {"PAYMENT_CAPTURED", "PAYMENT_AMOUNT_MISMATCH"}

Matches(s, g, R, Q, v, P, L) ==
    /\ IsFiniteSet(R) /\ IsFiniteSet(Q) /\ IsFiniteSet(P) /\ L \subseteq R
    /\ Count(s, {"MANDATE_SIGNED"}) = g
    /\ Count(s, {"ORDER_CREATED"}) = Cardinality(R)
    /\ Count(s, {"AGENT_REQUEST_RECEIVED"}) = Cardinality(Q)
    /\ Count(s, {"POLICY_EVALUATED"})
         = Count(s, {"AGENT_REQUEST_RECEIVED", "REPLAY_ATTEMPT_BLOCKED"})
    /\ Count(s, {"MANDATE_REVOKED"}) = v
    /\ Count(s, PaidTypes) = Cardinality(P)
    /\ Count(s, {"PAYMENT_STALE"}) \in 0..Cardinality(L)

LEMMA CountAppend ==
  ASSUME NEW s \in Seq(Event), NEW e \in Event, NEW types
  PROVE  /\ Count(s, types) \in Nat
         /\ Count(Append(s, e), types)
              = IF e.type \in types THEN Count(s, types) + 1 ELSE Count(s, types)
<1> DEFINE S == {i \in 1..Len(s) : s[i].type \in types}
           t == Append(s, e)
           n == Len(s) + 1
           T == {i \in 1..Len(t) : t[i].type \in types}
<1>1. /\ Len(s) \in Nat /\ n \in Nat /\ Len(t) = n /\ t[n] = e
      /\ \A i \in 1..Len(s) : t[i] = s[i]
  OBVIOUS
<1>2. IsFiniteSet(S) /\ Cardinality(S) \in Nat
  <2>1. IsFiniteSet(1..Len(s)) /\ S \in SUBSET (1..Len(s))
    BY <1>1, FS_Interval
  <2>2. QED
    BY <2>1, FS_Subset, FS_CardinalityType
<1> HIDE DEF t
<1>3. T = IF e.type \in types THEN S \cup {n} ELSE S
  BY <1>1
<1>4. n \notin S
  BY <1>1
<1> HIDE DEF S, n, T
<1>5. Cardinality(T) = IF e.type \in types THEN Cardinality(S) + 1 ELSE Cardinality(S)
  BY <1>2, <1>3, <1>4, FS_AddElement
<1>6. QED
  BY <1>2, <1>5 DEF Count, S, T, t

\* What one event adds to each count.
Adds(s, t, type, types) ==
    /\ Count(s, types) \in Nat
    /\ Count(t, types) = IF type \in types THEN Count(s, types) + 1 ELSE Count(s, types)

AddsAll(s, t, type) ==
    /\ Adds(s, t, type, {"MANDATE_SIGNED"})
    /\ Adds(s, t, type, {"ORDER_CREATED"})
    /\ Adds(s, t, type, {"AGENT_REQUEST_RECEIVED"})
    /\ Adds(s, t, type, {"POLICY_EVALUATED"})
    /\ Adds(s, t, type, {"AGENT_REQUEST_RECEIVED", "REPLAY_ATTEMPT_BLOCKED"})
    /\ Adds(s, t, type, {"MANDATE_REVOKED"})
    /\ Adds(s, t, type, PaidTypes)
    /\ Adds(s, t, type, {"PAYMENT_STALE"})

LEMMA AppendAdds ==
  ASSUME NEW s \in Seq(Event), NEW e \in Event
  PROVE  AddsAll(s, Append(s, e), e.type)
  BY CountAppend DEF AddsAll, Adds

LEMMA MatchesOther ==
  ASSUME NEW s, NEW t, NEW g, NEW R, NEW Q, NEW v, NEW P, NEW L, Matches(s, g, R, Q, v, P, L),
         AddsAll(s, t, "AGENT_REQUEST_REJECTED")
  PROVE  Matches(t, g, R, Q, v, P, L)
  BY DEF Matches, AddsAll, Adds, PaidTypes

LEMMA MatchesSigned ==
  ASSUME NEW s, NEW t, NEW R, NEW Q, NEW v, NEW P, NEW L, Matches(s, 0, R, Q, v, P, L),
         AddsAll(s, t, "MANDATE_SIGNED")
  PROVE  Matches(t, 1, R, Q, v, P, L)
  BY DEF Matches, AddsAll, Adds, PaidTypes

LEMMA MatchesOrder ==
  ASSUME NEW s, NEW t, NEW g, NEW R, NEW Q, NEW v, NEW P, NEW L, Matches(s, g, R, Q, v, P, L),
         AddsAll(s, t, "ORDER_CREATED"), NEW o, o \notin R
  PROVE  Matches(t, g, R \cup {o}, Q, v, P, L)
<1>1. IsFiniteSet(R \cup {o}) /\ Cardinality(R \cup {o}) = Cardinality(R) + 1
  BY FS_AddElement DEF Matches
<1>2. QED
  BY <1>1 DEF Matches, AddsAll, Adds, PaidTypes

LEMMA MatchesRevoke ==
  ASSUME NEW s, NEW t, NEW g, NEW R, NEW Q, NEW P, NEW L, Matches(s, g, R, Q, 0, P, L),
         AddsAll(s, t, "MANDATE_REVOKED")
  PROVE  Matches(t, g, R, Q, 1, P, L)
  BY DEF Matches, AddsAll, Adds, PaidTypes

LEMMA Finer ==
  ASSUME NEW R, IsFiniteSet(R), NEW K, K \subseteq R, NEW L, L \subseteq K
  PROVE  /\ Cardinality(L) \in Nat /\ Cardinality(K) \in Nat
         /\ Cardinality(L) <= Cardinality(K)
<1>1. IsFiniteSet(K) /\ IsFiniteSet(L)
  BY FS_Subset
<1>2. QED
  BY <1>1, FS_Subset, FS_CardinalityType

LEMMA MatchesPaid ==
  ASSUME NEW s, NEW t, NEW g, NEW R, NEW Q, NEW v, NEW P, NEW L, Matches(s, g, R, Q, v, P, L),
         NEW type \in PaidTypes, AddsAll(s, t, type), NEW pid, pid \notin P,
         NEW K, L \subseteq K, K \subseteq R
  PROVE  Matches(t, g, R, Q, v, P \cup {pid}, K)
<1>1. IsFiniteSet(P \cup {pid}) /\ Cardinality(P \cup {pid}) = Cardinality(P) + 1
  BY FS_AddElement DEF Matches
<1>2. /\ Cardinality(L) \in Nat /\ Cardinality(K) \in Nat
      /\ Cardinality(L) <= Cardinality(K)
  BY Finer DEF Matches
<1>3. QED
  BY <1>1, <1>2 DEF Matches, AddsAll, Adds, PaidTypes

LEMMA MatchesStale ==
  ASSUME NEW s, NEW t, NEW g, NEW R, NEW Q, NEW v, NEW P, NEW L, Matches(s, g, R, Q, v, P, L),
         AddsAll(s, t, "PAYMENT_STALE"), NEW o \in R, o \notin L
  PROVE  Matches(t, g, R, Q, v, P, L \cup {o})
<1>1. IsFiniteSet(L) /\ Cardinality(L) \in Nat
  BY FS_Subset, FS_CardinalityType DEF Matches
<1>2. Cardinality(L \cup {o}) = Cardinality(L) + 1
  BY <1>1, FS_AddElement
<1>3. QED
  BY <1>1, <1>2 DEF Matches, AddsAll, Adds, PaidTypes

\* The two events of an agent request, for a new request n or a replay.
LEMMA MatchesRequest ==
  ASSUME NEW s, NEW t, NEW u, NEW g, NEW R, NEW Q, NEW v, NEW P, NEW L,
         Matches(s, g, R, Q, v, P, L), AddsAll(s, t, "AGENT_REQUEST_RECEIVED"),
         AddsAll(t, u, "POLICY_EVALUATED"), NEW n, n \notin Q
  PROVE  Matches(u, g, R, Q \cup {n}, v, P, L)
<1>1. IsFiniteSet(Q \cup {n}) /\ Cardinality(Q \cup {n}) = Cardinality(Q) + 1
  BY FS_AddElement DEF Matches
<1>2. QED
  BY <1>1 DEF Matches, AddsAll, Adds, PaidTypes

LEMMA MatchesReplay ==
  ASSUME NEW s, NEW t, NEW u, NEW g, NEW R, NEW Q, NEW v, NEW P, NEW L,
         Matches(s, g, R, Q, v, P, L), AddsAll(s, t, "REPLAY_ATTEMPT_BLOCKED"),
         AddsAll(t, u, "POLICY_EVALUATED")
  PROVE  Matches(u, g, R, Q, v, P, L)
  BY DEF Matches, AddsAll, Adds, PaidTypes

-----------------------------------------------------------------------------
(***************************************************************************)
(* Of all handlers of /confirm for one id, also one the client chose, only *)
(* the one whose INSERT succeeded gets to append, and the id is announced  *)
(* when it does; a later /confirm finds the row and is answered 409.       *)
(***************************************************************************)
Confirming(w) == pc[w] \in {"tail", "append"}

Signing ==
    /\ announced \subseteq signed
    /\ \A w \in Workers : Confirming(w) => job[w].auth \in signed \ announced
    /\ \A w, v \in Workers :
         Confirming(w) /\ Confirming(v) /\ job[w].auth = job[v].auth => w = v

\* Who is between the two transactions was there, or has inserted the row.
LEMMA ConfirmingStep ==
  ASSUME Inv, [Next]_vars, NEW v \in Workers, Confirming(v)'
  PROVE  \/ Confirming(v) /\ job'[v].auth = job[v].auth
         \/ ConfirmInsert(v) /\ job[v].auth \notin signed /\ job' = job
<1>1. pc \in [Procs -> PCs] /\ job \in [Procs -> Job]
  BY DEF Inv, TypeOK
<1>2. CASE ClientStep \/ ProviderStep \/ TimeStep \/ Crash \/ Quiet \/ UNCHANGED vars
  <2>1. ASSUME NEW w \in Workers, NEW j, NEW l \in {"insert", "lock"}, Submit(w, j, l)
        PROVE  Confirming(v) /\ job'[v].auth = job[v].auth
    BY <1>1, <2>1 DEF Submit, Goto, Confirming
  <2>2. CASE ClientStep
    BY <2>1, <2>2 DEF ClientStep, SubmitConfirm, SubmitRevoke, SubmitExecute, SubmitAgent
  <2>3. CASE ProviderStep
    BY <1>1, <2>3 DEF ProviderStep, WebhookReceive, CustomerPays, Goto, Confirming
  <2>4. CASE TimeStep \/ Crash \/ Quiet \/ UNCHANGED vars
    BY <2>4 DEF TimeStep, Expire, PassTimeout, Crash, Quiet, vars, Confirming
  <2>5. QED
    BY <1>2, <2>2, <2>3, <2>4
<1>3. CASE SweepStep
  BY <1>3, SweepMovesNoWorker DEF Confirming
<1>4. ASSUME NEW w \in Workers, HandlerStep(w) \/ Fail(w) \/ CloseSession(w)
      PROVE  \/ Confirming(v) /\ job'[v].auth = job[v].auth
             \/ ConfirmInsert(v) /\ job[v].auth \notin signed /\ job' = job
  <2>1. CASE v # w
    BY <1>4, <2>1, OneMoves DEF Confirming
  <2>2. CASE v = w /\ (ConfirmStep(w) \/ AgentStep(w) \/ Revoke(w))
    <3>1. CASE ConfirmTail(v)
      BY <1>1, <3>1 DEF ConfirmTail, Confirming, Job
    <3>2. CASE ConfirmInsert(v)
      BY <1>1, <3>2 DEF ConfirmInsert, Return, Goto, Confirming
    <3>3. CASE ConfirmAppend(v) \/ AgentStep(v) \/ Revoke(v)
      BY <1>1, <3>3
      DEF ConfirmAppend, AgentStep, AgentReject, AgentEvaluate, AgentCommit, Revoke,
          Return, Goto, Confirming
    <3>4. QED
      BY <2>2, <3>1, <3>2, <3>3 DEF ConfirmStep
  <2>3. CASE v = w /\ (ExecuteStep(w) \/ WebhookStep(w))
    BY <1>1, <2>3
    DEF ExecuteStep, ExecuteReturnEarly, ExecuteBegin, CreateOrder, ExecuteCommit,
        WebhookStep, WebhookDuplicate, WebhookBegin, WebhookCommit, Goto, Return,
        Abandon, Confirming
  <2>4. CASE v = w /\ (\/ UnknownAuthorization(w) \/ LockTimeout(w) \/ Fail(w)
                       \/ CloseSession(w))
    BY <1>1, <2>4
    DEF UnknownAuthorization, LockTimeout, Fail, CloseSession, Goto, Return, Abandon,
        Confirming
  <2>5. QED
    BY <1>4, <2>1, <2>2, <2>3, <2>4 DEF HandlerStep
<1>5. QED
  BY <1>2, <1>3, <1>4 DEF Next

\* Ids are announced by the append only, and rows stay.
LEMMA AnnouncedStep ==
  ASSUME Inv, [Next]_vars
  PROVE  \/ UNCHANGED announced
         \/ \E w \in Workers : /\ ConfirmAppend(w)
                               /\ announced' = announced \cup {job[w].auth}
<1>1. CASE ClientStep \/ ProviderStep \/ TimeStep \/ Crash \/ Quiet \/ UNCHANGED vars
  BY <1>1
  DEF ClientStep, SubmitConfirm, SubmitAgent, SubmitRevoke, SubmitExecute, Submit,
      ProviderStep, WebhookReceive, CustomerPays, TimeStep, Expire, PassTimeout, Crash,
      Quiet, vars
<1>2. CASE SweepStep
  BY <1>2
  DEF SweepStep, SweepSelect, SweepSkip, SweepBegin, SweepCommit, SweepAbort
<1>3. ASSUME NEW w \in Workers, HandlerStep(w) \/ Fail(w) \/ CloseSession(w)
      PROVE  \/ UNCHANGED announced
             \/ ConfirmAppend(w) /\ announced' = announced \cup {job[w].auth}
  BY <1>3
  DEF HandlerStep, ConfirmStep, ConfirmInsert, ConfirmTail, ConfirmAppend, AgentStep,
      AgentReject, AgentEvaluate, AgentCommit, Revoke, ExecuteStep, ExecuteReturnEarly,
      ExecuteBegin, CreateOrder, ExecuteCommit, WebhookStep, WebhookDuplicate,
      WebhookBegin, WebhookCommit, UnknownAuthorization, LockTimeout, Fail, CloseSession
<1>4. QED
  BY <1>1, <1>2, <1>3 DEF Next

LEMMA SigningStep ==
  ASSUME Inv, Signing, [Next]_vars
  PROVE  Signing'
<1>1. signed \subseteq signed' /\ pc \in [Procs -> PCs]
  BY SignedGrows DEF Inv, TypeOK
<1>2. ASSUME NEW w \in Workers, ConfirmAppend(w)
      PROVE  job[w].auth \in signed /\ Confirming(w) /\ ~Confirming(w)'
  BY <1>1, <1>2 DEF ConfirmAppend, Return, Goto, Signing, Confirming
<1>3. ASSUME NEW w \in Workers, ConfirmInsert(w), job[w].auth \notin signed
      PROVE  /\ job[w].auth \in signed'
             /\ \A v \in Workers : v # w => ~ConfirmInsert(v)
  BY <1>1, <1>3 DEF ConfirmInsert, Goto
<1>4. announced' \subseteq signed'
  BY <1>1, <1>2, AnnouncedStep DEF Signing
<1>5. ASSUME NEW v \in Workers, Confirming(v)'
      PROVE  job'[v].auth \in signed' \ announced'
  <2>1. job'[v].auth = job[v].auth
    BY <1>5, ConfirmingStep
  <2>2. CASE Confirming(v)
    <3>1. ASSUME NEW w \in Workers, ConfirmAppend(w)
          PROVE  job[v].auth # job[w].auth
      BY <1>2, <1>5, <2>2, <3>1 DEF Signing
    <3>2. QED
      BY <1>1, <2>1, <2>2, <3>1, AnnouncedStep DEF Signing
  <2>3. CASE ConfirmInsert(v) /\ job[v].auth \notin signed
    <3>1. announced' = announced
      BY <2>3 DEF ConfirmInsert
    <3>2. QED
      BY <1>3, <2>1, <2>3, <3>1 DEF Signing
  <2>4. QED
    BY <1>5, <2>2, <2>3, ConfirmingStep
<1>6. ASSUME NEW w \in Workers, NEW v \in Workers, Confirming(w)', Confirming(v)',
             job'[w].auth = job'[v].auth
      PROVE  w = v
  <2>1. job'[v].auth = job[v].auth /\ job'[w].auth = job[w].auth
    BY <1>6, ConfirmingStep
  <2>2. CASE Confirming(w) /\ Confirming(v)
    BY <1>6, <2>1, <2>2 DEF Signing
  <2>3. CASE Confirming(w) /\ ConfirmInsert(v) /\ job[v].auth \notin signed
    BY <1>6, <2>1, <2>3 DEF Signing
  <2>4. CASE Confirming(v) /\ ConfirmInsert(w) /\ job[w].auth \notin signed
    BY <1>6, <2>1, <2>4 DEF Signing
  <2>5. CASE ConfirmInsert(w) /\ job[w].auth \notin signed /\ ConfirmInsert(v)
    BY <1>3, <2>5
  <2>6. QED
    BY <1>6, <2>2, <2>3, <2>4, <2>5, ConfirmingStep
<1>7. QED
  BY <1>4, <1>5, <1>6 DEF Signing

\* One handler of /confirm at a time is between its two transactions for an id, and
\* the id is signed and not announced.
THEOREM SigningInvariance == Spec => []Signing
<1>1. Init => Signing
  BY DEF Init, Signing, Confirming
<1>2. Inv /\ Signing /\ [Next]_vars => Signing'
  BY SigningStep
<1>3. QED
  BY <1>1, <1>2, Invariance, PTL DEF Spec

-----------------------------------------------------------------------------
(* Agreement of log and state *)

Signatures(a) == IF a \in announced THEN 1 ELSE 0
Asked(a) == {n \in Nonces : requests[a][n] # None}
Revocations(a) == IF a \in revoked THEN 1 ELSE 0
PaymentsOf(a) == UNION {paymentEvents[o] : o \in RecordedFor(a)}
Moved(a) == {o \in RecordedFor(a) : payment[o].status # "CREATED"}

Agrees(a) ==
    Matches(evidence[a], Signatures(a), RecordedFor(a), Asked(a), Revocations(a),
            PaymentsOf(a), Moved(a))

\* A payment whose event is stored has been seen, so it is not counted again.
EventsSeen == \A o \in Orders : paymentEvents[o] \subseteq seen

Agreed == (\A a \in Auths : Agrees(a)) /\ EventsSeen

told == <<revoked, announced, requests, evidence, payment, paymentEvents, seen>>

LEMMA SameAgreed ==
  ASSUME Agreed, UNCHANGED told
  PROVE  Agreed'
  BY DEF Agreed, Agrees, EventsSeen, Signatures, Asked, Revocations, PaymentsOf, Moved, RecordedFor,
         Recorded, told

\* Whose log does not grow agrees as before.
LEMMA OtherAgrees ==
  ASSUME Agreed, NEW a \in Auths, evidence'[a] = evidence[a],
         Signatures(a)' = Signatures(a),
         RecordedFor(a)' = RecordedFor(a), Asked(a)' = Asked(a),
         Revocations(a)' = Revocations(a), PaymentsOf(a)' = PaymentsOf(a),
         Moved(a)' = Moved(a)
  PROVE  Agrees(a)'
  BY DEF Agreed, Agrees

\* One event of the type is the news of a; nobody else's log grows.
Logged(a, type) ==
    /\ AddsAll(evidence[a], evidence'[a], type)
    /\ \A b \in Auths : b # a => evidence'[b] = evidence[b]

LEMMA LinkedLogged ==
  ASSUME TypeOK, NEW a \in Auths, NEW type \in EventTypes, NEW tail \in Nat,
         Linked(a, type, tail)
  PROVE  Logged(a, type)
<1>1. PICK e : e = [type |-> type, prev |-> tail]
  OBVIOUS
<1>2. e \in Event /\ e.type = type
  BY <1>1 DEF Event
<1>3. evidence[a] \in Seq(Event) /\ evidence' = [evidence EXCEPT ![a] = Append(@, e)]
  BY <1>1 DEF TypeOK, Linked
<1>4. /\ evidence'[a] = Append(evidence[a], e)
      /\ \A b \in Auths : b # a => evidence'[b] = evidence[b]
  BY <1>3 DEF TypeOK
<1>5. AddsAll(evidence[a], evidence'[a], type)
  BY <1>2, <1>3, <1>4, AppendAdds
<1>6. QED
  BY <1>4, <1>5 DEF Logged

\* What changes for a, and only for a, when row o becomes one of a's with status s
\* and the events of o gain those of X.
Gains(a, o, s, X) ==
    /\ RecordedFor(a)' = RecordedFor(a) \cup {o}
    /\ PaymentsOf(a)' = PaymentsOf(a) \cup X
    /\ Moved(a)' = IF s = "CREATED" THEN Moved(a) \ {o} ELSE Moved(a) \cup {o}
    /\ \A b : b # a => /\ RecordedFor(b)' = RecordedFor(b)
                       /\ PaymentsOf(b)' = PaymentsOf(b)
                       /\ Moved(b)' = Moved(b)

LEMMA RowNews ==
  ASSUME NEW o \in Orders, NEW r, r # None, Put(payment, o, r, payment'), NEW X,
         NEW a, r.auth = a, payment[o] # None => payment[o].auth = a,
         payment[o] = None => paymentEvents[o] = {},
         NEW Y, Y = paymentEvents[o] \cup X, Put(paymentEvents, o, Y, paymentEvents')
  PROVE  Gains(a, o, r.status, X)
<1>1. /\ payment'[o] = r /\ paymentEvents'[o] = paymentEvents[o] \cup X
      /\ \A q \in Orders : q # o => /\ payment'[q] = payment[q]
                                    /\ paymentEvents'[q] = paymentEvents[q]
  BY DEF Put
<1>2. \A b : /\ RecordedFor(b) = {q \in Orders : payment[q] # None /\ payment[q].auth = b}
             /\ RecordedFor(b)' = {q \in Orders : payment'[q] # None /\ payment'[q].auth = b}
  BY DEF RecordedFor, Recorded
<1>3. RecordedFor(a)' = RecordedFor(a) \cup {o}
  BY <1>1, <1>2
<1>4. ASSUME NEW b, b # a
      PROVE  RecordedFor(b)' = RecordedFor(b) /\ o \notin RecordedFor(b)
  BY <1>1, <1>2, <1>4
<1>5. \A b : RecordedFor(b) \subseteq Orders /\ RecordedFor(b)' \subseteq Orders
  BY <1>2
<1>6. Moved(a)' = IF r.status = "CREATED" THEN Moved(a) \ {o}
                                               ELSE Moved(a) \cup {o}
  BY <1>1, <1>3, <1>5 DEF Moved
<1>7. ASSUME NEW b, b # a
      PROVE  PaymentsOf(b)' = PaymentsOf(b) /\ Moved(b)' = Moved(b)
  BY <1>1, <1>4, <1>5, <1>7 DEF PaymentsOf, Moved
<1>8. PaymentsOf(a)' = PaymentsOf(a) \cup X
  <2>1. ASSUME NEW x
        PROVE  x \in PaymentsOf(a)' <=> x \in PaymentsOf(a) \cup X
    <3>1. x \in PaymentsOf(a) <=> \E q \in RecordedFor(a) : x \in paymentEvents[q]
      BY DEF PaymentsOf
    <3>2. x \in PaymentsOf(a)' <=>
            \E q \in RecordedFor(a) \cup {o} : x \in paymentEvents'[q]
      BY <1>3 DEF PaymentsOf
    <3>3. x \in paymentEvents[o] => o \in RecordedFor(a)
      BY <1>2
    <3>4. QED
      BY <1>1, <1>5, <3>1, <3>2, <3>3
  <2>2. QED
    BY <2>1
<1>9. QED
  BY <1>3, <1>4, <1>6, <1>7, <1>8 DEF Gains

-----------------------------------------------------------------------------
(* The steps that append *)

\* A rejected request: nothing to agree with.
LEMMA OtherEventAgrees ==
  ASSUME Agreed, NEW a \in Auths, Logged(a, "AGENT_REQUEST_REJECTED"),
         UNCHANGED <<revoked, announced, requests, payment, paymentEvents, seen>>
  PROVE  Agreed'
<1>1. \A b : /\ RecordedFor(b)' = RecordedFor(b) /\ Asked(b)' = Asked(b)
             /\ Revocations(b)' = Revocations(b) /\ PaymentsOf(b)' = PaymentsOf(b)
             /\ Moved(b)' = Moved(b) /\ Signatures(b)' = Signatures(b)
  BY DEF Signatures, Asked, Revocations, PaymentsOf, Moved, RecordedFor, Recorded
<1>2. Agrees(a) /\ AddsAll(evidence[a], evidence'[a], "AGENT_REQUEST_REJECTED")
  BY DEF Agreed, Logged
<1>3. Agrees(a)'
  BY <1>1, <1>2, MatchesOther DEF Agrees
<1>4. \A b \in Auths : b # a => Agrees(b)'
  BY <1>1, OtherAgrees DEF Logged
<1>5. QED
  BY <1>3, <1>4 DEF Agreed, EventsSeen

LEMMA RevokeAgreed ==
  ASSUME Inv, Agreed, NEW w \in Workers, Revoke(w)
  PROVE  Agreed'
<1>1. PICK a \in Auths :
        /\ a = job[w].auth /\ revoked' = revoked \cup {a}
        /\ UNCHANGED <<announced, requests, payment, paymentEvents, seen>>
  BY DEF Revoke, Inv, WellFormed, JobWellFormed
<1>2. CASE a \in revoked
  <2>1. UNCHANGED told
    BY <1>1, <1>2 DEF Revoke, told
  <2>2. QED
    BY <2>1, SameAgreed
<1>3. CASE a \notin revoked
  <2>1. Linked(a, "MANDATE_REVOKED", Len(evidence[a]))
    BY <1>1, <1>3 DEF Revoke
  <2>2. Len(evidence[a]) \in Nat /\ TypeOK
    BY <1>1 DEF Inv, TypeOK
  <2>3. Logged(a, "MANDATE_REVOKED")
    BY <1>1, <2>1, <2>2, LinkedLogged DEF EventTypes
  <2>4. \A b : /\ RecordedFor(b)' = RecordedFor(b) /\ Asked(b)' = Asked(b)
               /\ Signatures(b)' = Signatures(b)
               /\ PaymentsOf(b)' = PaymentsOf(b) /\ Moved(b)' = Moved(b)
    BY <1>1 DEF Signatures, Asked, PaymentsOf, Moved, RecordedFor, Recorded
  <2>5. /\ Revocations(a) = 0 /\ Revocations(a)' = 1
        /\ \A b : b # a => Revocations(b)' = Revocations(b)
    BY <1>1, <1>3 DEF Revocations
  <2>6. Agrees(a) /\ AddsAll(evidence[a], evidence'[a], "MANDATE_REVOKED")
    BY <1>1, <2>3 DEF Agreed, Logged
  <2>7. Agrees(a)'
    BY <2>4, <2>5, <2>6, MatchesRevoke DEF Agrees
  <2>8. \A b \in Auths : b # a => Agrees(b)'
    BY <2>3, <2>4, <2>5, OtherAgrees DEF Logged
  <2>9. QED
    BY <1>1, <2>7, <2>8 DEF Agreed, EventsSeen
<1>4. QED
  BY <1>2, <1>3

\* The row is new, and no event is stored for it yet.
LEMMA ExecuteAgreed ==
  ASSUME Inv, Backed, Agreed, NEW w \in Workers, ExecuteCommit(w)
  PROVE  Agreed'
<1>1. PICK o \in Orders, r \in Row, a \in Auths :
        /\ r.auth = a /\ r.status = "CREATED" /\ payment[o] = None
        /\ payment' = [payment EXCEPT ![o] = r]
        /\ Linked(a, "ORDER_CREATED", Len(evidence[a]))
  <2>1. job[w].order \in Orders /\ NewRow(job[w]) \in Row
        /\ payment' = [payment EXCEPT ![job[w].order] = NewRow(job[w])]
    BY NewRowType
  <2>2. job[w].auth \in Auths /\ NewRow(job[w]).auth = job[w].auth
        /\ NewRow(job[w]).status = "CREATED"
    BY DEF ExecuteCommit, Inv, WellFormed, JobWellFormed, NewRow
  <2>3. payment[job[w].order] = None /\ Linked(job[w].auth, "ORDER_CREATED", Len(evidence[job[w].auth]))
    BY DEF ExecuteCommit, Backed, NewOrder
  <2>4. QED
    BY <2>1, <2>2, <2>3
<1>2. UNCHANGED <<revoked, announced, requests, paymentEvents, seen>>
  BY DEF ExecuteCommit
<1>3. r # None /\ Put(payment, o, r, payment') /\ paymentEvents[o] = {}
  BY <1>1, NoneAssumption DEF Put, Inv, TypeOK, Backed, RowsBacked
<1>4. Put(paymentEvents, o, paymentEvents[o], paymentEvents')
  BY <1>2 DEF Put
<1>5. /\ RecordedFor(a)' = RecordedFor(a) \cup {o}
      /\ PaymentsOf(a)' = PaymentsOf(a) \cup {}
      /\ Moved(a)' = Moved(a) \ {o}
      /\ \A b : b # a => /\ RecordedFor(b)' = RecordedFor(b)
                         /\ PaymentsOf(b)' = PaymentsOf(b) /\ Moved(b)' = Moved(b)
  <2>1. Gains(a, o, "CREATED", {})
    <3>1. PICK X : X = {}
      OBVIOUS
    <3>2. Gains(a, o, r.status, X)
      BY <1>1, <1>3, <1>4, <3>1, RowNews
    <3>3. QED
      BY <1>1, <3>1, <3>2
  <2>2. QED
    BY <1>3, <2>1 DEF Gains
<1>6. o \notin RecordedFor(a) /\ Moved(a)' = Moved(a) /\ PaymentsOf(a)' = PaymentsOf(a)
  BY <1>1, <1>5 DEF RecordedFor, Recorded, Moved
<1>7. \A b : Asked(b)' = Asked(b) /\ Revocations(b)' = Revocations(b)
             /\ Signatures(b)' = Signatures(b)
  BY <1>2 DEF Signatures, Asked, Revocations
<1>8. Logged(a, "ORDER_CREATED")
  <2>1. Len(evidence[a]) \in Nat /\ TypeOK
    BY DEF Inv, TypeOK
  <2>2. QED
    BY <1>1, <2>1, LinkedLogged DEF EventTypes
<1>9. Agrees(a) /\ AddsAll(evidence[a], evidence'[a], "ORDER_CREATED")
  BY <1>8 DEF Agreed, Logged
<1>10. Agrees(a)'
  BY <1>5, <1>6, <1>7, <1>9, MatchesOrder DEF Agrees
<1>11. \A b \in Auths : b # a => Agrees(b)'
  BY <1>5, <1>7, <1>8, OtherAgrees DEF Logged
<1>12. QED
  BY <1>2, <1>10, <1>11 DEF Agreed, EventsSeen

\* The payment was not seen before, so its event is new.
LEMMA WebhookAgreed ==
  ASSUME Inv, Agreed, NEW w \in Workers, WebhookCommit(w)
  PROVE  Agreed'
<1> DEFINE mismatch == paid[job[w].pid].amount # None
                         /\ paid[job[w].pid].amount # payment[job[w].order].amount
<1>1. PICK o \in Orders, pid \in PaymentIds, type \in PaidTypes, s \in Statuses :
        /\ o = job[w].order /\ pid = job[w].pid /\ pid \notin seen
        /\ s # "CREATED" /\ payment[o] # None
        /\ payment' = [payment EXCEPT ![o].status = s]
        /\ paymentEvents' = [paymentEvents EXCEPT ![o] = paymentEvents[o] \cup {pid}]
        /\ seen' = seen \cup {pid}
        /\ Linked(payment[o].auth, type, Len(evidence[payment[o].auth]))
        /\ UNCHANGED <<revoked, announced, requests>>
  <2>1. /\ job[w].order \in Orders /\ job[w].pid \in PaymentIds /\ job[w].pid \notin seen
        /\ payment[job[w].order] # None
    BY DEF WebhookCommit, Inv, WellFormed, JobWellFormed, HasRow, ReadsStillTrue, WorkerReads
  <2>2. PICK type \in PaidTypes :
          type = IF mismatch THEN "PAYMENT_AMOUNT_MISMATCH" ELSE "PAYMENT_CAPTURED"
    BY DEF PaidTypes
  <2>3. PICK s \in Statuses \ {"CREATED"} :
          s = IF mismatch THEN "AMOUNT_MISMATCH" ELSE "CAPTURED"
    BY DEF Statuses
  <2>4. /\ payment' = [payment EXCEPT ![job[w].order].status = s]
        /\ Linked(payment[job[w].order].auth, type, Len(evidence[payment[job[w].order].auth]))
    BY <2>2, <2>3 DEF WebhookCommit
  <2>5. /\ paymentEvents' = [paymentEvents EXCEPT ![job[w].order] =
                               paymentEvents[job[w].order] \cup {job[w].pid}]
        /\ seen' = seen \cup {job[w].pid} /\ UNCHANGED <<revoked, announced, requests>>
    BY DEF WebhookCommit, Inv, TypeOK
  <2>6. QED
    BY <2>1, <2>2, <2>3, <2>4, <2>5
<1>2. payment[o] \in Row
  BY <1>1 DEF Inv, TypeOK
<1>3. PICK a \in Auths, r \in Row :
        /\ a = payment[o].auth /\ r = [payment[o] EXCEPT !.status = s]
        /\ r.auth = a /\ r.status = s
  <2>1. PICK r : r = [payment[o] EXCEPT !.status = s]
    OBVIOUS
  <2>2. r \in Row /\ r.auth = payment[o].auth /\ r.status = s /\ payment[o].auth \in Auths
    BY <1>2, <2>1 DEF Row
  <2>3. QED
    BY <2>1, <2>2
<1>4. r # None /\ Put(payment, o, r, payment')
  BY <1>1, <1>3, NoneAssumption DEF Put, Inv, TypeOK
<1>5. PICK Y : Y = paymentEvents[o] \cup {pid}
  OBVIOUS
<1>6. Put(paymentEvents, o, Y, paymentEvents')
  BY <1>1, <1>5 DEF Put, Inv, TypeOK
<1>7. /\ RecordedFor(a)' = RecordedFor(a) \cup {o}
      /\ PaymentsOf(a)' = PaymentsOf(a) \cup {pid}
      /\ Moved(a)' = Moved(a) \cup {o}
      /\ \A b : b # a => /\ RecordedFor(b)' = RecordedFor(b)
                         /\ PaymentsOf(b)' = PaymentsOf(b) /\ Moved(b)' = Moved(b)
  <2>1. Gains(a, o, s, {pid})
    <3>1. PICK X : X = {pid}
      OBVIOUS
    <3>2. Gains(a, o, r.status, X)
      BY <1>1, <1>3, <1>4, <1>5, <1>6, <3>1, RowNews
    <3>3. QED
      BY <1>3, <3>1, <3>2
  <2>2. QED
    BY <1>1, <2>1 DEF Gains
<1>8. RecordedFor(a)' = RecordedFor(a) /\ o \in RecordedFor(a)
  BY <1>1, <1>3, <1>7 DEF RecordedFor, Recorded
<1>9. pid \notin PaymentsOf(a) /\ Moved(a) \cup {o} \subseteq RecordedFor(a)
  BY <1>1, <1>8 DEF Agreed, EventsSeen, PaymentsOf, RecordedFor, Recorded, Moved
<1>10. \A b : Asked(b)' = Asked(b) /\ Revocations(b)' = Revocations(b)
             /\ Signatures(b)' = Signatures(b)
  BY <1>1 DEF Signatures, Asked, Revocations
<1>11. Logged(a, type)
  <2>1. Len(evidence[a]) \in Nat /\ TypeOK /\ type \in EventTypes
    BY DEF Inv, TypeOK, EventTypes, PaidTypes
  <2>2. QED
    BY <1>1, <1>3, <2>1, LinkedLogged
<1>12. Agrees(a) /\ AddsAll(evidence[a], evidence'[a], type)
  BY <1>11 DEF Agreed, Logged
<1>13. Agrees(a)'
  BY <1>7, <1>8, <1>9, <1>10, <1>12, MatchesPaid DEF Agrees
<1>14. \A b \in Auths : b # a => Agrees(b)'
  BY <1>7, <1>10, <1>11, OtherAgrees DEF Logged
<1>15. EventsSeen'
  BY <1>1, <1>5 DEF Agreed, EventsSeen, Put
<1>16. QED
  BY <1>13, <1>14, <1>15 DEF Agreed

\* The row is CREATED, as the sweep read under the lock: it was not marked before.
LEMMA SweepAgreed ==
  ASSUME Inv, Agreed, NEW o \in Orders, SweepCommit(o)
  PROVE  Agreed'
<1>1. payment[o] # None /\ payment[o].status = "CREATED"
  BY DEF SweepCommit, IsNext, Inv, ReadsStillTrue, SweepReads, Unconfirmed, Created, HasRow
<1>2. payment[o] \in Row
  BY <1>1 DEF Inv, TypeOK
<1>3. PICK a \in Auths, r \in Row :
        /\ a = payment[o].auth /\ r = [payment[o] EXCEPT !.status = "STALE"]
        /\ r.auth = a /\ r.status = "STALE"
  <2>1. PICK r : r = [payment[o] EXCEPT !.status = "STALE"]
    OBVIOUS
  <2>2. r \in Row /\ r.auth = payment[o].auth /\ r.status = "STALE" /\ payment[o].auth \in Auths
    BY <1>2, <2>1 DEF Row, Statuses
  <2>3. QED
    BY <2>1, <2>2
<1>4. /\ payment' = [payment EXCEPT ![o].status = "STALE"]
      /\ Linked(a, "PAYMENT_STALE", Len(evidence[a]))
      /\ UNCHANGED <<revoked, announced, requests, paymentEvents, seen>>
  BY <1>3 DEF SweepCommit
<1>5. r # None /\ Put(payment, o, r, payment')
  BY <1>3, <1>4, NoneAssumption DEF Put, Inv, TypeOK
<1>6. Put(paymentEvents, o, paymentEvents[o], paymentEvents')
  BY <1>4 DEF Put
<1>7. /\ RecordedFor(a)' = RecordedFor(a) \cup {o}
      /\ PaymentsOf(a)' = PaymentsOf(a) \cup {}
      /\ Moved(a)' = Moved(a) \cup {o}
      /\ \A b : b # a => /\ RecordedFor(b)' = RecordedFor(b)
                         /\ PaymentsOf(b)' = PaymentsOf(b) /\ Moved(b)' = Moved(b)
  <2>1. Gains(a, o, "STALE", {})
    <3>1. PICK X : X = {}
      OBVIOUS
    <3>2. Gains(a, o, r.status, X)
      BY <1>1, <1>3, <1>5, <1>6, <3>1, RowNews
    <3>3. QED
      BY <1>3, <3>1, <3>2
  <2>2. QED
    BY <1>3, <2>1 DEF Gains
<1>8. /\ RecordedFor(a)' = RecordedFor(a) /\ PaymentsOf(a)' = PaymentsOf(a)
      /\ o \in RecordedFor(a) /\ o \notin Moved(a)
  BY <1>1, <1>3, <1>7 DEF RecordedFor, Recorded, Moved
<1>9. \A b : Asked(b)' = Asked(b) /\ Revocations(b)' = Revocations(b)
             /\ Signatures(b)' = Signatures(b)
  BY <1>4 DEF Signatures, Asked, Revocations
<1>10. Logged(a, "PAYMENT_STALE")
  <2>1. Len(evidence[a]) \in Nat /\ TypeOK
    BY DEF Inv, TypeOK
  <2>2. QED
    BY <1>4, <2>1, LinkedLogged DEF EventTypes
<1>11. Agrees(a) /\ AddsAll(evidence[a], evidence'[a], "PAYMENT_STALE")
  BY <1>10 DEF Agreed, Logged
<1>12. Agrees(a)'
  BY <1>7, <1>8, <1>9, <1>11, MatchesStale DEF Agrees
<1>13. \A b \in Auths : b # a => Agrees(b)'
  BY <1>7, <1>9, <1>10, OtherAgrees DEF Logged
<1>14. QED
  BY <1>4, <1>12, <1>13 DEF Agreed, EventsSeen

\* The handler of an agent request knows, under the lock, whether the request is new.
LEMMA AgentAgreed ==
  ASSUME Inv, Agreed, NEW w \in Workers, AgentCommit(w)
  PROVE  Agreed'
<1>1. PICK a \in Auths, n \in Nonces, c \in Carts, type \in EventTypes :
        /\ type \in {"AGENT_REQUEST_RECEIVED", "REPLAY_ATTEMPT_BLOCKED"}
        /\ type = "AGENT_REQUEST_RECEIVED" <=> requests[a][n] = None
        /\ requests' = IF type = "AGENT_REQUEST_RECEIVED"
                         THEN [requests EXCEPT ![a][n] = c] ELSE requests
        /\ evidence' = [evidence EXCEPT ![a] =
                          Append(Append(evidence[a],
                                        [type |-> type, prev |-> Len(evidence[a])]),
                                 [type |-> "POLICY_EVALUATED",
                                  prev |-> Len(evidence[a]) + 1])]
  <2>1. /\ job[w].auth \in Auths /\ job[w].nonce \in Nonces /\ job[w].cart \in Carts
        /\ job[w].fresh \in BOOLEAN
    BY DEF AgentCommit, Inv, TypeOK, Job, WellFormed, JobWellFormed
  <2>2. job[w].fresh <=> requests[job[w].auth][job[w].nonce] = None
    BY DEF AgentCommit, Inv, ReadsStillTrue, WorkerReads
  <2>3. PICK type \in EventTypes :
          type = IF job[w].fresh THEN "AGENT_REQUEST_RECEIVED" ELSE "REPLAY_ATTEMPT_BLOCKED"
    BY DEF EventTypes
  <2>4. type = "AGENT_REQUEST_RECEIVED" <=> job[w].fresh
    BY <2>3
  <2>5. requests' = IF type = "AGENT_REQUEST_RECEIVED"
                      THEN [requests EXCEPT ![job[w].auth][job[w].nonce] = job[w].cart]
                      ELSE requests
    BY <2>4 DEF AgentCommit
  <2>6. evidence' = [evidence EXCEPT ![job[w].auth] =
                       Append(Append(evidence[job[w].auth],
                                     [type |-> type, prev |-> Len(evidence[job[w].auth])]),
                              [type |-> "POLICY_EVALUATED",
                               prev |-> Len(evidence[job[w].auth]) + 1])]
    BY <2>3 DEF AgentCommit
  <2>7. QED
    BY <2>1, <2>2, <2>3, <2>4, <2>5, <2>6
<1>2. UNCHANGED <<revoked, announced, payment, paymentEvents, seen>>
  BY DEF AgentCommit
<1>3. evidence[a] \in Seq(Event) /\ Len(evidence[a]) \in Nat /\ None \notin Carts
  BY NoneAssumption DEF Inv, TypeOK
<1>4. PICK d, e : /\ d = [type |-> type, prev |-> Len(evidence[a])]
                  /\ e = [type |-> "POLICY_EVALUATED", prev |-> Len(evidence[a]) + 1]
  OBVIOUS
<1>5. d \in Event /\ d.type = type /\ e \in Event /\ e.type = "POLICY_EVALUATED"
  BY <1>3, <1>4 DEF Event, EventTypes
<1>6. PICK t : t = Append(evidence[a], d)
  OBVIOUS
<1>7. AddsAll(evidence[a], t, type) /\ AddsAll(t, evidence'[a], "POLICY_EVALUATED")
  <2>1. evidence'[a] = Append(t, e) /\ t \in Seq(Event)
    BY <1>1, <1>3, <1>5, <1>6, <1>4 DEF Inv, TypeOK
  <2>2. QED
    BY <1>3, <1>5, <1>6, <2>1, AppendAdds
<1>8. \A b \in Auths : b # a => evidence'[b] = evidence[b]
  BY <1>1 DEF Inv, TypeOK
<1>9. \A b : /\ RecordedFor(b)' = RecordedFor(b) /\ Revocations(b)' = Revocations(b)
             /\ Signatures(b)' = Signatures(b)
             /\ PaymentsOf(b)' = PaymentsOf(b) /\ Moved(b)' = Moved(b)
  BY <1>2 DEF Signatures, Revocations, PaymentsOf, Moved, RecordedFor, Recorded
<1>10. \A b \in Auths : b # a => Asked(b)' = Asked(b)
  BY <1>1 DEF Asked, Inv, TypeOK
<1>11. Agrees(a)
  BY DEF Agreed
<1>12. Agrees(a)'
  <2>1. CASE type = "AGENT_REQUEST_RECEIVED"
    <3>1. Asked(a)' = Asked(a) \cup {n} /\ n \notin Asked(a)
      <4>1. \A m \in Nonces : requests'[a][m] = IF m = n THEN c ELSE requests[a][m]
        BY <1>1, <2>1 DEF Inv, TypeOK
      <4>2. requests[a][n] = None /\ c # None
        BY <1>1, <1>3, <2>1
      <4>3. QED
        BY <4>1, <4>2 DEF Asked
    <3>2. QED
      BY <1>7, <1>9, <1>11, <2>1, <3>1, MatchesRequest DEF Agrees
  <2>2. CASE type # "AGENT_REQUEST_RECEIVED"
    <3>1. Asked(a)' = Asked(a) /\ type = "REPLAY_ATTEMPT_BLOCKED"
      BY <1>1, <2>2 DEF Asked
    <3>2. QED
      BY <1>7, <1>9, <1>11, <3>1, MatchesReplay DEF Agrees
  <2>3. QED
    BY <2>1, <2>2
<1>13. \A b \in Auths : b # a => Agrees(b)'
  BY <1>8, <1>9, <1>10, OtherAgrees
<1>14. QED
  BY <1>2, <1>12, <1>13 DEF Agreed, EventsSeen

LEMMA RejectAgreed ==
  ASSUME Inv, Agreed, NEW w \in Workers, AgentReject(w)
  PROVE  Agreed'
<1>1. UNCHANGED <<revoked, announced, requests, payment, paymentEvents, seen>>
  BY DEF AgentReject
<1>2. job[w].auth \in Auths /\ TypeOK
  BY DEF AgentReject, Inv, WellFormed, JobWellFormed
<1>3. Len(evidence[job[w].auth]) \in Nat
  BY <1>2 DEF TypeOK
<1>4. Logged(job[w].auth, "AGENT_REQUEST_REJECTED")
  BY <1>2, <1>3, LinkedLogged DEF AgentReject, EventTypes
<1>5. QED
  BY <1>1, <1>2, <1>4, OtherEventAgrees

\* The id is announced with the one MANDATE_SIGNED event of its log.
LEMMA ConfirmAgreed ==
  ASSUME Inv, Signing, Agreed, NEW w \in Workers, ConfirmAppend(w)
  PROVE  Agreed'
<1>1. PICK a \in Auths :
        /\ a = job[w].auth /\ a \notin announced /\ announced' = announced \cup {a}
        /\ UNCHANGED <<revoked, requests, payment, paymentEvents, seen>>
  BY DEF ConfirmAppend, Signing, Confirming, Inv, WellFormed, JobWellFormed
<1>2. TypeOK /\ job[w].tail \in Nat
  BY DEF Inv, TypeOK, Job
<1>3. Logged(a, "MANDATE_SIGNED")
  BY <1>1, <1>2, LinkedLogged DEF ConfirmAppend, EventTypes
<1>4. \A b : /\ RecordedFor(b)' = RecordedFor(b) /\ Asked(b)' = Asked(b)
             /\ Revocations(b)' = Revocations(b) /\ PaymentsOf(b)' = PaymentsOf(b)
             /\ Moved(b)' = Moved(b)
  BY <1>1 DEF Asked, Revocations, PaymentsOf, Moved, RecordedFor, Recorded
<1>5. /\ Signatures(a) = 0 /\ Signatures(a)' = 1
      /\ \A b : b # a => Signatures(b)' = Signatures(b)
  BY <1>1 DEF Signatures
<1>6. Agrees(a) /\ AddsAll(evidence[a], evidence'[a], "MANDATE_SIGNED")
  BY <1>3 DEF Agreed, Logged
<1>7. Agrees(a)'
  BY <1>4, <1>5, <1>6, MatchesSigned DEF Agrees
<1>8. \A b \in Auths : b # a => Agrees(b)'
  BY <1>3, <1>4, <1>5, OtherAgrees DEF Logged
<1>9. QED
  BY <1>1, <1>7, <1>8 DEF Agreed, EventsSeen

LEMMA AgreedStep ==
  ASSUME Inv, Backed, Signing, Agreed, [Next]_vars
  PROVE  Agreed'
<1>1. CASE ClientStep \/ ProviderStep \/ TimeStep \/ Crash \/ Quiet \/ UNCHANGED vars
  <2>1. UNCHANGED told
    BY <1>1
    DEF ClientStep, SubmitConfirm, SubmitAgent, SubmitRevoke, SubmitExecute, Submit,
        ProviderStep, WebhookReceive, CustomerPays, TimeStep, Expire, PassTimeout, Crash,
        Quiet, vars, told
  <2>2. QED
    BY <2>1, SameAgreed
<1>2. CASE SweepStep
  <2>1. UNCHANGED told \/ \E o \in Orders : SweepCommit(o)
    BY <1>2 DEF SweepStep, SweepSelect, SweepSkip, SweepBegin, SweepAbort, told
  <2>2. QED
    BY <2>1, SameAgreed, SweepAgreed
<1>3. ASSUME NEW w \in Workers, HandlerStep(w) \/ Fail(w) \/ CloseSession(w)
      PROVE  Agreed'
  <2>1. \/ UNCHANGED told
        \/ ConfirmAppend(w) \/ AgentReject(w) \/ AgentCommit(w) \/ Revoke(w)
        \/ ExecuteCommit(w) \/ WebhookCommit(w)
    BY <1>3
    DEF HandlerStep, ConfirmStep, ConfirmInsert, ConfirmTail, AgentStep, AgentEvaluate,
        ExecuteStep, ExecuteReturnEarly, ExecuteBegin, CreateOrder, WebhookStep,
        WebhookDuplicate, WebhookBegin, UnknownAuthorization, LockTimeout, Fail,
        CloseSession, told
  <2>2. QED
    BY <2>1, SameAgreed, ConfirmAgreed, RejectAgreed, AgentAgreed, RevokeAgreed,
       ExecuteAgreed, WebhookAgreed
<1>4. QED
  BY <1>1, <1>2, <1>3 DEF Next

LEMMA InitAgreed == Init => Agreed
<1> SUFFICES ASSUME Init
             PROVE  Agreed
  OBVIOUS
<1>1. ASSUME NEW a \in Auths
      PROVE  /\ evidence[a] = <<>> /\ RecordedFor(a) = {} /\ Asked(a) = {}
             /\ Signatures(a) = 0 /\ Revocations(a) = 0 /\ PaymentsOf(a) = {}
             /\ Moved(a) = {}
  BY DEF Init, RecordedFor, Recorded, Signatures, Asked, Revocations, PaymentsOf, Moved
<1>2. \A types : Count(<<>>, types) = 0
  <2>1. \A types : {i \in 1..Len(<<>>) : (<<>>)[i].type \in types} = {}
    OBVIOUS
  <2>2. QED
    BY <2>1, FS_EmptySet DEF Count
<1>3. Matches(<<>>, 0, {}, {}, 0, {}, {})
  BY <1>2, FS_EmptySet DEF Matches
<1>4. QED
  BY <1>1, <1>3 DEF Agreed, Agrees, EventsSeen, Init

\* In every state each log agrees with the rows of its mandate.
THEOREM AgreedInvariance == Spec => []Agreed
<1>1. Inv /\ (Backed /\ SettledByEvents) /\ Signing /\ Agreed /\ [Next]_vars => Agreed'
  BY AgreedStep
<1>2. QED
  BY <1>1, InitAgreed, Invariance, SettlementInvariance, SigningInvariance, PTL DEF Spec

\* State and evidence agree in every state: orders, requests, decisions,
\* revocations and payment events are each logged exactly once, although handlers
\* interleave, crash and are retried, and no order is marked stale twice.
THEOREM EvidenceAgrees == Spec => []EvidenceMatchesState
<1>1. ASSUME Agreed
      PROVE  EvidenceMatchesState
  <2>1. ASSUME NEW a \in Auths
        PROVE  /\ Agrees(a) /\ Revocations(a) = IF a \in revoked THEN 1 ELSE 0
               /\ Cardinality(Moved(a)) <= Cardinality(RecordedFor(a))
               /\ Cardinality(Moved(a)) \in Nat /\ Cardinality(RecordedFor(a)) \in Nat
    <3>1. Agrees(a) /\ Moved(a) \subseteq RecordedFor(a) /\ IsFiniteSet(RecordedFor(a))
      BY <1>1 DEF Agreed, Agrees, Matches
    <3>2. /\ Cardinality(Moved(a)) <= Cardinality(RecordedFor(a))
          /\ Cardinality(Moved(a)) \in Nat /\ Cardinality(RecordedFor(a)) \in Nat
      BY <3>1, Finer
    <3>3. QED
      BY <3>1, <3>2 DEF Revocations
  <2>2. ASSUME NEW a \in Auths
        PROVE  /\ Count(evidence[a], {"MANDATE_SIGNED"}) = IF a \in announced THEN 1 ELSE 0
               /\ Count(evidence[a], {"ORDER_CREATED"}) = Cardinality(RecordedFor(a))
               /\ Count(evidence[a], {"AGENT_REQUEST_RECEIVED"}) = Cardinality(Asked(a))
               /\ Count(evidence[a], {"POLICY_EVALUATED"})
                    = Count(evidence[a], {"AGENT_REQUEST_RECEIVED",
                                          "REPLAY_ATTEMPT_BLOCKED"})
               /\ Count(evidence[a], {"MANDATE_REVOKED"}) = IF a \in revoked THEN 1 ELSE 0
               /\ Count(evidence[a], {"PAYMENT_CAPTURED", "PAYMENT_AMOUNT_MISMATCH"})
                    = Cardinality(PaymentsOf(a))
               /\ Count(evidence[a], {"PAYMENT_STALE"}) <= Cardinality(RecordedFor(a))
    BY <2>1 DEF Agrees, Matches, PaidTypes, Signatures
  <2>3. ASSUME NEW a \in Auths, NEW types
        PROVE  Count(evidence[a], types) = Cardinality(Events(a, types))
    BY DEF Events, Count
  <2>4. ASSUME NEW a \in Auths
        PROVE  /\ Cardinality(Events(a, {"MANDATE_SIGNED"}))
                    = IF a \in announced THEN 1 ELSE 0
               /\ Cardinality(Events(a, {"ORDER_CREATED"})) = Cardinality(RecordedFor(a))
               /\ Cardinality(Events(a, {"AGENT_REQUEST_RECEIVED"}))
                    = Cardinality({n \in Nonces : requests[a][n] # None})
               /\ Cardinality(Events(a, {"POLICY_EVALUATED"}))
                    = Cardinality(Events(a, {"AGENT_REQUEST_RECEIVED",
                                             "REPLAY_ATTEMPT_BLOCKED"}))
               /\ Cardinality(Events(a, {"MANDATE_REVOKED"}))
                    = IF a \in revoked THEN 1 ELSE 0
               /\ Cardinality(Events(a, {"PAYMENT_CAPTURED", "PAYMENT_AMOUNT_MISMATCH"}))
                    = Cardinality(UNION {paymentEvents[o] : o \in RecordedFor(a)})
               /\ Cardinality(Events(a, {"PAYMENT_STALE"})) <= Cardinality(RecordedFor(a))
    BY <2>2, <2>3 DEF Asked, PaymentsOf
  <2>5. QED
    BY <2>4 DEF EvidenceMatchesState
<1>2. QED
  BY <1>1, AgreedInvariance, PTL

\* A signature that was not logged is one whose /confirm was never answered: whoever was
\* told the id of a mandate finds its MANDATE_SIGNED event in the log.
THEOREM AnsweredIsLogged ==
  Spec => [](\A a \in announced : Events(a, {"MANDATE_SIGNED"}) # {})
<1> DEFINE P == \A a \in announced : Events(a, {"MANDATE_SIGNED"}) # {}
<1>1. ASSUME TypeOK, EvidenceMatchesState
      PROVE  P
  <2> SUFFICES ASSUME NEW a \in announced, Events(a, {"MANDATE_SIGNED"}) = {}
               PROVE  FALSE
    OBVIOUS
  <2>1. a \in Auths
    BY <1>1 DEF TypeOK
  <2>2. Cardinality(Events(a, {"MANDATE_SIGNED"})) = 1
    BY <1>1, <2>1 DEF EvidenceMatchesState
  <2>3. QED
    BY <2>2, FS_EmptySet
<1>2. TypeOK /\ EvidenceMatchesState => P
  BY <1>1
<1> HIDE DEF P
<1>3. Spec => []P
  BY <1>2, TypeCorrect, EvidenceAgrees, PTL
<1>4. QED
  BY <1>3 DEF P
=============================================================================

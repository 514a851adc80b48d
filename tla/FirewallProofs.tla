--------------------------- MODULE FirewallProofs ---------------------------
(***************************************************************************)
(* Theorems about Firewall, for every number of mandates, requests,        *)
(* workers, payments and faults.                                           *)
(***************************************************************************)
EXTENDS Firewall, TLAPS

USE DEF Procs, dbVars, mandateVars, requestVars, settleVars, providerVars, timeVars,
        external, bounds

(***************************************************************************)
(* The inductive invariant.  The program counter of a handler tells which  *)
(* request it serves and which locals it has set; with the lock            *)
(* discipline, what it read under the lock is still true at the commit.    *)
(***************************************************************************)
JobWellFormed(w) ==
    LET j == job[w] IN
    /\ pc[w] \in {"insert", "tail", "append"} => j.op = "confirm"
    /\ pc[w] = "commit" => j.op \in {"agent", "webhook"}
    /\ pc[w] \in {"provider", "record"} => j.op = "execute" /\ j.cart \in Carts
    /\ pc[w] = "record" => j.order \in 1..Len(orders)
    /\ j.op \in {"confirm", "agent", "revoke", "execute"} => j.auth \in Auths
    /\ j.op \in {"agent", "execute"} => j.nonce \in Nonces
    /\ j.op = "agent" => j.cart \in Carts
    /\ j.op = "agent" /\ pc[w] = "commit" => j.verdict \in Verdicts
    /\ j.op = "webhook" => /\ j.pid \in PaymentIds
                           /\ paid[j.pid] # None
                           /\ j.order = paid[j.pid].order
                           /\ HasRow(j.order)

WellFormed ==
    /\ \A w \in Workers : JobWellFormed(w)
    /\ pc[Sweeper] \in {"idle", "lock", "commit"}
    /\ \A o \in batch : HasRow(o)
    /\ \A a \in Auths, n \in Nonces :
         /\ latest[a][n] \in 0..Len(decisions[a][n])
         /\ decisions[a][n] # <<>> => latest[a][n] # 0 /\ requests[a][n] \in Carts

Inv == TypeOK /\ WellFormed /\ LockDiscipline /\ ReadsStillTrue

-----------------------------------------------------------------------------
(* Records and typing *)

LEMMA NoJobType == NoJob \in Job
  BY DEF NoJob, Job

LEMMA InitTypeOK == Init => TypeOK
  BY ConstantsAssumption, NoneAssumption, NoJobType
  DEF Init, TypeOK, PCs, Orders

LEMMA SubmitType ==
  ASSUME TypeOK, NEW w \in Workers, NEW j \in Job, NEW l \in PCs, Submit(w, j, l)
  PROVE  TypeOK'
  BY DEF Submit, Goto, TypeOK

LEMMA ClientType == TypeOK /\ ClientStep => TypeOK'
<1>1. SUFFICES ASSUME TypeOK,
                      NEW w \in Workers, NEW a \in Auths,
                      \/ SubmitConfirm(w, a)
                      \/ SubmitRevoke(w, a)
                      \/ \E n \in Nonces : \/ SubmitExecute(w, a, n)
                                           \/ \E c \in Carts : SubmitAgent(w, a, n, c)
               PROVE  TypeOK'
  BY DEF ClientStep
<1>2. "insert" \in PCs /\ "lock" \in PCs
  BY DEF PCs
<1>3. CASE SubmitConfirm(w, a)
  <2>1. [NoJob EXCEPT !.op = "confirm", !.auth = a] \in Job
    BY DEF NoJob, Job
  <2>2. QED
    BY <1>1, <1>2, <1>3, <2>1, SubmitType DEF SubmitConfirm
<1>4. CASE SubmitRevoke(w, a)
  <2>1. [NoJob EXCEPT !.op = "revoke", !.auth = a] \in Job
    BY DEF NoJob, Job
  <2>2. QED
    BY <1>1, <1>2, <1>4, <2>1, SubmitType DEF SubmitRevoke
<1>5. ASSUME NEW n \in Nonces, SubmitExecute(w, a, n)
      PROVE  TypeOK'
  <2>1. [NoJob EXCEPT !.op = "execute", !.auth = a, !.nonce = n] \in Job
    BY DEF NoJob, Job
  <2>2. QED
    BY <1>1, <1>2, <1>5, <2>1, SubmitType DEF SubmitExecute
<1>6. ASSUME NEW n \in Nonces, NEW c \in Carts, SubmitAgent(w, a, n, c)
      PROVE  TypeOK'
  <2>1. [NoJob EXCEPT !.op = "agent", !.auth = a, !.nonce = n, !.cart = c] \in Job
    BY DEF NoJob, Job
  <2>2. QED
    BY <1>1, <1>2, <1>6, <2>1, SubmitType DEF SubmitAgent
<1>7. QED
  BY <1>1, <1>3, <1>4, <1>5, <1>6

\* A handler that returns leaves pc and job well typed, one that gives up too.
LEMMA ReturnType ==
  ASSUME TypeOK, NEW w \in Workers, Return(w) \/ Abandon(w)
  PROVE  pc' \in [Procs -> PCs] /\ job' \in [Procs -> Job]
<1>1. pc \in [Procs -> PCs] /\ job \in [Procs -> Job]
  BY DEF TypeOK
<1>2. \E l \in {"idle", "closing"} : pc' = [pc EXCEPT ![w] = l]
  BY DEF Return, Abandon, Goto
<1>3. job' = [job EXCEPT ![w] = NoJob]
  BY DEF Return, Abandon
<1>4. pc' \in [Procs -> PCs]
  BY <1>1, <1>2 DEF PCs
<1>5. job' \in [Procs -> Job]
  BY <1>1, <1>3, NoJobType
<1>6. QED
  BY <1>4, <1>5

LEMMA LinkedType ==
  ASSUME TypeOK, NEW a \in Auths, NEW type \in EventTypes, NEW tail \in Nat,
         Linked(a, type, tail)
  PROVE  evidence' \in [Auths -> Seq(Event)]
<1>1. [type |-> type, prev |-> tail] \in Event
  BY DEF Event
<1>2. QED
  BY <1>1 DEF Linked, TypeOK

LEMMA EvidenceLength ==
  ASSUME TypeOK, NEW a \in Auths
  PROVE  Len(evidence[a]) \in Nat
  BY DEF TypeOK

LEMMA ConfirmType ==
  ASSUME Inv, NEW w \in Workers, ConfirmStep(w)
  PROVE  TypeOK'
<1>1. TypeOK
  BY DEF Inv
<1>2. job[w].auth \in Auths
  BY DEF Inv, WellFormed, JobWellFormed, ConfirmStep, ConfirmInsert, ConfirmTail,
         ConfirmAppend
<1>3. CASE ConfirmInsert(w)
  <2>1. CASE job[w].auth \in signed
    BY <1>1, <1>3, <2>1, ReturnType DEF ConfirmInsert, TypeOK
  <2>2. CASE job[w].auth \notin signed
    <3>1. signed' \subseteq Auths
      BY <1>1, <1>2, <1>3, <2>2 DEF ConfirmInsert, TypeOK
    <3>2. used' \in [Auths -> Nat]
      <4>1. used' = [used EXCEPT ![job[w].auth] = 0]
        BY <1>3, <2>2 DEF ConfirmInsert
      <4>2. QED
        BY <1>1, <4>1 DEF TypeOK
    <3>3. pc' \in [Procs -> PCs]
      BY <1>1, <1>3, <2>2 DEF ConfirmInsert, Goto, TypeOK, PCs
    <3>4. QED
      BY <1>1, <1>3, <2>2, <3>1, <3>2, <3>3 DEF ConfirmInsert, TypeOK
  <2>3. QED
    BY <2>1, <2>2
<1>4. CASE ConfirmTail(w)
  <2> DEFINE t == Len(evidence[job[w].auth])
  <2>1. t \in Nat /\ job[w] \in Job
    BY <1>1, <1>2, EvidenceLength DEF TypeOK
  <2>2. job' = [job EXCEPT ![w] = [job[w] EXCEPT !.tail = t]]
    BY <1>1, <1>4 DEF ConfirmTail, TypeOK
  <2> HIDE DEF t
  <2>3. [job[w] EXCEPT !.tail = t] \in Job
    BY <2>1 DEF Job
  <2>4. job' \in [Procs -> Job]
    BY <1>1, <2>2, <2>3 DEF TypeOK
  <2>5. pc' \in [Procs -> PCs]
    BY <1>1, <1>4 DEF ConfirmTail, Goto, TypeOK, PCs
  <2>6. QED
    BY <1>1, <1>4, <2>4, <2>5 DEF ConfirmTail, TypeOK
<1>5. CASE ConfirmAppend(w)
  <2>1. job[w].tail \in Nat
    BY <1>1 DEF TypeOK, Job
  <2>2. evidence' \in [Auths -> Seq(Event)]
    BY <1>1, <1>2, <1>5, <2>1, LinkedType DEF ConfirmAppend, EventTypes
  <2>3. announced' \subseteq Auths
    BY <1>1, <1>2, <1>5 DEF ConfirmAppend, TypeOK
  <2>4. pc' \in [Procs -> PCs] /\ job' \in [Procs -> Job]
    BY <1>1, <1>5, ReturnType DEF ConfirmAppend
  <2>5. QED
    BY <1>1, <1>5, <2>2, <2>3, <2>4 DEF ConfirmAppend, TypeOK
<1>6. QED
  BY <1>3, <1>4, <1>5 DEF ConfirmStep

LEMMA EvaluateType ==
  ASSUME NEW a, NEW n, NEW c \in Carts
  PROVE  Evaluate(a, n, c) \in Verdicts
  BY ConstantsAssumption DEF Evaluate, Verdicts

\* The clock moves the latest decision of one request.
LEMMA DatedMoves ==
  ASSUME TypeOK, NEW a \in Auths, NEW n \in Nonces, Dated(a, n)
  PROVE  \E i \in Nat : latest' = [latest EXCEPT ![a][n] = i]
<1>1. decisions[a][n] \in Seq(Verdicts) /\ latest[a][n] \in Nat
  BY DEF TypeOK
<1>2. Len(decisions[a][n]) + 1 \in Nat
  BY <1>1
<1>3. PICK i \in {latest[a][n], Len(decisions[a][n]) + 1} :
        latest' = [latest EXCEPT ![a][n] = i]
  BY DEF Dated
<1>4. i \in Nat
  BY <1>1, <1>2
<1>5. QED
  BY <1>3, <1>4

LEMMA AgentType ==
  ASSUME Inv, NEW w \in Workers, AgentStep(w)
  PROVE  TypeOK'
<1>1. TypeOK
  BY DEF Inv
<1>2. job[w].auth \in Auths /\ job[w].nonce \in Nonces /\ job[w].cart \in Carts
  BY DEF Inv, WellFormed, JobWellFormed, AgentStep, AgentReject, AgentEvaluate,
         AgentCommit
<1>3. Len(evidence[job[w].auth]) \in Nat
  BY <1>1, <1>2, EvidenceLength
<1>4. CASE AgentReject(w)
  <2>1. evidence' \in [Auths -> Seq(Event)]
    BY <1>1, <1>2, <1>3, <1>4, LinkedType DEF AgentReject, EventTypes
  <2>2. pc' \in [Procs -> PCs] /\ job' \in [Procs -> Job]
    BY <1>1, <1>4, ReturnType DEF AgentReject
  <2>3. QED
    BY <1>1, <1>4, <2>1, <2>2 DEF AgentReject, TypeOK
<1>5. CASE AgentEvaluate(w)
  <2> DEFINE a == job[w].auth
             n == job[w].nonce
             v == Evaluate(a, n, job[w].cart)
             f == (requests[a][n] = None)
             u == used[a]
  <2>1. v \in Verdicts /\ f \in BOOLEAN /\ u \in Nat
    BY <1>1, <1>2, EvaluateType DEF TypeOK
  <2>2. job[w] \in Job
    BY <1>1 DEF TypeOK
  <2>3. job' = [job EXCEPT ![w] = [job[w] EXCEPT !.verdict = v, !.fresh = f, !.used = u]]
    BY <1>1, <1>5 DEF AgentEvaluate, TypeOK
  <2> HIDE DEF v, f, u
  <2>4. [job[w] EXCEPT !.verdict = v, !.fresh = f, !.used = u] \in Job
    BY <2>1, <2>2 DEF Job
  <2>5. job' \in [Procs -> Job]
    BY <1>1, <2>3, <2>4 DEF TypeOK
  <2>6. pc' \in [Procs -> PCs] /\ lock' \in Procs \cup {None}
    BY <1>1, <1>5 DEF AgentEvaluate, Acquire, Goto, TypeOK, PCs
  <2>7. QED
    BY <1>1, <1>5, <2>5, <2>6 DEF AgentEvaluate, TypeOK
<1>6. CASE AgentCommit(w)
  <2> DEFINE j == job[w]
             received == IF j.fresh THEN "AGENT_REQUEST_RECEIVED"
                                    ELSE "REPLAY_ATTEMPT_BLOCKED"
             first == [type |-> received, prev |-> Len(evidence[j.auth])]
             second == [type |-> "POLICY_EVALUATED", prev |-> Len(evidence[j.auth]) + 1]
  <2>1. requests' \in [Auths -> [Nonces -> Carts \cup {None}]]
    BY <1>1, <1>2, <1>6 DEF AgentCommit, TypeOK
  <2>2. j.verdict \in Verdicts
    BY <1>6 DEF AgentCommit, Inv, WellFormed, JobWellFormed
  <2>3. decisions' \in [Auths -> [Nonces -> Seq(Verdicts)]]
    <3>1. Append(decisions[j.auth][j.nonce], j.verdict) \in Seq(Verdicts)
      BY <1>1, <1>2, <2>2 DEF TypeOK
    <3>2. QED
      BY <1>1, <1>2, <1>6, <3>1 DEF AgentCommit, TypeOK
  <2>10. latest' \in [Auths -> [Nonces -> Nat]]
    <3>1. latest \in [Auths -> [Nonces -> Nat]]
      BY <1>1 DEF TypeOK
    <3>2. Dated(j.auth, j.nonce)
      BY <1>6 DEF AgentCommit
    <3>3. PICK i \in Nat : latest' = [latest EXCEPT ![j.auth][j.nonce] = i]
      BY <1>1, <1>2, <3>2, DatedMoves
    <3>4. QED
      BY <3>1, <3>3
  <2>4. used' \in [Auths -> Nat]
    <3>1. used' = IF j.verdict = "ALLOW" THEN [used EXCEPT ![j.auth] = j.used + 1] ELSE used
      BY <1>6 DEF AgentCommit
    <3>2. j.used + 1 \in Nat
      BY <1>1 DEF TypeOK, Job
    <3>3. QED
      BY <1>1, <3>1, <3>2 DEF TypeOK
  <2>5. first \in Event /\ second \in Event
    BY <1>3 DEF Event, EventTypes
  <2>6. Append(Append(evidence[j.auth], first), second) \in Seq(Event)
    BY <1>1, <1>2, <2>5 DEF TypeOK
  <2>7. evidence' \in [Auths -> Seq(Event)]
    BY <1>1, <1>2, <1>6, <2>6 DEF AgentCommit, TypeOK
  <2>8. pc' \in [Procs -> PCs] /\ job' \in [Procs -> Job] /\ lock' \in Procs \cup {None}
    BY <1>1, <1>6, ReturnType DEF AgentCommit
  <2>9. QED
    BY <1>1, <1>6, <2>1, <2>3, <2>4, <2>7, <2>8, <2>10 DEF AgentCommit, TypeOK
<1>7. QED
  BY <1>4, <1>5, <1>6 DEF AgentStep

\* A row that exists is a record, and stays one when its status changes.
LEMMA RowType ==
  ASSUME TypeOK, NEW o, HasRow(o)
  PROVE  /\ o \in Orders /\ payment[o] \in Row
         /\ payment[o].auth \in Auths /\ payment[o].nonce \in Nonces
         /\ \A s \in Statuses : [payment[o] EXCEPT !.status = s] \in Row
<1>1. o \in Orders /\ payment[o] # None
  BY DEF HasRow
<1>2. payment[o] \in Row \cup {None}
  <2>1. payment \in [Orders -> Row \cup {None}]
    BY DEF TypeOK
  <2>2. QED
    BY <1>1, <2>1
<1>3. payment[o] \in Row
  BY <1>1, <1>2
<1>4. ASSUME NEW r \in Row, NEW s \in Statuses
      PROVE  /\ r.auth \in Auths /\ r.nonce \in Nonces
             /\ [r EXCEPT !.status = s] \in Row
  BY DEF Row
<1>5. Statuses # {}
  BY DEF Statuses
<1>6. QED
  BY <1>1, <1>3, <1>4, <1>5

LEMMA StatusType ==
  ASSUME TypeOK, NEW o, HasRow(o), NEW s \in Statuses,
         payment' = [payment EXCEPT ![o].status = s]
  PROVE  payment' \in [Orders -> Row \cup {None}]
<1>1. payment' = [payment EXCEPT ![o] = [payment[o] EXCEPT !.status = s]]
  BY DEF TypeOK
<1>2. QED
  BY <1>1, RowType DEF TypeOK

\* The row of a new order.
NewRow(j) == [auth |-> j.auth, nonce |-> j.nonce, dec |-> j.dec,
              amount |-> orders[j.order].amount, status |-> "CREATED"]

LEMMA NewRowType ==
  ASSUME Inv, NEW w \in Workers, ExecuteCommit(w)
  PROVE  /\ job[w].order \in Orders
         /\ NewRow(job[w]) \in Row
         /\ payment' = [payment EXCEPT ![job[w].order] = NewRow(job[w])]
<1> DEFINE j == job[w]
<1>1. orders \in Seq(Order) /\ j.order \in 1..Len(orders) /\ Len(orders) <= MaxOrders
  BY DEF ExecuteCommit, Inv, TypeOK, WellFormed, JobWellFormed
<1>2. orders[j.order] \in Order
  BY <1>1
<1>3. j.auth \in Auths /\ j.nonce \in Nonces /\ j.dec \in Nat
  BY DEF ExecuteCommit, Inv, TypeOK, WellFormed, JobWellFormed, Job
<1>4. NewRow(j) \in Row
  BY <1>2, <1>3 DEF NewRow, Row, Order, Statuses
<1>5. j.order \in Orders
  BY <1>1, ConstantsAssumption DEF Orders
<1>6. QED
  BY <1>4, <1>5 DEF ExecuteCommit, NewRow

LEMMA ExecuteType ==
  ASSUME Inv, NEW w \in Workers, ExecuteStep(w)
  PROVE  TypeOK'
<1>1. TypeOK
  BY DEF Inv
<1>2. job[w].auth \in Auths /\ job[w].nonce \in Nonces /\ job[w] \in Job
  BY <1>1 DEF Inv, TypeOK, WellFormed, JobWellFormed, ExecuteStep, ExecuteReturnEarly,
         ExecuteBegin, CreateOrder, ExecuteCommit
<1>3. CASE ExecuteReturnEarly(w)
  <2>1. pc' \in [Procs -> PCs] /\ job' \in [Procs -> Job] /\ lock' \in Procs \cup {None}
    BY <1>1, <1>3, ReturnType DEF ExecuteReturnEarly, Acquire
  <2>2. QED
    BY <1>1, <1>3, <2>1 DEF ExecuteReturnEarly, TypeOK
<1>4. CASE ExecuteBegin(w)
  <2> DEFINE c == requests[job[w].auth][job[w].nonce]
             d == latest[job[w].auth][job[w].nonce]
  <2>1. c \in Carts \cup {None} /\ d \in Nat
    BY <1>1, <1>2 DEF TypeOK
  <2>2. job' = [job EXCEPT ![w] = [job[w] EXCEPT !.cart = c, !.dec = d]]
    BY <1>1, <1>4 DEF ExecuteBegin, TypeOK
  <2> HIDE DEF c, d
  <2>3. [job[w] EXCEPT !.cart = c, !.dec = d] \in Job
    BY <1>2, <2>1 DEF Job
  <2>4. job' \in [Procs -> Job]
    BY <1>1, <2>2, <2>3 DEF TypeOK
  <2>5. pc' \in [Procs -> PCs] /\ lock' \in Procs \cup {None}
    BY <1>1, <1>4 DEF ExecuteBegin, Acquire, Goto, TypeOK, PCs
  <2>6. QED
    BY <1>1, <1>4, <2>4, <2>5 DEF ExecuteBegin, TypeOK
<1>5. CASE CreateOrder(w)
  <2> DEFINE order == [receipt |-> job[w].auth, amount |-> Total[job[w].cart]]
             k == Len(orders) + 1
  <2>1. job[w].cart \in Carts
    BY <1>5 DEF CreateOrder, Inv, WellFormed, JobWellFormed
  <2>2. order \in Order
    BY <1>2, <2>1, ConstantsAssumption DEF Order
  <2>3. orders' \in Seq(Order) /\ Len(orders') <= MaxOrders
    <3>1. orders' = Append(orders, order) /\ Len(orders) < MaxOrders
      BY <1>5 DEF CreateOrder
    <3>2. orders \in Seq(Order)
      BY <1>1 DEF TypeOK
    <3>3. QED
      BY <2>2, <3>1, <3>2, ConstantsAssumption
  <2>4. k \in Nat
    BY <1>1 DEF TypeOK
  <2>5. job' = [job EXCEPT ![w] = [job[w] EXCEPT !.order = k]]
    BY <1>1, <1>5 DEF CreateOrder, TypeOK
  <2> HIDE DEF k
  <2>6. [job[w] EXCEPT !.order = k] \in Job
    BY <1>2, <2>4 DEF Job
  <2>7. job' \in [Procs -> Job]
    BY <1>1, <2>5, <2>6 DEF TypeOK
  <2>8. pc' \in [Procs -> PCs]
    BY <1>1, <1>5 DEF CreateOrder, Goto, TypeOK, PCs
  <2>9. QED
    BY <1>1, <1>5, <2>3, <2>7, <2>8 DEF CreateOrder, TypeOK
<1>6. CASE ExecuteCommit(w)
  <2>1. payment' \in [Orders -> Row \cup {None}]
    BY <1>1, <1>6, NewRowType DEF TypeOK
  <2>2. evidence' \in [Auths -> Seq(Event)]
    BY <1>1, <1>2, <1>6, LinkedType, EvidenceLength DEF ExecuteCommit, EventTypes
  <2>3. pc' \in [Procs -> PCs] /\ job' \in [Procs -> Job] /\ lock' \in Procs \cup {None}
    BY <1>1, <1>6, ReturnType DEF ExecuteCommit
  <2>4. QED
    BY <1>1, <1>6, <2>1, <2>2, <2>3 DEF ExecuteCommit, TypeOK
<1>7. QED
  BY <1>3, <1>4, <1>5, <1>6 DEF ExecuteStep

LEMMA LoopType ==
  ASSUME TypeOK, NEW w \in Workers, LeaveLoop(w)
  PROVE  loop' \in Workers \cup {None}
  BY DEF TypeOK, LeaveLoop

LEMMA WebhookReceiveType ==
  ASSUME Inv, NEW w \in Workers, NEW pid \in PaymentIds, WebhookReceive(w, pid)
  PROVE  TypeOK'
<1>1. TypeOK
  BY DEF Inv
<1> DEFINE o == paid[pid].order
           j == [NoJob EXCEPT !.op = "webhook", !.pid = pid, !.order = o]
<1>2. o \in Nat
  BY <1>1 DEF WebhookReceive, HasRow, Orders
<1>3. job' = [job EXCEPT ![w] = j]
  BY DEF WebhookReceive
<1> HIDE DEF o
<1>4. j \in Job
  BY <1>2 DEF NoJob, Job
<1>5. job' \in [Procs -> Job]
  BY <1>1, <1>3, <1>4 DEF TypeOK
<1>6. pc' \in [Procs -> PCs] /\ loop' \in Workers \cup {None} /\ submitted' \in Nat
  BY <1>1 DEF WebhookReceive, Goto, TypeOK, PCs
<1>7. QED
  BY <1>1, <1>5, <1>6 DEF WebhookReceive, TypeOK

LEMMA WebhookType ==
  ASSUME Inv, NEW w \in Workers, WebhookStep(w)
  PROVE  TypeOK'
<1>1. TypeOK
  BY DEF Inv
<1>2. CASE WebhookDuplicate(w)
  <2>1. pc' \in [Procs -> PCs] /\ job' \in [Procs -> Job] /\ lock' \in Procs \cup {None}
    BY <1>1, <1>2, ReturnType DEF WebhookDuplicate, Acquire
  <2>2. loop' \in Workers \cup {None}
    BY <1>1, <1>2, LoopType DEF WebhookDuplicate
  <2>3. QED
    BY <1>1, <1>2, <2>1, <2>2 DEF WebhookDuplicate, TypeOK
<1>3. CASE WebhookBegin(w)
  <2>1. pc' \in [Procs -> PCs] /\ lock' \in Procs \cup {None}
    BY <1>1, <1>3 DEF WebhookBegin, Acquire, Goto, TypeOK, PCs
  <2>2. QED
    BY <1>1, <1>3, <2>1 DEF WebhookBegin, TypeOK
<1>4. CASE WebhookCommit(w)
  <2> DEFINE j == job[w]
             o == j.order
             mismatch == /\ paid[j.pid].amount # None
                         /\ paid[j.pid].amount # payment[o].amount
             status == IF mismatch THEN "AMOUNT_MISMATCH" ELSE "CAPTURED"
             type == IF mismatch THEN "PAYMENT_AMOUNT_MISMATCH" ELSE "PAYMENT_CAPTURED"
  <2>1. j.pid \in PaymentIds /\ HasRow(o)
    BY <1>4 DEF WebhookCommit, Inv, WellFormed, JobWellFormed
  <2>2. status \in Statuses /\ type \in EventTypes
    BY DEF Statuses, EventTypes
  <2>3. /\ payment' = [payment EXCEPT ![o].status = status]
        /\ Linked(payment[o].auth, type, Len(evidence[payment[o].auth]))
    BY <1>4 DEF WebhookCommit
  <2>4. payment[o].auth \in Auths
    BY <1>1, <2>1, RowType
  <2> HIDE DEF status, type
  <2>5. payment' \in [Orders -> Row \cup {None}]
    BY <1>1, <2>1, <2>2, <2>3, StatusType
  <2>6. evidence' \in [Auths -> Seq(Event)]
    BY <1>1, <2>2, <2>3, <2>4, LinkedType, EvidenceLength
  <2>7. seen' \subseteq PaymentIds /\ paymentEvents' \in [Orders -> SUBSET PaymentIds]
    BY <1>1, <1>4, <2>1 DEF WebhookCommit, TypeOK
  <2>8. /\ pc' \in [Procs -> PCs] /\ job' \in [Procs -> Job]
        /\ lock' \in Procs \cup {None} /\ loop' \in Workers \cup {None}
    BY <1>1, <1>4, ReturnType, LoopType DEF WebhookCommit
  <2>9. QED
    BY <1>1, <1>4, <2>5, <2>6, <2>7, <2>8 DEF WebhookCommit, TypeOK
<1>5. QED
  BY <1>2, <1>3, <1>4 DEF WebhookStep

LEMMA SweepType ==
  ASSUME Inv, SweepStep
  PROVE  TypeOK'
<1>1. TypeOK
  BY DEF Inv
<1>2. CASE SweepSelect
  <2>1. pc' \in [Procs -> PCs]
    BY <1>1, <1>2 DEF SweepSelect, Goto, TypeOK, PCs
  <2>2. batch' \subseteq Orders
    BY <1>1, <1>2 DEF SweepSelect, Candidates, TypeOK
  <2>3. QED
    BY <1>1, <1>2, <2>1, <2>2 DEF SweepSelect, TypeOK
<1>3. ASSUME NEW o \in Orders, NextCandidate(o)
      PROVE  pc' \in [Procs -> PCs] /\ batch' \subseteq Orders
  BY <1>1, <1>3 DEF NextCandidate, Goto, TypeOK, PCs
<1>4. ASSUME NEW o \in Orders, SweepSkip(o)
      PROVE  TypeOK'
  BY <1>1, <1>3, <1>4 DEF SweepSkip, TypeOK
<1>5. ASSUME NEW o \in Orders, SweepBegin(o)
      PROVE  TypeOK'
  <2>1. pc' \in [Procs -> PCs] /\ lock' \in Procs \cup {None}
    BY <1>1, <1>5 DEF SweepBegin, Acquire, Goto, TypeOK, PCs
  <2>2. QED
    BY <1>1, <1>5, <2>1 DEF SweepBegin, TypeOK
<1>6. ASSUME NEW o \in Orders, SweepCommit(o)
      PROVE  TypeOK'
  <2>1. HasRow(o)
    BY <1>6 DEF SweepCommit, IsNext, Inv, WellFormed
  <2>2. payment' \in [Orders -> Row \cup {None}]
    BY <1>1, <1>6, <2>1, StatusType DEF SweepCommit, Statuses
  <2>3. evidence' \in [Auths -> Seq(Event)]
    BY <1>1, <1>6, <2>1, RowType, LinkedType, EvidenceLength DEF SweepCommit, EventTypes
  <2>4. pc' \in [Procs -> PCs] /\ batch' \subseteq Orders /\ lock' \in Procs \cup {None}
    BY <1>3, <1>6 DEF SweepCommit
  <2>5. QED
    BY <1>1, <1>6, <2>2, <2>3, <2>4 DEF SweepCommit, TypeOK
<1>7. CASE SweepAbort
  <2>1. /\ pc' \in [Procs -> PCs] /\ batch' \subseteq Orders
        /\ lock' \in Procs \cup {None} /\ faults' \in Nat
    BY <1>1, <1>7 DEF SweepAbort, Goto, TypeOK, PCs
  <2>2. QED
    BY <1>1, <1>7, <2>1 DEF SweepAbort, TypeOK
<1>8. QED
  BY <1>2, <1>4, <1>5, <1>6, <1>7 DEF SweepStep

LEMMA HandlerType ==
  ASSUME Inv, NEW w \in Workers, HandlerStep(w) \/ Fail(w) \/ CloseSession(w)
  PROVE  TypeOK'
<1>1. TypeOK
  BY DEF Inv
<1>2. CASE Revoke(w)
  <2>1. job[w].auth \in Auths
    BY <1>2 DEF Revoke, Inv, WellFormed, JobWellFormed
  <2>2. evidence' \in [Auths -> Seq(Event)]
    <3>1. CASE job[w].auth \in revoked
      BY <1>1, <1>2, <3>1 DEF Revoke, TypeOK
    <3>2. CASE job[w].auth \notin revoked
      BY <1>1, <1>2, <2>1, <3>2, LinkedType, EvidenceLength DEF Revoke, EventTypes
    <3>3. QED
      BY <3>1, <3>2
  <2>3. pc' \in [Procs -> PCs] /\ job' \in [Procs -> Job]
    BY <1>1, <1>2, ReturnType DEF Revoke
  <2>4. revoked' \subseteq Auths
    BY <1>1, <1>2, <2>1 DEF Revoke, TypeOK
  <2>5. QED
    BY <1>1, <1>2, <2>2, <2>3, <2>4 DEF Revoke, TypeOK
<1>3. CASE UnknownAuthorization(w)
  <2>1. pc' \in [Procs -> PCs] /\ job' \in [Procs -> Job] /\ lock' \in Procs \cup {None}
    BY <1>1, <1>3, ReturnType DEF UnknownAuthorization, Acquire
  <2>2. QED
    BY <1>1, <1>3, <2>1 DEF UnknownAuthorization, TypeOK
<1>4. CASE LockTimeout(w)
  <2>1. /\ pc' \in [Procs -> PCs] /\ job' \in [Procs -> Job]
        /\ loop' \in Workers \cup {None}
    BY <1>1, <1>4, ReturnType, LoopType DEF LockTimeout
  <2>2. QED
    BY <1>1, <1>4, <2>1 DEF LockTimeout, TypeOK
<1>5. CASE Fail(w)
  <2>1. /\ pc' \in [Procs -> PCs] /\ job' \in [Procs -> Job]
        /\ loop' \in Workers \cup {None}
    BY <1>1, <1>5, ReturnType, LoopType DEF Fail
  <2>2. faults' \in Nat
    BY <1>1, <1>5 DEF Fail, TypeOK
  <2>3. QED
    BY <1>1, <1>5, <2>1, <2>2 DEF Fail, TypeOK
<1>6. CASE CloseSession(w)
  <2>1. pc' \in [Procs -> PCs] /\ lock' \in Procs \cup {None}
    BY <1>1, <1>6 DEF CloseSession, Goto, TypeOK, PCs
  <2>2. QED
    BY <1>1, <1>6, <2>1 DEF CloseSession, TypeOK
<1>7. QED
  BY <1>2, <1>3, <1>4, <1>5, <1>6, ConfirmType, AgentType, ExecuteType, WebhookType
  DEF HandlerStep

LEMMA EnvironmentType ==
  ASSUME Inv, ProviderStep \/ TimeStep \/ Crash \/ Quiet \/ UNCHANGED vars
  PROVE  TypeOK'
<1>1. TypeOK
  BY DEF Inv
<1>2. ASSUME NEW pid \in PaymentIds, NEW o \in Orders, NEW amount \in Amounts,
             CustomerPays(pid, o, amount)
      PROVE  TypeOK'
  <2>1. [order |-> o, amount |-> amount] \in Payment
    BY DEF Payment
  <2>2. paid' \in [PaymentIds -> Payment \cup {None}]
    BY <1>1, <1>2, <2>1 DEF CustomerPays, TypeOK
  <2>3. QED
    BY <1>1, <1>2, <2>2 DEF CustomerPays, TypeOK
<1>3. CASE ProviderStep
  BY <1>2, <1>3, WebhookReceiveType DEF ProviderStep
<1>4. CASE TimeStep
  <2>1. expired' \subseteq Auths /\ overdue' \subseteq Orders
    BY <1>1, <1>4 DEF TimeStep, Expire, PassTimeout, TypeOK
  <2>2. QED
    BY <1>1, <1>4, <2>1 DEF TimeStep, Expire, PassTimeout, TypeOK
<1>5. CASE Crash
  <2>1. /\ pc' \in [Procs -> PCs] /\ job' \in [Procs -> Job]
        /\ lock' \in Procs \cup {None} /\ loop' \in Workers \cup {None}
        /\ batch' \subseteq Orders /\ faults' \in Nat
    BY <1>1, <1>5, NoJobType DEF Crash, TypeOK, PCs
  <2>2. QED
    BY <1>1, <1>5, <2>1 DEF Crash, TypeOK
<1>6. CASE Quiet \/ UNCHANGED vars
  BY <1>1, <1>6 DEF Quiet, vars, TypeOK
<1>7. QED
  BY <1>3, <1>4, <1>5, <1>6

LEMMA TypeStep == Inv /\ [Next]_vars => TypeOK'
  BY ClientType, HandlerType, SweepType, EnvironmentType DEF Next, Inv

-----------------------------------------------------------------------------
(* Mutual exclusion: one open transaction at a time *)

\* A process that starts a transaction, ends one, or stays out of one.
LEMMA LockMoves ==
  ASSUME TypeOK, LockDiscipline, NEW p \in Procs, NEW l \in PCs,
         pc' = [pc EXCEPT ![p] = l],
         \/ /\ lock = None /\ lock' = p
            /\ l \in {"commit", "provider", "record", "closing"}
         \/ /\ pc[p] \in {"commit", "provider", "record", "closing"} /\ lock' = None
            /\ l \notin {"commit", "provider", "record", "closing"}
         \/ /\ lock' = lock
            /\ l \in {"commit", "provider", "record", "closing"}
                 <=> pc[p] \in {"commit", "provider", "record", "closing"}
  PROVE  LockDiscipline'
  BY NoneAssumption DEF TypeOK, LockDiscipline

LEMMA LockWorker ==
  ASSUME Inv, NEW w \in Workers, HandlerStep(w) \/ Fail(w) \/ CloseSession(w)
  PROVE  LockDiscipline'
<1>1. TypeOK /\ LockDiscipline /\ w \in Procs
  BY DEF Inv
<1>2. \A l \in {"idle", "tail", "append", "commit", "provider", "record", "closing"} :
        l \in PCs
  BY DEF PCs
<1>3. CASE ConfirmStep(w)
  BY <1>1, <1>2, <1>3, LockMoves
  DEF ConfirmStep, ConfirmInsert, ConfirmTail, ConfirmAppend, Goto, Return
<1>4. CASE AgentStep(w)
  BY <1>1, <1>2, <1>4, LockMoves
  DEF AgentStep, AgentReject, AgentEvaluate, AgentCommit, Acquire, Goto, Return
<1>5. CASE Revoke(w)
  BY <1>1, <1>2, <1>5, LockMoves DEF Revoke, Goto, Return
<1>6. CASE ExecuteStep(w)
  BY <1>1, <1>2, <1>6, LockMoves
  DEF ExecuteStep, ExecuteReturnEarly, ExecuteBegin, CreateOrder, ExecuteCommit,
      Acquire, Goto, Return, Abandon
<1>7. CASE WebhookStep(w)
  BY <1>1, <1>2, <1>7, LockMoves
  DEF WebhookStep, WebhookDuplicate, WebhookBegin, WebhookCommit, Acquire, Goto,
      Return, Abandon
<1>8. CASE UnknownAuthorization(w) \/ LockTimeout(w)
  BY <1>1, <1>2, <1>8, LockMoves
  DEF UnknownAuthorization, LockTimeout, Acquire, Goto, Return, Abandon
<1>9. CASE Fail(w) \/ CloseSession(w)
  BY <1>1, <1>2, <1>9, LockMoves DEF Fail, CloseSession, Goto, Abandon
<1>10. QED
  BY <1>3, <1>4, <1>5, <1>6, <1>7, <1>8, <1>9 DEF HandlerStep

LEMMA LockSweep ==
  ASSUME Inv, SweepStep
  PROVE  LockDiscipline'
<1>1. TypeOK /\ LockDiscipline /\ Sweeper \in Procs
  BY DEF Inv
<1>2. \A l \in {"idle", "lock", "commit"} : l \in PCs
  BY DEF PCs
<1>3. CASE SweepSelect
  BY <1>1, <1>2, <1>3, LockMoves DEF SweepSelect, Goto
<1>4. ASSUME NEW o \in Orders, SweepSkip(o) \/ SweepBegin(o) \/ SweepCommit(o)
      PROVE  LockDiscipline'
  BY <1>1, <1>2, <1>4, LockMoves
  DEF SweepSkip, SweepBegin, SweepCommit, NextCandidate, Acquire, Goto
<1>5. CASE SweepAbort
  <2>1. lock = Sweeper <=> pc[Sweeper] \in {"commit", "provider", "record", "closing"}
    BY <1>1 DEF LockDiscipline
  <2>2. QED
    BY <1>1, <1>2, <1>5, <2>1, LockMoves DEF SweepAbort, Goto
<1>6. QED
  BY <1>3, <1>4, <1>5 DEF SweepStep

LEMMA LockStep == Inv /\ [Next]_vars => LockDiscipline'
<1> SUFFICES ASSUME Inv, [Next]_vars
             PROVE  LockDiscipline'
  OBVIOUS
<1>1. TypeOK /\ LockDiscipline
  BY DEF Inv
<1>2. ASSUME NEW w \in Workers, NEW j, NEW l \in {"insert", "lock"}, Submit(w, j, l)
      PROVE  LockDiscipline'
  BY <1>1, <1>2, LockMoves DEF Submit, Goto, PCs
<1>3. CASE ClientStep
  BY <1>2, <1>3
  DEF ClientStep, SubmitConfirm, SubmitRevoke, SubmitExecute, SubmitAgent
<1>4. ASSUME NEW w \in Workers, NEW pid \in PaymentIds, WebhookReceive(w, pid)
      PROVE  LockDiscipline'
  BY <1>1, <1>4, LockMoves DEF WebhookReceive, Goto, PCs
<1>5. CASE ProviderStep
  <2>1. ASSUME NEW pid \in PaymentIds, NEW o \in Orders, NEW amount \in Amounts,
               CustomerPays(pid, o, amount)
        PROVE  LockDiscipline'
    BY <1>1, <2>1 DEF CustomerPays, LockDiscipline
  <2>2. QED
    BY <1>4, <1>5, <2>1 DEF ProviderStep
<1>6. CASE TimeStep \/ Quiet \/ UNCHANGED vars
  BY <1>1, <1>6 DEF TimeStep, Expire, PassTimeout, Quiet, vars, LockDiscipline
<1>7. CASE Crash
  BY <1>7, NoneAssumption DEF Crash, LockDiscipline
<1>8. QED
  BY <1>3, <1>5, <1>6, <1>7, LockWorker, LockSweep DEF Next

-----------------------------------------------------------------------------
(* What a handler is doing *)

\* Orders, payments and rows are never taken back.
Grows ==
    /\ Len(orders) <= Len(orders')
    /\ \A pid \in PaymentIds : paid[pid] # None => paid'[pid] = paid[pid]
    /\ \A o : HasRow(o) => HasRow(o)'

LEMMA SameGrows ==
  ASSUME TypeOK, UNCHANGED <<orders, paid, payment>>
  PROVE  Grows
  BY DEF TypeOK, Grows, HasRow

LEMMA RowsGrow ==
  ASSUME TypeOK, UNCHANGED <<orders, paid>>, NEW o, NEW r \in Row,
         payment' = [payment EXCEPT ![o] = r]
  PROVE  Grows
  BY NoneAssumption DEF TypeOK, Grows, HasRow

LEMMA StepGrows == Inv /\ [Next]_vars => Grows
<1> SUFFICES ASSUME Inv, [Next]_vars
             PROVE  Grows
  OBVIOUS
<1>1. TypeOK
  BY DEF Inv
<1>2. CASE ClientStep
  BY <1>1, <1>2, SameGrows
  DEF ClientStep, SubmitConfirm, SubmitRevoke, SubmitExecute, SubmitAgent, Submit
<1>3. ASSUME NEW pid \in PaymentIds, NEW o \in Orders, NEW amount \in Amounts,
             CustomerPays(pid, o, amount)
      PROVE  Grows
  BY <1>1, <1>3 DEF CustomerPays, Grows, HasRow, TypeOK
<1>4. CASE ProviderStep
  BY <1>1, <1>3, <1>4, SameGrows DEF ProviderStep, WebhookReceive
<1>5. CASE TimeStep \/ Crash \/ Quiet \/ UNCHANGED vars
  BY <1>1, <1>5, SameGrows DEF TimeStep, Expire, PassTimeout, Crash, Quiet, vars
<1>6. ASSUME NEW o \in Orders, SweepCommit(o)
      PROVE  Grows
  <2>1. HasRow(o)
    BY <1>6 DEF SweepCommit, IsNext, Inv, WellFormed
  <2>2. payment' = [payment EXCEPT ![o] = [payment[o] EXCEPT !.status = "STALE"]]
    BY <1>1, <1>6 DEF SweepCommit, TypeOK
  <2>3. [payment[o] EXCEPT !.status = "STALE"] \in Row
    BY <1>1, <2>1, RowType DEF Statuses
  <2>4. QED
    BY <1>1, <1>6, <2>2, <2>3, RowsGrow DEF SweepCommit
<1>7. CASE SweepStep
  BY <1>1, <1>6, <1>7, SameGrows
  DEF SweepStep, SweepSelect, SweepSkip, SweepBegin, SweepAbort
<1>8. ASSUME NEW w \in Workers, CreateOrder(w)
      PROVE  Grows
  <2>1. Len(orders') = Len(orders) + 1 /\ Len(orders) \in Nat
    BY <1>1, <1>8 DEF CreateOrder, TypeOK
  <2>2. QED
    BY <1>8, <2>1 DEF CreateOrder, Grows, HasRow
<1>9. ASSUME NEW w \in Workers, ExecuteCommit(w)
      PROVE  Grows
  BY <1>1, <1>9, NewRowType, RowsGrow DEF ExecuteCommit
<1>10. ASSUME NEW w \in Workers, WebhookCommit(w)
       PROVE  Grows
  <2> DEFINE o == job[w].order
             s == IF paid[job[w].pid].amount # None
                     /\ paid[job[w].pid].amount # payment[o].amount
                  THEN "AMOUNT_MISMATCH" ELSE "CAPTURED"
  <2>1. HasRow(o)
    BY <1>10 DEF WebhookCommit, Inv, WellFormed, JobWellFormed
  <2>2. s \in Statuses
    BY DEF Statuses
  <2>3. payment' = [payment EXCEPT ![o].status = s]
    BY <1>10 DEF WebhookCommit
  <2> HIDE DEF s
  <2>4. payment' = [payment EXCEPT ![o] = [payment[o] EXCEPT !.status = s]]
    BY <1>1, <2>3 DEF TypeOK
  <2>5. QED
    BY <1>1, <1>10, <2>1, <2>2, <2>4, RowType, RowsGrow DEF WebhookCommit
<1>11. ASSUME NEW w \in Workers, HandlerStep(w) \/ Fail(w) \/ CloseSession(w)
       PROVE  Grows
  <2>1. CASE ConfirmStep(w) \/ AgentStep(w) \/ Revoke(w)
    BY <1>1, <2>1, SameGrows
    DEF ConfirmStep, ConfirmInsert, ConfirmTail, ConfirmAppend, AgentStep, AgentReject,
        AgentEvaluate, AgentCommit, Revoke
  <2>2. CASE ExecuteStep(w)
    BY <1>1, <1>8, <1>9, <2>2, SameGrows
    DEF ExecuteStep, ExecuteReturnEarly, ExecuteBegin
  <2>3. CASE WebhookStep(w)
    BY <1>1, <1>10, <2>3, SameGrows DEF WebhookStep, WebhookDuplicate, WebhookBegin
  <2>4. CASE UnknownAuthorization(w) \/ LockTimeout(w) \/ Fail(w) \/ CloseSession(w)
    BY <1>1, <2>4, SameGrows DEF UnknownAuthorization, LockTimeout, Fail, CloseSession
  <2>5. QED
    BY <1>11, <2>1, <2>2, <2>3, <2>4 DEF HandlerStep
<1>12. QED
  BY <1>2, <1>4, <1>5, <1>7, <1>11 DEF Next

\* What one process does leaves the others' descriptions true.
LEMMA OtherWellFormed ==
  ASSUME Inv, Grows, NEW v \in Workers, JobWellFormed(v),
         pc'[v] = pc[v], job'[v] = job[v]
  PROVE  JobWellFormed(v)'
<1>1. /\ Len(orders) <= Len(orders') /\ Len(orders) \in Nat
      /\ job[v].order \in 1..Len(orders) => job[v].order \in 1..Len(orders')
  BY DEF Inv, Grows, TypeOK
<1>2. job[v].op = "webhook" => /\ paid'[job[v].pid] = paid[job[v].pid]
                               /\ HasRow(job[v].order)'
  BY DEF Grows, JobWellFormed
<1>3. QED
  BY <1>1, <1>2 DEF JobWellFormed

\* The part of WellFormed about requests.
Stored ==
    \A a \in Auths, n \in Nonces :
      /\ latest[a][n] \in 0..Len(decisions[a][n])
      /\ decisions[a][n] # <<>> => latest[a][n] # 0 /\ requests[a][n] \in Carts

\* A step of the handler in slot w: its own description, and that it leaves the
\* sweep, the batch and (unless it commits a decision) the requests alone.
LEMMA WorkerWellFormed ==
  ASSUME Inv, Grows, NEW w \in Workers, NEW j, NEW l,
         pc' = [pc EXCEPT ![w] = l], job' = [job EXCEPT ![w] = j],
         UNCHANGED batch, JobWellFormed(w)', Stored'
  PROVE  WellFormed'
<1>1. TypeOK /\ WellFormed
  BY DEF Inv
<1>2. \A v \in Workers \ {w} : pc'[v] = pc[v] /\ job'[v] = job[v]
  BY <1>1 DEF TypeOK
<1>3. \A v \in Workers : JobWellFormed(v)'
  BY <1>1, <1>2, OtherWellFormed DEF WellFormed
<1>4. pc'[Sweeper] = pc[Sweeper]
  BY <1>1, NoneAssumption DEF TypeOK
<1>5. \A o \in batch' : HasRow(o)'
  BY <1>1 DEF WellFormed, Grows
<1>6. QED
  BY <1>1, <1>3, <1>4, <1>5 DEF WellFormed, Stored

\* Whatever the clock says, one of the decisions of a request is its latest.
LEMMA DatedRange ==
  ASSUME TypeOK, NEW a \in Auths, NEW n \in Nonces, NEW v,
         latest[a][n] \in 0..Len(decisions[a][n]), Dated(a, n),
         decisions' = [decisions EXCEPT ![a][n] = Append(@, v)]
  PROVE  latest'[a][n] \in 1..Len(decisions'[a][n])
<1>1. decisions[a][n] \in Seq(Verdicts) /\ decisions'[a][n] = Append(decisions[a][n], v)
  BY DEF TypeOK
<1>2. Len(decisions[a][n]) \in Nat /\ Len(decisions'[a][n]) = Len(decisions[a][n]) + 1
  BY <1>1
<1>3. latest'[a][n] \in {latest[a][n], Len(decisions[a][n]) + 1} \ {0}
  BY DEF Dated, TypeOK
<1>4. QED
  BY <1>2, <1>3

LEMMA SameStored ==
  ASSUME Inv, UNCHANGED <<requests, decisions, latest>>
  PROVE  Stored'
  BY DEF Inv, WellFormed, Stored

\* A handler that returned or gave up has nothing to be described.
LEMMA DoneWellFormed ==
  ASSUME Inv, Grows, NEW w \in Workers, Return(w) \/ Abandon(w),
         UNCHANGED batch, Stored'
  PROVE  WellFormed'
<1>1. \E l \in {"idle", "closing"} :
        pc' = [pc EXCEPT ![w] = l] /\ job' = [job EXCEPT ![w] = NoJob]
  BY DEF Return, Abandon, Goto
<1>2. JobWellFormed(w)'
  BY <1>1 DEF Inv, TypeOK, JobWellFormed, NoJob
<1>3. QED
  BY <1>1, <1>2, WorkerWellFormed

LEMMA SubmitWellFormed ==
  ASSUME Inv, Grows, NEW w \in Workers, NEW j, NEW l \in {"insert", "lock"},
         Submit(w, j, l), l = "insert" => j.op = "confirm",
         j.op \in {"confirm", "agent", "revoke", "execute"}, j.auth \in Auths,
         j.op \in {"agent", "execute"} => j.nonce \in Nonces,
         j.op = "agent" => j.cart \in Carts
  PROVE  WellFormed'
<1>1. pc' = [pc EXCEPT ![w] = l] /\ job' = [job EXCEPT ![w] = j] /\ UNCHANGED batch
  BY DEF Submit, Goto
<1>2. JobWellFormed(w)'
  BY <1>1 DEF Inv, TypeOK, JobWellFormed
<1>3. Stored'
  BY SameStored DEF Submit
<1>4. QED
  BY <1>1, <1>2, <1>3, WorkerWellFormed

LEMMA ClientWellFormed ==
  ASSUME Inv, Grows, ClientStep
  PROVE  WellFormed'
<1>1. SUFFICES ASSUME NEW w \in Workers, NEW a \in Auths,
                      \/ SubmitConfirm(w, a)
                      \/ SubmitRevoke(w, a)
                      \/ \E n \in Nonces : \/ SubmitExecute(w, a, n)
                                           \/ \E c \in Carts : SubmitAgent(w, a, n, c)
               PROVE  WellFormed'
  BY DEF ClientStep
<1>2. CASE SubmitConfirm(w, a)
  <2>1. Submit(w, [NoJob EXCEPT !.op = "confirm", !.auth = a], "insert")
    BY <1>2 DEF SubmitConfirm
  <2>2. QED
    BY <2>1, SubmitWellFormed DEF NoJob
<1>3. CASE SubmitRevoke(w, a)
  <2>1. Submit(w, [NoJob EXCEPT !.op = "revoke", !.auth = a], "lock")
    BY <1>3 DEF SubmitRevoke
  <2>2. QED
    BY <2>1, SubmitWellFormed DEF NoJob
<1>4. ASSUME NEW n \in Nonces, SubmitExecute(w, a, n)
      PROVE  WellFormed'
  <2>1. Submit(w, [NoJob EXCEPT !.op = "execute", !.auth = a, !.nonce = n], "lock")
    BY <1>4 DEF SubmitExecute
  <2>2. QED
    BY <2>1, SubmitWellFormed DEF NoJob
<1>5. ASSUME NEW n \in Nonces, NEW c \in Carts, SubmitAgent(w, a, n, c)
      PROVE  WellFormed'
  <2>1. Submit(w, [NoJob EXCEPT !.op = "agent", !.auth = a, !.nonce = n, !.cart = c],
               "lock")
    BY <1>5 DEF SubmitAgent
  <2>2. QED
    BY <2>1, SubmitWellFormed DEF NoJob
<1>6. QED
  BY <1>1, <1>2, <1>3, <1>4, <1>5

LEMMA ConfirmWellFormed ==
  ASSUME Inv, Grows, NEW w \in Workers, ConfirmStep(w)
  PROVE  WellFormed'
<1>1. UNCHANGED batch /\ Stored' /\ job[w] \in Job /\ JobWellFormed(w)
  BY SameStored DEF Inv, TypeOK, WellFormed, ConfirmStep, ConfirmInsert, ConfirmTail,
                    ConfirmAppend
<1>2. CASE ConfirmInsert(w) /\ job[w].auth \notin signed
  <2>1. pc' = [pc EXCEPT ![w] = "tail"] /\ job' = [job EXCEPT ![w] = job[w]]
    BY <1>2 DEF ConfirmInsert, Goto, Inv, TypeOK
  <2>2. JobWellFormed(w)'
    BY <1>1, <1>2, <2>1 DEF ConfirmInsert, Inv, TypeOK, JobWellFormed
  <2>3. QED
    BY <1>1, <2>1, <2>2, WorkerWellFormed
<1>3. CASE ConfirmTail(w)
  <2> DEFINE j == [job[w] EXCEPT !.tail = Len(evidence[job[w].auth])]
  <2>1. pc' = [pc EXCEPT ![w] = "append"] /\ job' = [job EXCEPT ![w] = j]
    BY <1>3 DEF ConfirmTail, Goto, Inv, TypeOK
  <2>2. j.op = "confirm" /\ j.auth \in Auths
    BY <1>1, <1>3 DEF ConfirmTail, JobWellFormed, Job
  <2>3. JobWellFormed(w)'
    BY <1>1, <2>1, <2>2 DEF Inv, TypeOK, JobWellFormed
  <2>4. QED
    BY <1>1, <2>1, <2>3, WorkerWellFormed
<1>4. CASE \/ ConfirmAppend(w)
           \/ ConfirmInsert(w) /\ job[w].auth \in signed
  BY <1>1, <1>4, DoneWellFormed DEF ConfirmAppend, ConfirmInsert
<1>5. QED
  BY <1>2, <1>3, <1>4 DEF ConfirmStep

LEMMA AgentWellFormed ==
  ASSUME Inv, Grows, NEW w \in Workers, AgentStep(w)
  PROVE  WellFormed'
<1>1. /\ UNCHANGED batch /\ JobWellFormed(w) /\ job[w] \in Job
      /\ job[w].op = "agent" /\ job[w].auth \in Auths
      /\ job[w].nonce \in Nonces /\ job[w].cart \in Carts
  BY DEF Inv, TypeOK, WellFormed, JobWellFormed, AgentStep, AgentReject, AgentEvaluate,
         AgentCommit
<1>2. CASE AgentReject(w)
  BY <1>1, <1>2, SameStored, DoneWellFormed DEF AgentReject
<1>3. CASE AgentEvaluate(w)
  <2> DEFINE v == Evaluate(job[w].auth, job[w].nonce, job[w].cart)
             f == (requests[job[w].auth][job[w].nonce] = None)
             u == used[job[w].auth]
             j == [job[w] EXCEPT !.verdict = v, !.fresh = f, !.used = u]
  <2>1. pc' = [pc EXCEPT ![w] = "commit"] /\ job' = [job EXCEPT ![w] = j]
    BY <1>3 DEF AgentEvaluate, Goto, Inv, TypeOK
  <2>2. v \in Verdicts
    BY <1>1, EvaluateType
  <2> HIDE DEF v, f, u
  <2>3. /\ j.op = "agent" /\ j.auth \in Auths /\ j.nonce \in Nonces
        /\ j.cart \in Carts /\ j.verdict \in Verdicts
    BY <1>1, <2>2 DEF Job
  <2> HIDE DEF j
  <2>4. JobWellFormed(w)'
    BY <2>1, <2>3 DEF Inv, TypeOK, JobWellFormed
  <2>5. QED
    BY <1>1, <1>3, <2>1, <2>4, SameStored, WorkerWellFormed DEF AgentEvaluate
<1>4. CASE AgentCommit(w)
  <2> DEFINE j == job[w]
  <2>1. requests[j.auth][j.nonce] = None \/ requests[j.auth][j.nonce] \in Carts
    BY <1>1 DEF Inv, TypeOK
  <2>2. j.fresh <=> requests[j.auth][j.nonce] = None
    BY <1>4 DEF AgentCommit, Inv, ReadsStillTrue, WorkerReads
  <2>3. requests'[j.auth][j.nonce] \in Carts
    BY <1>1, <1>4, <2>1, <2>2 DEF AgentCommit, Inv, TypeOK
  <2>4. ASSUME NEW a \in Auths, NEW n \in Nonces, <<a, n>> # <<j.auth, j.nonce>>
        PROVE  /\ requests'[a][n] = requests[a][n]
               /\ decisions'[a][n] = decisions[a][n] /\ latest'[a][n] = latest[a][n]
    <3>1. \E i \in Nat : latest' = [latest EXCEPT ![j.auth][j.nonce] = i]
      <4>1. Dated(j.auth, j.nonce) /\ TypeOK
        BY <1>4 DEF AgentCommit, Inv
      <4>2. QED
        BY <1>1, <4>1, DatedMoves
    <3>2. latest'[a][n] = latest[a][n]
      BY <1>1, <2>4, <3>1 DEF Inv, TypeOK
    <3>3. QED
      BY <1>1, <1>4, <2>4, <3>2 DEF AgentCommit, Inv, TypeOK
  <2>5. latest'[j.auth][j.nonce] \in 1..Len(decisions'[j.auth][j.nonce])
    BY <1>1, <1>4, DatedRange DEF AgentCommit, Inv, WellFormed
  <2>6. Stored'
    BY <2>3, <2>4, <2>5 DEF Stored, Inv, WellFormed
  <2>7. QED
    BY <1>1, <1>4, <2>6, DoneWellFormed DEF AgentCommit
<1>5. QED
  BY <1>2, <1>3, <1>4 DEF AgentStep

LEMMA ExecuteWellFormed ==
  ASSUME Inv, Grows, NEW w \in Workers, ExecuteStep(w)
  PROVE  WellFormed'
<1>1. UNCHANGED batch /\ Stored' /\ JobWellFormed(w) /\ job[w] \in Job
  BY SameStored DEF Inv, TypeOK, WellFormed, ExecuteStep, ExecuteReturnEarly,
                    ExecuteBegin, CreateOrder, ExecuteCommit
<1>2. /\ job[w].op = "execute" /\ job[w].auth \in Auths /\ job[w].nonce \in Nonces
  BY <1>1 DEF JobWellFormed, ExecuteStep, ExecuteReturnEarly, ExecuteBegin,
              CreateOrder, ExecuteCommit
<1>3. CASE ExecuteReturnEarly(w) \/ ExecuteCommit(w)
  BY <1>1, <1>3, DoneWellFormed DEF ExecuteReturnEarly, ExecuteCommit
<1>4. CASE ExecuteBegin(w)
  <2> DEFINE c == requests[job[w].auth][job[w].nonce]
             d == latest[job[w].auth][job[w].nonce]
             j == [job[w] EXCEPT !.cart = c, !.dec = d]
  <2>1. pc' = [pc EXCEPT ![w] = "provider"] /\ job' = [job EXCEPT ![w] = j]
    BY <1>4 DEF ExecuteBegin, Goto, Inv, TypeOK
  <2>2. c \in Carts
    BY <1>2, <1>4 DEF ExecuteBegin, Payable, Inv, WellFormed
  <2> HIDE DEF c, d
  <2>3. /\ j.op = "execute" /\ j.auth \in Auths /\ j.nonce \in Nonces
        /\ j.cart \in Carts
    BY <1>1, <1>2, <2>2 DEF Job
  <2> HIDE DEF j
  <2>4. JobWellFormed(w)'
    BY <2>1, <2>3 DEF Inv, TypeOK, JobWellFormed
  <2>5. QED
    BY <1>1, <2>1, <2>4, WorkerWellFormed
<1>5. CASE CreateOrder(w)
  <2> DEFINE k == Len(orders) + 1
             j == [job[w] EXCEPT !.order = k]
  <2>1. pc' = [pc EXCEPT ![w] = "record"] /\ job' = [job EXCEPT ![w] = j]
    BY <1>5 DEF CreateOrder, Goto, Inv, TypeOK
  <2>2. k \in 1..Len(orders')
    BY <1>5 DEF CreateOrder, Inv, TypeOK
  <2>3. job[w].cart \in Carts
    BY <1>1, <1>5 DEF CreateOrder, JobWellFormed
  <2> HIDE DEF k
  <2>4. /\ j.op = "execute" /\ j.auth \in Auths /\ j.nonce \in Nonces
        /\ j.cart \in Carts /\ j.order = k
    BY <1>1, <1>2, <2>3 DEF Job
  <2> HIDE DEF j
  <2>5. JobWellFormed(w)'
    BY <2>1, <2>2, <2>4 DEF Inv, TypeOK, JobWellFormed
  <2>6. QED
    BY <1>1, <2>1, <2>5, WorkerWellFormed
<1>6. QED
  BY <1>3, <1>4, <1>5 DEF ExecuteStep

LEMMA WebhookWellFormed ==
  ASSUME Inv, Grows, NEW w \in Workers, WebhookStep(w)
  PROVE  WellFormed'
<1>1. UNCHANGED batch /\ Stored' /\ JobWellFormed(w)
  BY SameStored DEF Inv, WellFormed, WebhookStep, WebhookDuplicate, WebhookBegin,
                    WebhookCommit
<1>2. CASE WebhookDuplicate(w) \/ WebhookCommit(w)
  BY <1>1, <1>2, DoneWellFormed DEF WebhookDuplicate, WebhookCommit
<1>3. CASE WebhookBegin(w)
  <2>1. pc' = [pc EXCEPT ![w] = "commit"] /\ job' = [job EXCEPT ![w] = job[w]]
    BY <1>3 DEF WebhookBegin, Goto, Inv, TypeOK
  <2>2. JobWellFormed(w)'
    BY <1>1, <1>3, <2>1 DEF WebhookBegin, Inv, TypeOK, JobWellFormed, Grows
  <2>3. QED
    BY <1>1, <2>1, <2>2, WorkerWellFormed
<1>4. QED
  BY <1>2, <1>3 DEF WebhookStep

LEMMA ReceiveWellFormed ==
  ASSUME Inv, Grows, NEW w \in Workers, NEW pid \in PaymentIds, WebhookReceive(w, pid)
  PROVE  WellFormed'
<1> DEFINE j == [NoJob EXCEPT !.op = "webhook", !.pid = pid, !.order = paid[pid].order]
<1>1. pc' = [pc EXCEPT ![w] = "lock"] /\ job' = [job EXCEPT ![w] = j]
  BY DEF WebhookReceive, Goto
<1>2. /\ j.op = "webhook" /\ j.pid = pid /\ j.order = paid[pid].order
  BY DEF NoJob
<1> HIDE DEF j
<1>3. /\ paid'[pid] = paid[pid] /\ paid[pid] # None /\ HasRow(paid[pid].order)'
  BY DEF WebhookReceive, Grows
<1>4. JobWellFormed(w)'
  BY <1>1, <1>2, <1>3 DEF Inv, TypeOK, JobWellFormed
<1>5. QED
  BY <1>1, <1>4, SameStored, WorkerWellFormed DEF WebhookReceive

LEMMA HandlerWellFormed ==
  ASSUME Inv, Grows, NEW w \in Workers, HandlerStep(w) \/ Fail(w) \/ CloseSession(w)
  PROVE  WellFormed'
<1>1. CASE Revoke(w) \/ UnknownAuthorization(w) \/ LockTimeout(w) \/ Fail(w)
  BY <1>1, SameStored, DoneWellFormed
  DEF Revoke, UnknownAuthorization, LockTimeout, Fail
<1>2. CASE CloseSession(w)
  <2>1. pc' = [pc EXCEPT ![w] = "idle"] /\ job' = [job EXCEPT ![w] = job[w]]
    BY <1>2 DEF CloseSession, Goto, Inv, TypeOK
  <2>2. JobWellFormed(w)'
    BY <2>1 DEF Inv, TypeOK, WellFormed, JobWellFormed, Grows
  <2>3. QED
    BY <1>2, <2>1, <2>2, SameStored, WorkerWellFormed DEF CloseSession
<1>3. QED
  BY <1>1, <1>2, ConfirmWellFormed, AgentWellFormed, ExecuteWellFormed,
     WebhookWellFormed DEF HandlerStep

LEMMA SweepWellFormed ==
  ASSUME Inv, Grows, SweepStep
  PROVE  WellFormed'
<1>1. TypeOK /\ WellFormed
  BY DEF Inv
<1>2. Stored' /\ job' = job /\ \A w \in Workers : pc'[w] = pc[w]
  BY <1>1, SameStored, NoneAssumption
  DEF TypeOK, SweepStep, SweepSelect, SweepSkip, SweepBegin, SweepCommit, SweepAbort,
      NextCandidate, Goto
<1>3. \A w \in Workers : JobWellFormed(w)'
  BY <1>1, <1>2, OtherWellFormed DEF WellFormed
<1>4. pc'[Sweeper] \in {"idle", "lock", "commit"}
  BY <1>1
  DEF TypeOK, SweepStep, SweepSelect, SweepSkip, SweepBegin, SweepCommit, SweepAbort,
      NextCandidate, Goto
<1>5. \A o \in batch' : HasRow(o)
  BY <1>1
  DEF WellFormed, SweepStep, SweepSelect, SweepSkip, SweepBegin, SweepCommit,
      SweepAbort, NextCandidate, Candidates, Unconfirmed, Created
<1>6. QED
  BY <1>2, <1>3, <1>4, <1>5 DEF WellFormed, Stored, Grows

LEMMA WellFormedStep == Inv /\ [Next]_vars => WellFormed'
<1> SUFFICES ASSUME Inv, [Next]_vars
             PROVE  WellFormed'
  OBVIOUS
<1>1. Grows /\ TypeOK /\ WellFormed
  BY StepGrows DEF Inv
<1>2. CASE UNCHANGED <<pc, job, batch, requests, decisions, latest>>
  <2>1. \A w \in Workers : JobWellFormed(w)'
    BY <1>1, <1>2, OtherWellFormed DEF WellFormed
  <2>2. QED
    BY <1>1, <1>2, <2>1 DEF WellFormed, Grows
<1>3. CASE ProviderStep
  BY <1>1, <1>2, <1>3, ReceiveWellFormed DEF ProviderStep, CustomerPays
<1>4. CASE TimeStep \/ Quiet \/ UNCHANGED vars
  BY <1>2, <1>4 DEF TimeStep, Expire, PassTimeout, Quiet, vars
<1>5. CASE Crash
  <2>1. \A w \in Workers : JobWellFormed(w)'
    BY <1>5 DEF Crash, JobWellFormed, NoJob
  <2>2. QED
    BY <1>5, <2>1, SameStored DEF Crash, WellFormed, Stored
<1>6. QED
  BY <1>1, <1>3, <1>4, <1>5, ClientWellFormed, HandlerWellFormed, SweepWellFormed DEF Next

-----------------------------------------------------------------------------
(* Check and use *)

\* What the reads of an open transaction depend on.
readVars == <<signed, revoked, used, requests, decisions, latest, payment, seen,
              paymentEvents, orders>>

\* A worker changes none of it while another process has a transaction open.
LEMMA Excluded ==
  ASSUME Inv, NEW w \in Workers, HandlerStep(w) \/ Fail(w) \/ CloseSession(w),
         NEW p \in Procs, p # w, pc[p] \in {"commit", "provider", "record"}
  PROVE  UNCHANGED readVars
<1>1. lock = p /\ lock # None
  BY NoneAssumption DEF Inv, LockDiscipline
<1>2. pc[w] \notin {"commit", "provider", "record", "closing"}
  BY <1>1 DEF Inv, LockDiscipline
<1>3. CASE ConfirmStep(w) \/ AgentStep(w) \/ Revoke(w)
  BY <1>1, <1>2, <1>3
  DEF ConfirmStep, ConfirmInsert, ConfirmTail, ConfirmAppend, AgentStep, AgentReject,
      AgentEvaluate, AgentCommit, Revoke, Acquire, readVars
<1>4. CASE ExecuteStep(w) \/ WebhookStep(w)
  BY <1>1, <1>2, <1>4
  DEF ExecuteStep, ExecuteReturnEarly, ExecuteBegin, CreateOrder, ExecuteCommit,
      WebhookStep, WebhookDuplicate, WebhookBegin, WebhookCommit, Acquire, readVars
<1>5. CASE UnknownAuthorization(w) \/ LockTimeout(w) \/ Fail(w) \/ CloseSession(w)
  BY <1>5 DEF UnknownAuthorization, LockTimeout, Fail, CloseSession, readVars
<1>6. QED
  BY <1>3, <1>4, <1>5 DEF HandlerStep

LEMMA SweepExcluded ==
  ASSUME Inv, SweepStep, NEW w \in Workers, pc[w] \in {"commit", "provider", "record"}
  PROVE  UNCHANGED readVars
<1>1. lock = w /\ lock # None
  BY NoneAssumption DEF Inv, LockDiscipline
<1>2. pc[Sweeper] # "commit"
  BY <1>1, NoneAssumption DEF Inv, LockDiscipline
<1>3. QED
  BY <1>1, <1>2
  DEF SweepStep, SweepSelect, SweepSkip, SweepBegin, SweepCommit, SweepAbort, readVars

LEMMA SameWorkerReads ==
  ASSUME Inv, NEW v \in Workers, pc'[v] = pc[v], job'[v] = job[v],
         pc[v] \in {"commit", "provider", "record"} => UNCHANGED readVars
  PROVE  WorkerReads(v)'
<1>1. WorkerReads(v)
  BY DEF Inv, ReadsStillTrue
<1>2. CASE pc[v] \in {"commit", "provider", "record"}
  BY <1>1, <1>2 DEF WorkerReads, Payable, LatestDecision, RecordedOrder, readVars
<1>3. CASE pc[v] \notin {"commit", "provider", "record"}
  BY <1>3 DEF WorkerReads
<1>4. QED
  BY <1>2, <1>3

LEMMA SameSweepReads ==
  ASSUME Inv, pc'[Sweeper] = pc[Sweeper], batch' = batch,
         pc[Sweeper] = "commit" => UNCHANGED readVars
  PROVE  SweepReads'
  BY DEF Inv, ReadsStillTrue, SweepReads, IsNext, Unconfirmed, Created, HasRow, readVars

LEMMA OwnReads ==
  ASSUME Inv, NEW w \in Workers, HandlerStep(w) \/ Fail(w) \/ CloseSession(w)
  PROVE  WorkerReads(w)'
<1>1. TypeOK /\ JobWellFormed(w) /\ WorkerReads(w) /\ pc \in [Procs -> PCs]
      /\ job \in [Procs -> Job] /\ job[w] \in Job
  BY DEF Inv, TypeOK, WellFormed, ReadsStillTrue
<1>2. CASE pc'[w] \notin {"commit", "provider", "record"}
  BY <1>2 DEF WorkerReads
<1>3. CASE AgentEvaluate(w)
  <2> DEFINE a == job[w].auth
             n == job[w].nonce
             v == Evaluate(a, n, job[w].cart)
             f == (requests[a][n] = None)
             u == used[a]
             j == [job[w] EXCEPT !.verdict = v, !.fresh = f, !.used = u]
  <2>1. a \in Auths /\ job[w].cart \in Carts
    BY <1>1, <1>3 DEF AgentEvaluate, JobWellFormed
  <2>2. v = "ALLOW" => /\ a \notin revoked
                       /\ f
                       /\ u < MaxTx[a]
                       /\ CartVerdict[job[w].cart] = "ALLOW"
    BY <1>1, <2>1, ConstantsAssumption DEF Evaluate, TypeOK
  <2>3. pc'[w] = "commit" /\ job'[w] = j
    BY <1>1, <1>3 DEF AgentEvaluate, Goto
  <2>4. UNCHANGED readVars
    BY <1>3 DEF AgentEvaluate, readVars
  <2>5. /\ j.auth = a /\ j.nonce = n /\ j.cart = job[w].cart /\ j.op = "agent"
        /\ j.verdict = v /\ j.fresh = f /\ j.used = u
    BY <1>1, <1>3 DEF AgentEvaluate, Job
  <2>6. u = used[a] /\ (f <=> requests[a][n] = None)
    OBVIOUS
  <2> HIDE DEF j, v, f, u
  <2>7. QED
    BY <2>2, <2>3, <2>4, <2>5, <2>6 DEF WorkerReads, readVars
<1>4. CASE WebhookBegin(w)
  <2>1. pc'[w] = "commit" /\ job'[w] = job[w] /\ job[w].op = "webhook"
    BY <1>1, <1>4 DEF WebhookBegin, Goto
  <2>2. job[w].pid \notin seen /\ seen' = seen
    BY <1>4 DEF WebhookBegin
  <2>3. QED
    BY <2>1, <2>2 DEF WorkerReads
<1>5. CASE ExecuteBegin(w)
  <2> DEFINE c == requests[job[w].auth][job[w].nonce]
             d == latest[job[w].auth][job[w].nonce]
             j == [job[w] EXCEPT !.cart = c, !.dec = d]
  <2>1. pc'[w] = "provider" /\ job'[w] = j
    BY <1>1, <1>5 DEF ExecuteBegin, Goto
  <2>2. UNCHANGED readVars
    BY <1>5 DEF ExecuteBegin, readVars
  <2>3. /\ j.auth = job[w].auth /\ j.nonce = job[w].nonce /\ j.cart = c /\ j.dec = d
    BY <1>1 DEF Job
  <2>4. Payable(job[w].auth, job[w].nonce) /\ ~RecordedOrder(job[w].auth, job[w].nonce)
    BY <1>5 DEF ExecuteBegin
  <2> HIDE DEF j
  <2>5. QED
    BY <2>1, <2>2, <2>3, <2>4 DEF WorkerReads, Payable, LatestDecision, RecordedOrder, readVars
<1>6. CASE CreateOrder(w)
  <2> DEFINE k == Len(orders) + 1
             j == [job[w] EXCEPT !.order = k]
  <2>1. pc'[w] = "record" /\ job'[w] = j /\ pc[w] = "provider"
    BY <1>1, <1>6 DEF CreateOrder, Goto
  <2>2. orders'[k].amount = Total[job[w].cart]
    <3>1. /\ orders \in Seq(Order)
          /\ orders' = Append(orders, [receipt |-> job[w].auth,
                                       amount |-> Total[job[w].cart]])
      BY <1>1, <1>6 DEF CreateOrder, TypeOK
    <3>2. orders'[k] = [receipt |-> job[w].auth, amount |-> Total[job[w].cart]]
      BY <3>1
    <3>3. QED
      BY <3>2
  <2>3. UNCHANGED <<signed, revoked, requests, decisions, latest, payment>>
    BY <1>6 DEF CreateOrder
  <2>4. /\ j.auth = job[w].auth /\ j.nonce = job[w].nonce /\ j.cart = job[w].cart
        /\ j.dec = job[w].dec /\ j.order = k
    BY <1>1 DEF Job
  <2> HIDE DEF j, k
  <2>5. QED
    BY <1>1, <2>1, <2>2, <2>3, <2>4 DEF WorkerReads, Payable, LatestDecision, RecordedOrder
<1>7. QED
  <2>1. \/ pc'[w] \notin {"commit", "provider", "record"}
        \/ AgentEvaluate(w) \/ WebhookBegin(w) \/ ExecuteBegin(w) \/ CreateOrder(w)
    <3>1. CASE ConfirmStep(w)
      BY <1>1, <3>1 DEF ConfirmStep, ConfirmInsert, ConfirmTail, ConfirmAppend, Goto, Return
    <3>2. CASE AgentStep(w) \/ Revoke(w)
      BY <1>1, <3>2 DEF AgentStep, AgentReject, AgentCommit, Revoke, Goto, Return
    <3>3. CASE ExecuteStep(w) \/ WebhookStep(w)
      BY <1>1, <3>3 DEF ExecuteStep, ExecuteReturnEarly, ExecuteCommit, WebhookStep,
                        WebhookDuplicate, WebhookCommit, Goto, Return, Abandon
    <3>4. CASE UnknownAuthorization(w) \/ LockTimeout(w) \/ Fail(w) \/ CloseSession(w)
      BY <1>1, <3>4 DEF UnknownAuthorization, LockTimeout, Fail, CloseSession, Goto,
                        Return, Abandon
    <3>5. QED
      BY <3>1, <3>2, <3>3, <3>4 DEF HandlerStep
  <2>2. QED
    BY <1>2, <1>3, <1>4, <1>5, <1>6, <2>1

\* A handler's step moves no other process.
LEMMA OneMoves ==
  ASSUME Inv, NEW w \in Workers, HandlerStep(w) \/ Fail(w) \/ CloseSession(w)
  PROVE  /\ \A p \in Procs \ {w} : pc'[p] = pc[p] /\ job'[p] = job[p]
         /\ batch' = batch
<1>1. pc \in [Procs -> PCs] /\ job \in [Procs -> Job]
  BY DEF Inv, TypeOK
<1>2. CASE ConfirmStep(w) \/ AgentStep(w) \/ Revoke(w)
  BY <1>1, <1>2
  DEF ConfirmStep, ConfirmInsert, ConfirmTail, ConfirmAppend, AgentStep, AgentReject,
      AgentEvaluate, AgentCommit, Revoke, Goto, Return
<1>3. CASE ExecuteStep(w) \/ WebhookStep(w)
  BY <1>1, <1>3
  DEF ExecuteStep, ExecuteReturnEarly, ExecuteBegin, CreateOrder, ExecuteCommit,
      WebhookStep, WebhookDuplicate, WebhookBegin, WebhookCommit, Goto, Return, Abandon
<1>4. CASE UnknownAuthorization(w) \/ LockTimeout(w) \/ Fail(w) \/ CloseSession(w)
  BY <1>1, <1>4 DEF UnknownAuthorization, LockTimeout, Fail, CloseSession, Goto,
                    Return, Abandon
<1>5. QED
  BY <1>2, <1>3, <1>4 DEF HandlerStep

LEMMA WorkerStepReads ==
  ASSUME Inv, NEW w \in Workers, HandlerStep(w) \/ Fail(w) \/ CloseSession(w)
  PROVE  ReadsStillTrue'
<1>1. /\ \A p \in Procs \ {w} : pc'[p] = pc[p] /\ job'[p] = job[p]
      /\ batch' = batch
  BY OneMoves
<1>2. ASSUME NEW v \in Workers, v # w
      PROVE  WorkerReads(v)'
  BY <1>1, <1>2, Excluded, SameWorkerReads
<1>3. SweepReads'
  <2>1. Sweeper \in Procs \ {w}
    BY NoneAssumption
  <2>2. QED
    BY <1>1, <2>1, Excluded, SameSweepReads
<1>4. QED
  BY <1>2, <1>3, OwnReads DEF ReadsStillTrue

\* Nor does the sweep.
LEMMA SweepMovesNoWorker ==
  ASSUME Inv, SweepStep
  PROVE  job' = job /\ \A w \in Workers : pc'[w] = pc[w]
  BY NoneAssumption
  DEF Inv, TypeOK, SweepStep, SweepSelect, SweepSkip, SweepBegin, SweepCommit, SweepAbort,
      NextCandidate, Goto

LEMMA SweepStepReads ==
  ASSUME Inv, SweepStep
  PROVE  ReadsStillTrue'
<1>1. TypeOK /\ SweepReads
  BY DEF Inv, ReadsStillTrue
<1>2. job' = job /\ \A w \in Workers : pc'[w] = pc[w]
  BY SweepMovesNoWorker
<1>3. \A w \in Workers : WorkerReads(w)'
  BY <1>2, SweepExcluded, SameWorkerReads
<1>4. ASSUME NEW o \in Orders, SweepBegin(o)
      PROVE  SweepReads'
  <2>1. \A q \in batch : IsNext(q) => q = o
    BY <1>1, <1>4 DEF SweepBegin, IsNext, TypeOK, Orders
  <2>2. UNCHANGED <<batch, payment, paymentEvents>> /\ Unconfirmed(o)
    BY <1>4 DEF SweepBegin
  <2>3. QED
    BY <2>1, <2>2 DEF SweepReads, IsNext, Unconfirmed, Created, HasRow
<1>5. \/ pc'[Sweeper] # "commit"
      \/ \E o \in Orders : SweepBegin(o)
  BY <1>1
  DEF TypeOK, SweepStep, SweepSelect, SweepSkip, SweepCommit, SweepAbort, NextCandidate,
      Goto
<1>6. SweepReads'
  BY <1>4, <1>5 DEF SweepReads
<1>7. QED
  BY <1>3, <1>6 DEF ReadsStillTrue

LEMMA ReadsStep == Inv /\ [Next]_vars => ReadsStillTrue'
<1> SUFFICES ASSUME Inv, [Next]_vars
             PROVE  ReadsStillTrue'
  OBVIOUS
<1>1. pc \in [Procs -> PCs] /\ job \in [Procs -> Job]
  BY DEF Inv, TypeOK
<1>2. ASSUME NEW w \in Workers, NEW j, NEW l \in {"insert", "lock"},
             pc' = [pc EXCEPT ![w] = l], job' = [job EXCEPT ![w] = j],
             UNCHANGED <<batch, readVars>>
      PROVE  ReadsStillTrue'
  <2>1. WorkerReads(w)'
    BY <1>1, <1>2 DEF WorkerReads
  <2>2. ASSUME NEW v \in Workers, v # w
        PROVE  WorkerReads(v)'
    BY <1>1, <1>2, <2>2, SameWorkerReads
  <2>3. SweepReads'
    BY <1>1, <1>2, NoneAssumption, SameSweepReads
  <2>4. QED
    BY <2>1, <2>2, <2>3 DEF ReadsStillTrue
<1>3. ASSUME UNCHANGED <<pc, job, batch, used, signed, revoked, requests, decisions,
                         latest, payment, seen, paymentEvents, orders>>
      PROVE  ReadsStillTrue'
  BY <1>3, SameWorkerReads, SameSweepReads DEF ReadsStillTrue, readVars
<1>4. CASE ClientStep
  <2>1. ASSUME NEW w \in Workers, NEW j, NEW l \in {"insert", "lock"}, Submit(w, j, l)
        PROVE  ReadsStillTrue'
    <3>1. /\ pc' = [pc EXCEPT ![w] = l] /\ job' = [job EXCEPT ![w] = j]
          /\ UNCHANGED <<batch, readVars>>
      BY <2>1 DEF Submit, Goto, readVars
    <3>2. QED
      BY <1>2, <3>1
  <2>2. PICK w \in Workers, a \in Auths :
          \/ SubmitConfirm(w, a) \/ SubmitRevoke(w, a)
          \/ \E n \in Nonces : \/ SubmitExecute(w, a, n)
                               \/ \E c \in Carts : SubmitAgent(w, a, n, c)
    BY <1>4 DEF ClientStep
  <2>3. CASE SubmitConfirm(w, a)
    BY <2>1, <2>3 DEF SubmitConfirm
  <2>4. CASE SubmitRevoke(w, a)
    BY <2>1, <2>4 DEF SubmitRevoke
  <2>5. CASE \E n \in Nonces : SubmitExecute(w, a, n)
    BY <2>1, <2>5 DEF SubmitExecute
  <2>6. CASE \E n \in Nonces, c \in Carts : SubmitAgent(w, a, n, c)
    BY <2>1, <2>6 DEF SubmitAgent
  <2>7. QED
    BY <2>2, <2>3, <2>4, <2>5, <2>6
<1>5. CASE ProviderStep
  BY <1>2, <1>3, <1>5 DEF ProviderStep, WebhookReceive, CustomerPays, Goto, readVars
<1>6. CASE TimeStep \/ Quiet \/ UNCHANGED vars
  BY <1>3, <1>6 DEF TimeStep, Expire, PassTimeout, Quiet, vars
<1>7. CASE Crash
  BY <1>7 DEF Crash, ReadsStillTrue, WorkerReads, SweepReads
<1>8. QED
  BY <1>4, <1>5, <1>6, <1>7, WorkerStepReads, SweepStepReads DEF Next

-----------------------------------------------------------------------------
(* The theorems *)

LEMMA InitInv == Init => Inv
<1>1. Init => TypeOK
  BY InitTypeOK
<1>2. Init => WellFormed /\ LockDiscipline /\ ReadsStillTrue
  BY NoneAssumption
  DEF Init, WellFormed, JobWellFormed, NoJob, LockDiscipline, ReadsStillTrue,
      WorkerReads, SweepReads
<1>3. QED
  BY <1>1, <1>2 DEF Inv

\* The inductive invariant holds in every state.
THEOREM Invariance == Spec => []Inv
<1>1. Inv /\ [Next]_vars => Inv'
  BY TypeStep, WellFormedStep, LockStep, ReadsStep DEF Inv
<1>2. QED
  BY <1>1, InitInv, PTL DEF Spec

\* Every variable keeps its type.
THEOREM TypeCorrect == Spec => []TypeOK
<1>1. Inv => TypeOK
  BY DEF Inv
<1>2. QED
  BY <1>1, Invariance, PTL

\* At most one process has a transaction open, and it holds the write lock.
THEOREM MutualExclusion == Spec => []LockDiscipline
<1>1. Inv => LockDiscipline
  BY DEF Inv
<1>2. QED
  BY <1>1, Invariance, PTL

\* No handler acts on a check that has become false since it was made.
THEOREM ChecksHoldAtUse == Spec => []ReadsStillTrue
<1>1. Inv => ReadsStillTrue
  BY DEF Inv
<1>2. QED
  BY <1>1, Invariance, PTL

\* After a revocation is committed, no order is created for the mandate.
THEOREM RevocationIsFinal == Spec => NoOrderAfterRevocation
<1>1. ASSUME Inv, [Next]_vars
      PROVE  [\A i \in 1..Len(orders') :
                i > Len(orders) => orders'[i].receipt \notin revoked]_vars
  <2>1. orders \in Seq(Order) /\ Len(orders) \in Nat
    BY <1>1 DEF Inv, TypeOK
  <2>2. ASSUME NEW w \in Workers, CreateOrder(w)
        PROVE  \A i \in 1..Len(orders') :
                 i > Len(orders) => orders'[i].receipt \notin revoked
    <3>1. orders' = Append(orders, [receipt |-> job[w].auth,
                                    amount |-> Total[job[w].cart]])
      BY <2>2 DEF CreateOrder
    <3>2. /\ Len(orders') = Len(orders) + 1
          /\ orders'[Len(orders')] = [receipt |-> job[w].auth,
                                      amount |-> Total[job[w].cart]]
      BY <2>1, <3>1
    <3>3. job[w].auth \notin revoked
      BY <1>1, <2>2 DEF CreateOrder, Inv, ReadsStillTrue, WorkerReads, Payable
    <3>4. QED
      BY <2>1, <3>2, <3>3
  <2>3. orders' = orders \/ \E w \in Workers : CreateOrder(w)
    <3>1. CASE ClientStep \/ ProviderStep \/ TimeStep
      BY <3>1
      DEF ClientStep, SubmitConfirm, SubmitRevoke, SubmitExecute, SubmitAgent, Submit,
          ProviderStep, WebhookReceive, CustomerPays, TimeStep, Expire, PassTimeout
    <3>2. CASE SweepStep \/ Crash \/ Quiet \/ UNCHANGED vars
      BY <3>2
      DEF SweepStep, SweepSelect, SweepSkip, SweepBegin, SweepCommit, SweepAbort, Crash,
          Quiet, vars
    <3>3. ASSUME NEW w \in Workers, HandlerStep(w) \/ Fail(w) \/ CloseSession(w)
          PROVE  orders' = orders \/ CreateOrder(w)
      <4>1. CASE ConfirmStep(w) \/ AgentStep(w) \/ Revoke(w)
        BY <4>1
        DEF ConfirmStep, ConfirmInsert, ConfirmTail, ConfirmAppend, AgentStep,
            AgentReject, AgentEvaluate, AgentCommit, Revoke
      <4>2. CASE ExecuteStep(w) \/ WebhookStep(w)
        BY <4>2
        DEF ExecuteStep, ExecuteReturnEarly, ExecuteBegin, ExecuteCommit, WebhookStep,
            WebhookDuplicate, WebhookBegin, WebhookCommit
      <4>3. CASE UnknownAuthorization(w) \/ LockTimeout(w) \/ Fail(w) \/ CloseSession(w)
        BY <4>3 DEF UnknownAuthorization, LockTimeout, Fail, CloseSession
      <4>4. QED
        BY <3>3, <4>1, <4>2, <4>3 DEF HandlerStep
    <3>4. QED
      BY <1>1, <3>1, <3>2, <3>3 DEF Next
  <2>4. QED
    BY <2>1, <2>2, <2>3
<1>2. QED
  BY <1>1, Invariance, PTL DEF Spec, NoOrderAfterRevocation
=============================================================================

-------------------------- MODULE SettlementProofs --------------------------
(***************************************************************************)
(* Theorems about the settlement of orders in Firewall: the webhook and    *)
(* the sweep, for any number of orders, payments and faults.               *)
(***************************************************************************)
EXTENDS FirewallProofs

USE DEF Procs, dbVars, mandateVars, requestVars, settleVars, providerVars, timeVars,
        external, bounds

(***************************************************************************)
(* What ties rows, events, orders and payments together.  The handler that *)
(* is about to record an order finds no row and no event for it, because   *)
(* the provider's order is new and only its holder of the lock inserts; an *)
(* event is stored only for an order with a row, and for a payment that    *)
(* was made and does not change any more.                                  *)
(***************************************************************************)
RowsBacked ==
    /\ \A o \in Orders : payment[o] # None => o <= Len(orders)
    /\ \A o \in Orders : payment[o] = None => paymentEvents[o] = {}
    /\ \A o \in Orders : \A pid \in paymentEvents[o] : paid[pid] # None

NewOrder(w) == pc[w] = "record" => payment[job[w].order] = None

Backed == RowsBacked /\ (\A w \in Workers : NewOrder(w))

\* The two halves of what a step of the system does to the status of an order.
Forward ==
    \A o \in Recorded :
        /\ Settled(o) => Settled(o)'
        /\ payment[o].status = "STALE" => payment'[o].status # "CREATED"

settlement == <<payment, paymentEvents, orders, paid>>

SettlementAdvances == Backed' /\ SettledByEvents' /\ Forward

-----------------------------------------------------------------------------
(* Steps that leave the settlement alone *)

LEMMA SameSettlement ==
  ASSUME RowsBacked, SettledByEvents, UNCHANGED settlement
  PROVE  RowsBacked' /\ SettledByEvents' /\ Forward
  BY DEF RowsBacked, SettledByEvents, Forward, Recorded, Settled, settlement

\* One process moves, to any place but the recording of an order.
LEMMA Elsewhere ==
  ASSUME Inv, Backed, SettledByEvents, UNCHANGED settlement,
         NEW p \in Procs, NEW l, l # "record", pc' = [pc EXCEPT ![p] = l],
         \A v \in Workers : v # p => job'[v] = job[v]
  PROVE  SettlementAdvances
<1>1. ASSUME NEW v \in Workers
      PROVE  NewOrder(v)'
  <2>1. CASE v = p
    BY <2>1 DEF Inv, TypeOK, NewOrder
  <2>2. CASE v # p
    <3>1. pc'[v] = pc[v] /\ job'[v] = job[v]
      BY <2>2 DEF Inv, TypeOK
    <3>2. QED
      BY <3>1 DEF Backed, NewOrder, settlement
  <2>3. QED
    BY <2>1, <2>2
<1>2. QED
  BY <1>1, SameSettlement DEF Backed, SettlementAdvances

\* A handler that is done.
LEMMA DoneElsewhere ==
  ASSUME Inv, Backed, SettledByEvents, UNCHANGED settlement, NEW w \in Workers,
         Return(w) \/ Abandon(w)
  PROVE  SettlementAdvances
<1>1. \A v \in Workers : v # w => job'[v] = job[v]
  BY DEF Inv, TypeOK, Return, Abandon
<1>2. \E l \in {"idle", "closing"} : pc' = [pc EXCEPT ![w] = l]
  BY DEF Return, Abandon, Goto
<1>3. QED
  BY <1>1, <1>2, Elsewhere

\* A handler that goes on, with or without new locals.
LEMMA OnElsewhere ==
  ASSUME Inv, Backed, SettledByEvents, UNCHANGED settlement, NEW w \in Workers, NEW l,
         l # "record", Goto(w, l), job' = job \/ \E j : job' = [job EXCEPT ![w] = j]
  PROVE  SettlementAdvances
<1>1. \A v \in Workers : v # w => job'[v] = job[v]
  BY DEF Inv, TypeOK
<1>2. QED
  BY <1>1, Elsewhere DEF Goto

LEMMA SubmitSettlement ==
  ASSUME Inv, Backed, SettledByEvents, NEW w \in Workers, NEW j, NEW l \in {"insert", "lock"},
         Submit(w, j, l)
  PROVE  SettlementAdvances
  BY OnElsewhere DEF Submit, settlement

LEMMA ClientSettlement ==
  ASSUME Inv, Backed, SettledByEvents, ClientStep
  PROVE  SettlementAdvances
  BY SubmitSettlement
  DEF ClientStep, SubmitConfirm, SubmitRevoke, SubmitExecute, SubmitAgent
LEMMA ConfirmSettlement ==
  ASSUME Inv, Backed, SettledByEvents, NEW w \in Workers, ConfirmStep(w)
  PROVE  SettlementAdvances
<1>1. UNCHANGED settlement
  BY DEF ConfirmStep, ConfirmInsert, ConfirmTail, ConfirmAppend, settlement
<1>2. CASE Return(w)
  BY <1>1, <1>2, DoneElsewhere
<1>3. CASE Goto(w, "tail") /\ job' = job
  BY <1>1, <1>3, OnElsewhere
<1>4. CASE ConfirmTail(w)
  <2>1. Goto(w, "append") /\ \E j : job' = [job EXCEPT ![w] = j]
    BY <1>4 DEF ConfirmTail, Inv, TypeOK
  <2>2. QED
    BY <1>1, <2>1, OnElsewhere
<1>5. QED
  BY <1>2, <1>3, <1>4 DEF ConfirmStep, ConfirmInsert, ConfirmAppend

LEMMA AgentSettlement ==
  ASSUME Inv, Backed, SettledByEvents, NEW w \in Workers, AgentStep(w) \/ Revoke(w)
  PROVE  SettlementAdvances
<1>1. UNCHANGED settlement
  BY DEF AgentStep, AgentReject, AgentEvaluate, AgentCommit, Revoke, settlement
<1>2. CASE Return(w)
  BY <1>1, <1>2, DoneElsewhere
<1>3. CASE AgentEvaluate(w)
  <2>1. Goto(w, "commit") /\ \E j : job' = [job EXCEPT ![w] = j]
    BY <1>3 DEF AgentEvaluate, Inv, TypeOK
  <2>2. QED
    BY <1>1, <2>1, OnElsewhere
<1>4. QED
  BY <1>2, <1>3 DEF AgentStep, AgentReject, AgentCommit, Revoke

\* Early returns, waits that end, failures, sessions that close.
LEMMA QuietSettlement ==
  ASSUME Inv, Backed, SettledByEvents, NEW w \in Workers,
         \/ ExecuteReturnEarly(w) \/ ExecuteBegin(w) \/ WebhookDuplicate(w)
         \/ WebhookBegin(w) \/ UnknownAuthorization(w) \/ LockTimeout(w)
         \/ Fail(w) \/ CloseSession(w)
  PROVE  SettlementAdvances
<1>1. UNCHANGED settlement
  BY DEF ExecuteReturnEarly, ExecuteBegin, WebhookDuplicate, WebhookBegin,
         UnknownAuthorization, LockTimeout, Fail, CloseSession, settlement
<1>2. CASE Return(w) \/ Abandon(w)
  BY <1>1, <1>2, DoneElsewhere
<1>3. CASE ExecuteBegin(w)
  <2>1. Goto(w, "provider") /\ \E j : job' = [job EXCEPT ![w] = j]
    BY <1>3 DEF ExecuteBegin, Inv, TypeOK
  <2>2. QED
    BY <1>1, <2>1, OnElsewhere
<1>4. CASE WebhookBegin(w)
  BY <1>1, <1>4, OnElsewhere DEF WebhookBegin
<1>5. CASE CloseSession(w)
  BY <1>1, <1>5, OnElsewhere DEF CloseSession
<1>6. QED
  BY <1>2, <1>3, <1>4, <1>5
  DEF ExecuteReturnEarly, WebhookDuplicate, UnknownAuthorization, LockTimeout, Fail

-----------------------------------------------------------------------------
(* Orders *)

\* The number of a new order has no row yet.
LEMMA CreateOrderSettlement ==
  ASSUME Inv, Backed, SettledByEvents, NEW w \in Workers, CreateOrder(w)
  PROVE  SettlementAdvances
<1>1. /\ Len(orders) \in Nat /\ Len(orders') = Len(orders) + 1
      /\ Len(orders) + 1 \in Orders
      /\ UNCHANGED <<payment, paymentEvents, paid>>
  BY ConstantsAssumption DEF Inv, TypeOK, CreateOrder, Orders
<1>2. RowsBacked' /\ SettledByEvents' /\ Forward
  BY <1>1
  DEF Backed, RowsBacked, SettledByEvents, Forward, Recorded, Settled, Orders
<1>3. job'[w].order = Len(orders) + 1 /\ \A v \in Workers : v # w => job'[v] = job[v]
  BY DEF Inv, TypeOK, CreateOrder, Job
<1>4. payment[Len(orders) + 1] = None
  BY <1>1 DEF Backed, RowsBacked
<1>5. ASSUME NEW v \in Workers
      PROVE  NewOrder(v)'
  <2>1. CASE v = w
    BY <1>1, <1>3, <1>4, <2>1 DEF NewOrder
  <2>2. CASE v # w
    <3>1. pc'[v] = pc[v] /\ job'[v] = job[v]
      BY <1>3, <2>2 DEF Inv, TypeOK, CreateOrder, Goto
    <3>2. QED
      BY <1>1, <3>1 DEF Backed, NewOrder
  <2>3. QED
    BY <2>1, <2>2
<1>6. QED
  BY <1>2, <1>5 DEF SettlementAdvances, Backed

\* The row is inserted under the lock, so nobody else is about to insert one.
LEMMA ExecuteCommitSettlement ==
  ASSUME Inv, Backed, SettledByEvents, NEW w \in Workers, ExecuteCommit(w)
  PROVE  SettlementAdvances
<1> DEFINE o == job[w].order
           row == NewRow(job[w])
<1>1. pc[w] = "record" /\ payment[o] = None /\ o \in 1..Len(orders)
  BY DEF ExecuteCommit, Backed, NewOrder, Inv, WellFormed, JobWellFormed
<1>2. o \in Orders /\ paymentEvents[o] = {} /\ Len(orders) \in Nat
  BY <1>1, ConstantsAssumption DEF Inv, TypeOK, Orders, Backed, RowsBacked
<1>3. /\ payment' = [payment EXCEPT ![o] = row]
      /\ UNCHANGED <<paymentEvents, orders, paid>>
  BY NewRowType DEF ExecuteCommit
<1>4. row \in Row
  BY NewRowType
<1>5. row # None /\ row.status = "CREATED"
  <2>1. row.status = "CREATED"
    BY DEF NewRow
  <2> HIDE DEF row
  <2>2. QED
    BY <1>4, <2>1, NoneAssumption
<1> HIDE DEF row, o
<1>6. payment'[o] = row /\ \A q \in Orders : q # o => payment'[q] = payment[q]
  BY <1>2, <1>3 DEF Inv, TypeOK
<1>7. RowsBacked'
  BY <1>1, <1>2, <1>3, <1>6 DEF Backed, RowsBacked
<1>8. ASSUME NEW q \in Recorded'
      PROVE  /\ Settled(q)' <=> paymentEvents'[q] # {}
             /\ Settled(q)' =>
                  \E p \in paymentEvents'[q] :
                    payment'[q].status = "CAPTURED"
                      <=> paid'[p].amount \in {None, payment'[q].amount}
  <2>1. CASE q = o
    BY <1>2, <1>3, <1>5, <1>6, <2>1 DEF Settled
  <2>2. CASE q # o
    <3>1. q \in Recorded /\ payment'[q] = payment[q]
      BY <1>6, <2>2 DEF Recorded
    <3>2. QED
      BY <1>3, <3>1 DEF SettledByEvents, Settled
  <2>3. QED
    BY <2>1, <2>2
<1>9. Forward
  BY <1>1, <1>6 DEF Forward, Recorded, Settled
<1>10. ASSUME NEW v \in Workers
       PROVE  NewOrder(v)'
  <2>1. pc'[w] = "idle" /\ (v # w => pc'[v] = pc[v] /\ job'[v] = job[v])
    BY DEF Inv, TypeOK, ExecuteCommit, Return, Goto
  <2>2. v # w => pc[v] # "record"
    BY <1>1, NoneAssumption DEF Inv, LockDiscipline
  <2>3. QED
    BY <2>1, <2>2 DEF NewOrder
<1>11. QED
  BY <1>7, <1>8, <1>9, <1>10 DEF SettlementAdvances, Backed, SettledByEvents

-----------------------------------------------------------------------------
(* Settlement *)

\* A payment settles an order that has a row: the status it gives is what its
\* amount says, and every event leaves the order settled.
LEMMA WebhookCommitSettlement ==
  ASSUME Inv, Backed, SettledByEvents, NEW w \in Workers, WebhookCommit(w)
  PROVE  SettlementAdvances
<1> DEFINE o == job[w].order
           pid == job[w].pid
           mismatch == paid[pid].amount # None /\ paid[pid].amount # payment[o].amount
           status == IF mismatch THEN "AMOUNT_MISMATCH" ELSE "CAPTURED"
<1>1. pid \in PaymentIds /\ paid[pid] # None /\ o \in Orders /\ payment[o] # None
  BY DEF WebhookCommit, Inv, WellFormed, JobWellFormed, HasRow
<1>2. payment[o] \in Row
  BY <1>1 DEF Inv, TypeOK
<1>3. /\ payment' = [payment EXCEPT ![o] = [payment[o] EXCEPT !.status = status]]
      /\ paymentEvents' = [paymentEvents EXCEPT ![o] = paymentEvents[o] \cup {pid}]
      /\ UNCHANGED <<orders, paid>>
  BY <1>1 DEF WebhookCommit, Inv, TypeOK
<1> DEFINE row == [payment[o] EXCEPT !.status = status]
<1>4. row \in Row /\ row.status = status /\ row.amount = payment[o].amount
  BY <1>2 DEF Row, Statuses
<1>5. row # None
  BY <1>4, NoneAssumption
<1>6. status = "CAPTURED" <=> paid[pid].amount \in {None, payment[o].amount}
  OBVIOUS
<1>7. status \in {"CAPTURED", "AMOUNT_MISMATCH"}
  OBVIOUS
<1> HIDE DEF row, status, o, pid
<1>8. payment'[o] = row /\ \A q \in Orders : q # o => payment'[q] = payment[q]
  BY <1>1, <1>3 DEF Inv, TypeOK, row
<1>9. /\ paymentEvents'[o] = paymentEvents[o] \cup {pid}
      /\ \A q \in Orders : q # o => paymentEvents'[q] = paymentEvents[q]
  BY <1>1, <1>3 DEF Inv, TypeOK
<1>10. RowsBacked'
  BY <1>1, <1>3, <1>5, <1>8, <1>9 DEF Backed, RowsBacked
<1>11. ASSUME NEW q \in Recorded'
       PROVE  /\ Settled(q)' <=> paymentEvents'[q] # {}
              /\ Settled(q)' =>
                   \E p \in paymentEvents'[q] :
                     payment'[q].status = "CAPTURED"
                       <=> paid'[p].amount \in {None, payment'[q].amount}
  <2>1. CASE q = o
    <3>1. Settled(q)' /\ paymentEvents'[q] # {}
      BY <1>4, <1>7, <1>8, <1>9, <2>1 DEF Settled
    <3>2. /\ pid \in paymentEvents'[q]
          /\ payment'[q].status = "CAPTURED"
               <=> paid'[pid].amount \in {None, payment'[q].amount}
      BY <1>3, <1>4, <1>6, <1>8, <1>9, <2>1
    <3>3. QED
      BY <3>1, <3>2
  <2>2. CASE q # o
    <3>1. /\ q \in Recorded /\ payment'[q] = payment[q]
          /\ paymentEvents'[q] = paymentEvents[q]
      BY <1>8, <1>9, <2>2 DEF Recorded
    <3>2. QED
      BY <1>3, <3>1 DEF SettledByEvents, Settled
  <2>3. QED
    BY <2>1, <2>2
<1>12. Forward
  BY <1>4, <1>7, <1>8 DEF Forward, Recorded, Settled
<1>13. ASSUME NEW v \in Workers
       PROVE  NewOrder(v)'
  <2>1. pc'[w] = "idle" /\ (v # w => pc'[v] = pc[v] /\ job'[v] = job[v])
    BY DEF Inv, TypeOK, WebhookCommit, Return, Goto
  <2>2. pc[w] = "commit" /\ lock = w
    BY DEF WebhookCommit, Inv, LockDiscipline
  <2>3. v # w => pc[v] # "record"
    BY <2>2 DEF Inv, LockDiscipline
  <2>4. QED
    BY <2>1, <2>3 DEF NewOrder
<1>14. QED
  BY <1>10, <1>11, <1>12, <1>13 DEF SettlementAdvances, Backed, SettledByEvents

\* The sweep only marks an order that is still CREATED and has no event, as it
\* read under the lock it still holds.
LEMMA SweepCommitSettlement ==
  ASSUME Inv, Backed, SettledByEvents, NEW o \in Orders, SweepCommit(o)
  PROVE  SettlementAdvances
<1>1. payment[o] # None /\ payment[o].status = "CREATED" /\ paymentEvents[o] = {}
  BY DEF SweepCommit, IsNext, Inv, ReadsStillTrue, SweepReads, Unconfirmed, Created, HasRow
<1> DEFINE row == [payment[o] EXCEPT !.status = "STALE"]
<1>2. row \in Row /\ row.status = "STALE"
  <2>1. TypeOK /\ HasRow(o) /\ "STALE" \in Statuses
    BY <1>1 DEF Inv, HasRow, Statuses
  <2>2. payment[o] \in Row /\ row \in Row
    BY <2>1, RowType
  <2>3. QED
    BY <2>2 DEF Row
<1>3. row # None
  BY <1>2, NoneAssumption
<1>4. /\ payment' = [payment EXCEPT ![o] = row]
      /\ UNCHANGED <<paymentEvents, orders, paid, job>>
  BY DEF SweepCommit, Inv, TypeOK
<1> HIDE DEF row
<1>5. payment'[o] = row /\ \A q \in Orders : q # o => payment'[q] = payment[q]
  BY <1>4 DEF Inv, TypeOK
<1>6. RowsBacked'
  BY <1>1, <1>3, <1>4, <1>5 DEF Backed, RowsBacked
<1>7. ASSUME NEW q \in Recorded'
      PROVE  /\ Settled(q)' <=> paymentEvents'[q] # {}
             /\ Settled(q)' =>
                  \E p \in paymentEvents'[q] :
                    payment'[q].status = "CAPTURED"
                      <=> paid'[p].amount \in {None, payment'[q].amount}
  <2>1. CASE q = o
    BY <1>1, <1>2, <1>4, <1>5, <2>1 DEF Settled
  <2>2. CASE q # o
    <3>1. q \in Recorded /\ payment'[q] = payment[q]
      BY <1>5, <2>2 DEF Recorded
    <3>2. QED
      BY <1>4, <3>1 DEF SettledByEvents, Settled
  <2>3. QED
    BY <2>1, <2>2
<1>8. Forward
  BY <1>1, <1>2, <1>5 DEF Forward, Recorded, Settled
<1>9. ASSUME NEW v \in Workers
      PROVE  NewOrder(v)'
  <2>1. pc[Sweeper] = "commit" /\ lock = Sweeper
    BY DEF SweepCommit, Inv, LockDiscipline
  <2>2. pc[v] # "record" /\ pc'[v] = pc[v]
    BY <2>1, NoneAssumption DEF Inv, TypeOK, LockDiscipline, SweepCommit, NextCandidate, Goto
  <2>3. QED
    BY <2>2 DEF NewOrder
<1>10. QED
  BY <1>6, <1>7, <1>8, <1>9 DEF SettlementAdvances, Backed, SettledByEvents

LEMMA SweepSettlement ==
  ASSUME Inv, Backed, SettledByEvents, SweepStep
  PROVE  SettlementAdvances
<1>1. ASSUME NEW l, l # "record", Goto(Sweeper, l), UNCHANGED settlement, job' = job
      PROVE  SettlementAdvances
  BY <1>1, Elsewhere DEF Goto
<1>2. CASE SweepSelect \/ SweepAbort \/ \E o \in Orders : SweepBegin(o)
  BY <1>1, <1>2 DEF SweepSelect, SweepAbort, SweepBegin, settlement
<1>3. ASSUME NEW o \in Orders, SweepSkip(o)
      PROVE  SettlementAdvances
  <2>1. \E l \in {"idle", "lock"} : Goto(Sweeper, l)
    BY <1>3 DEF SweepSkip, NextCandidate
  <2>2. QED
    BY <1>1, <1>3, <2>1 DEF SweepSkip, settlement
<1>4. QED
  BY <1>2, <1>3, SweepCommitSettlement DEF SweepStep

\* Payments, deliveries, time and restarts.
LEMMA EnvironmentSettlement ==
  ASSUME Inv, Backed, SettledByEvents, ProviderStep \/ TimeStep \/ Crash \/ UNCHANGED vars
  PROVE  SettlementAdvances
<1>1. ASSUME NEW w \in Workers, NEW pid \in PaymentIds, WebhookReceive(w, pid)
      PROVE  SettlementAdvances
  BY <1>1, OnElsewhere DEF WebhookReceive, settlement
<1>2. ASSUME NEW pid \in PaymentIds, NEW o \in Orders, NEW amount \in Amounts,
             CustomerPays(pid, o, amount)
      PROVE  SettlementAdvances
  <2>1. /\ paid[pid] = None
        /\ paid' = [paid EXCEPT ![pid] = [order |-> o, amount |-> amount]]
        /\ UNCHANGED <<payment, paymentEvents, orders, pc, job>>
    BY <1>2 DEF CustomerPays
  <2>2. \A p \in PaymentIds : paid[p] # None => paid'[p] = paid[p]
    BY <2>1 DEF Inv, TypeOK
  <2>3. \A q \in Orders : \A p \in paymentEvents[q] : p \in PaymentIds /\ paid[p] # None
    BY DEF Inv, TypeOK, Backed, RowsBacked
  <2>4. Backed' /\ Forward
    BY <2>1, <2>2, <2>3 DEF Backed, RowsBacked, NewOrder, Forward, Recorded, Settled
  <2>5. ASSUME NEW q \in Recorded, NEW p \in paymentEvents[q]
        PROVE  paid'[p] = paid[p]
    BY <2>2, <2>3, <2>5 DEF Recorded
  <2>6. SettledByEvents'
    BY <2>1, <2>5 DEF SettledByEvents, Recorded, Settled
  <2>7. QED
    BY <2>4, <2>6 DEF SettlementAdvances
<1>3. CASE TimeStep \/ UNCHANGED vars
  <2>1. UNCHANGED settlement /\ UNCHANGED <<pc, job>>
    BY <1>3 DEF TimeStep, Expire, PassTimeout, vars, settlement
  <2>2. QED
    BY <2>1, SameSettlement DEF Backed, NewOrder, SettlementAdvances, settlement
<1>4. CASE Crash
  <2>1. UNCHANGED settlement /\ \A v \in Workers : pc'[v] = "idle"
    BY <1>4 DEF Crash, settlement
  <2>2. QED
    BY <2>1, SameSettlement DEF Backed, NewOrder, SettlementAdvances
<1>5. QED
  BY <1>1, <1>2, <1>3, <1>4 DEF ProviderStep

LEMMA SettlementStep ==
  ASSUME Inv, Backed, SettledByEvents, [Next]_vars
  PROVE  SettlementAdvances
  BY ClientSettlement, ConfirmSettlement, AgentSettlement, QuietSettlement,
     CreateOrderSettlement, ExecuteCommitSettlement, WebhookCommitSettlement,
     SweepSettlement, EnvironmentSettlement
  DEF Next, HandlerStep, ExecuteStep, WebhookStep, Quiet

-----------------------------------------------------------------------------
(* Theorems *)

\* What lies under the two settlement theorems: every row of /execute stands on an
\* order of the provider, and every settled row on a webhook event, always.
THEOREM SettlementInvariance == Spec => [](Backed /\ SettledByEvents)
<1>1. Init => Backed /\ SettledByEvents
  BY DEF Init, Backed, RowsBacked, NewOrder, SettledByEvents, Recorded
<1>2. Inv /\ Backed /\ SettledByEvents /\ [Next]_vars => (Backed /\ SettledByEvents)'
  BY SettlementStep DEF SettlementAdvances
<1>3. QED
  BY <1>1, <1>2, Invariance, PTL DEF Spec

\* An order is settled exactly when a payment event is stored for it, and one of its
\* payments decides between captured and mismatch by its amount.
THEOREM SettlementMatchesEvents == Spec => []SettledByEvents
  BY SettlementInvariance, PTL

\* Whatever the sweep read before a webhook committed, it never takes a settled
\* order back, and no order returns to CREATED.
THEOREM SettlementIsFinal == Spec => SettledForGood
<1>1. Inv /\ (Backed /\ SettledByEvents) /\ [Next]_vars =>
        [\A o \in Recorded :
           /\ Settled(o) => Settled(o)'
           /\ payment[o].status = "STALE" => payment'[o].status # "CREATED"]_vars
  BY SettlementStep DEF SettlementAdvances, Forward
<1>2. QED
  BY <1>1, SettlementInvariance, Invariance, PTL DEF Spec, SettledForGood
=============================================================================

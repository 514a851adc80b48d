------------------------------ MODULE Firewall ------------------------------
(***************************************************************************)
(* The authorization firewall: request handlers of the HTTP API, the       *)
(* payment webhook and the stale-payment sweep, all working on one SQLite  *)
(* database and one external payment provider.                             *)
(*                                                                         *)
(* Every database transaction of the code is split where another process   *)
(* can run: the moment it takes the write lock and reads (Begin), external *)
(* calls, and the commit.  Rows are written at the commit, because that is *)
(* when other connections see them.                                        *)
(*                                                                         *)
(* A decision's created_at is a reading of a clock that may be set back;   *)
(* payments and events are ordered by commit here, which EvidenceLog drops *)
(* for events.                                                             *)
(*                                                                         *)
(* A definition marked "Fault" is a plausible mistake in the code that the *)
(* definition after it models: no behaviour uses it, and a property is     *)
(* shown to notice it.                                                     *)
(***************************************************************************)
EXTENDS Integers, Sequences, FiniteSets

CONSTANTS
    Auths,        \* authorization ids
    ChosenIds,    \* the ids a client of /confirm put in its mandate
    Nonces,       \* nonces of agent requests
    Carts,        \* carts an agent may submit
    Total,        \* cart |-> its total, in the smallest currency unit
    CartVerdict,  \* cart |-> what evaluate_policy says of it on a fresh mandate
    MaxTx,        \* authorization |-> execution_scope.max_transactions
    Workers,      \* request slots: one HTTP request in progress each
    Sweeper,      \* the cleanup thread
    PaymentIds,   \* payments customers make at the provider
    Amounts,      \* amounts a payment event may carry; None: no amount field
    MaxOrders,    \* bound: orders the provider can create
    BatchSize,    \* payment cleanup batch size
    MaxRequests,  \* bound: client requests
    MaxFaults,    \* bound: crashes and failed handlers
    None          \* absence of a row, a holder, a value

Verdicts == {"ALLOW", "BLOCK", "RECONSENT"}
Statuses == {"CREATED", "STALE", "CAPTURED", "AMOUNT_MISMATCH"}
EventTypes == {"MANDATE_SIGNED", "MANDATE_REVOKED", "AGENT_REQUEST_REJECTED",
               "AGENT_REQUEST_RECEIVED", "REPLAY_ATTEMPT_BLOCKED",
               "POLICY_EVALUATED", "ORDER_CREATED", "PAYMENT_CAPTURED",
               "PAYMENT_AMOUNT_MISMATCH", "PAYMENT_STALE"}
Orders == 1..MaxOrders
Procs == Workers \cup {Sweeper}

Row == [auth: Auths, nonce: Nonces, dec: Nat, amount: Nat, status: Statuses]
Order == [receipt: Auths, amount: Nat]
Payment == [order: Orders, amount: Amounts]
Event == [type: EventTypes, prev: Nat]
Job == [op: {"none", "confirm", "agent", "revoke", "execute", "webhook", "sweep"},
        auth: Auths \cup {None}, nonce: Nonces \cup {None},
        cart: Carts \cup {None}, fresh: BOOLEAN,
        verdict: Verdicts \cup {"none"},
        used: Nat, tail: Nat, dec: Nat, order: Nat,
        pid: PaymentIds \cup {None}]
PCs == {"idle", "insert", "tail", "append", "lock", "commit", "provider",
        "record", "closing"}

ASSUME ConstantsAssumption ==
    /\ ChosenIds \subseteq Auths
    /\ Total \in [Carts -> Nat]
    /\ CartVerdict \in [Carts -> Verdicts]
    /\ MaxTx \in [Auths -> Nat]
    /\ Amounts \subseteq Nat \cup {None}
    /\ MaxOrders \in Nat
    /\ BatchSize \in Nat \ {0}
    /\ MaxRequests \in Nat
    /\ MaxFaults \in Nat

ASSUME NoneAssumption ==
    /\ None \notin Procs \cup Auths \cup Nonces \cup Carts \cup PaymentIds
    /\ None \notin Nat
    /\ None \notin Row
    /\ None \notin Payment
    /\ Sweeper \notin Workers

VARIABLES
    signed, revoked, used,     \* authorizations, mandate_revocations, used_count
    announced,                 \* ids a /confirm response returned
    expired,                   \* mandates whose expires_at has passed
    requests,                  \* agent_requests: cart by authorization and nonce
    decisions,                 \* policy_decisions by request, as committed
    latest,                    \* by request, the decision with the last created_at
    evidence,                  \* evidence_events by authorization, oldest first
    payment,                   \* payment_executions by provider order
    overdue,                   \* orders whose row is older than the timeout
    seen, paymentEvents,       \* seen_webhook_events, payment_events by order
    orders, paid,              \* external: the provider's orders and payments
    pc, job,                   \* where each process is, and its local variables
    lock,                      \* holder of the database write lock
    loop,                      \* the webhook handler running on the event loop
    batch,                     \* candidates left in the current sweep
    submitted, faults          \* requests and faults so far (bounds)

mandateVars == <<signed, revoked, used, announced>>
requestVars == <<requests, decisions, latest>>
settleVars == <<seen, paymentEvents>>
providerVars == <<orders, paid>>
timeVars == <<expired, overdue>>
external == <<providerVars, timeVars>>
bounds == <<submitted, faults>>
dbVars == <<mandateVars, requestVars, evidence, payment, settleVars>>
vars == <<mandateVars, requestVars, evidence, payment, settleVars, providerVars,
          timeVars, pc, job, lock, loop, batch, submitted, faults>>

NoJob == [op |-> "none", auth |-> None, nonce |-> None, cart |-> None,
          fresh |-> FALSE, verdict |-> "none", used |-> 0, tail |-> 0,
          dec |-> 0, order |-> 0, pid |-> None]

-----------------------------------------------------------------------------
(* Helpers *)

LatestDecision(a, n) == decisions[a][n][latest[a][n]]

\* The new decision of a request is its latest, unless the clock has been set back.
Dated(a, n) ==
    \E i \in {latest[a][n], Len(decisions[a][n]) + 1} \ {0} :
        latest' = [latest EXCEPT ![a][n] = i]

HasRow(o) == o \in Orders /\ payment[o] # None

\* Fault: a revoked mandate is left without a decision.
EvaluateUndecided(a, n, c) ==
    IF a \in revoked THEN "none"
    ELSE IF a \in expired \/ requests[a][n] # None \/ used[a] >= MaxTx[a] THEN "BLOCK"
    ELSE CartVerdict[c]

\* Fault: the nonce is not looked up.
EvaluateReplays(a, n, c) ==
    IF a \in revoked \cup expired \/ used[a] >= MaxTx[a] THEN "BLOCK" ELSE CartVerdict[c]

\* evaluate_agent_request: revocation first, then the stateful guards of
\* evaluate_policy (expiry, nonce, budget), then the cart's own verdict.
Evaluate(a, n, c) ==
    IF \/ a \in revoked
       \/ a \in expired
       \/ requests[a][n] # None
       \/ used[a] >= MaxTx[a]
    THEN "BLOCK"
    ELSE CartVerdict[c]

\* append_event with the tail the caller read: prev is the position of the
\* event whose chain_hash it links to, 0 for the genesis hash.
Linked(a, type, tail) ==
    evidence' = [evidence EXCEPT ![a] = Append(@, [type |-> type, prev |-> tail])]

\* Fault: /confirm answers before its MANDATE_SIGNED event is committed.
KnownWhenSigned(a) == a \in ChosenIds \cup signed

\* The id is known to clients: they chose it or were told it.
Known(a) == a \in ChosenIds \cup announced

Goto(p, l) == pc' = [pc EXCEPT ![p] = l]

\* A handler returns: its locals disappear.
Return(p) == /\ Goto(p, "idle")
             /\ job' = [job EXCEPT ![p] = NoJob]

LeaveLoop(p) == loop' = IF loop = p THEN None ELSE loop

\* Fault: a plain SELECT in place of the UPDATE, which locks nothing on SQLite.
AcquireNothing(p) == pc[p] = "lock" /\ lock' = p

\* lock_authorization: the no-op UPDATE waits until nobody holds the lock.
Acquire(p) == /\ pc[p] = "lock"
              /\ lock = None
              /\ lock' = p

\* A handler ends without a commit; its session, and the lock, stay open until
\* the event loop runs the exit of get_db.
Abandon(w) == /\ Goto(w, "closing")
              /\ job' = [job EXCEPT ![w] = NoJob]

-----------------------------------------------------------------------------
(* The event loop hands a client request to a worker thread. *)

Submit(w, j, l) ==
    /\ pc[w] = "idle"
    /\ loop = None
    /\ submitted < MaxRequests
    /\ submitted' = submitted + 1
    /\ job' = [job EXCEPT ![w] = j]
    /\ Goto(w, l)
    /\ UNCHANGED <<dbVars, external, lock, loop, batch, faults>>

SubmitConfirm(w, a) ==
    /\ \/ a \in ChosenIds
       \/ a \notin signed /\ \A v \in Workers : job[v].auth # a   \* a new uuid
    /\ Submit(w, [NoJob EXCEPT !.op = "confirm", !.auth = a], "insert")

SubmitAgent(w, a, n, c) ==
    /\ Known(a)
    /\ Submit(w, [NoJob EXCEPT !.op = "agent", !.auth = a, !.nonce = n, !.cart = c],
              "lock")

SubmitRevoke(w, a) ==
    /\ Known(a)
    /\ Submit(w, [NoJob EXCEPT !.op = "revoke", !.auth = a], "lock")

SubmitExecute(w, a, n) ==
    /\ Known(a)
    /\ Submit(w, [NoJob EXCEPT !.op = "execute", !.auth = a, !.nonce = n], "lock")

-----------------------------------------------------------------------------
(* POST /authorization/confirm: two transactions, neither under the         *)
(* authorization lock; the INSERTs still wait for other writers.            *)

ConfirmInsert(w) ==
    /\ pc[w] = "insert"
    /\ lock = None
    /\ IF job[w].auth \in signed
         THEN Return(w) /\ UNCHANGED <<signed, used>>    \* 409
         ELSE /\ signed' = signed \cup {job[w].auth}
              /\ used' = [used EXCEPT ![job[w].auth] = 0]
              /\ Goto(w, "tail")
              /\ UNCHANGED job
    /\ UNCHANGED <<revoked, announced, requestVars, evidence, payment,
                   settleVars, external, lock, loop, batch, bounds>>

ConfirmTail(w) ==
    /\ pc[w] = "tail"
    /\ job' = [job EXCEPT ![w].tail = Len(evidence[job[w].auth])]
    /\ Goto(w, "append")
    /\ UNCHANGED <<dbVars, external, lock, loop, batch, bounds>>

ConfirmAppend(w) ==
    /\ pc[w] = "append"
    /\ lock = None
    /\ Linked(job[w].auth, "MANDATE_SIGNED", job[w].tail)
    /\ announced' = announced \cup {job[w].auth}
    /\ Return(w)
    /\ UNCHANGED <<signed, revoked, used, requestVars, payment, settleVars,
                   external, lock, loop, batch, bounds>>

-----------------------------------------------------------------------------
(* POST /agent/request *)

\* lock_authorization matched no row: 404, with the lock taken all the same.
UnknownAuthorization(w) ==
    /\ Acquire(w)
    /\ job[w].op \in {"agent", "revoke", "execute"}
    /\ job[w].auth \notin signed
    /\ Abandon(w)
    /\ UNCHANGED <<dbVars, external, loop, batch, bounds>>

\* The request's signature, agent id or mandate does not verify: one event, 401.
AgentReject(w) ==
    /\ pc[w] = "lock"
    /\ lock = None
    /\ job[w].op = "agent"
    /\ job[w].auth \in signed
    /\ Linked(job[w].auth, "AGENT_REQUEST_REJECTED", Len(evidence[job[w].auth]))
    /\ Return(w)
    /\ UNCHANGED <<mandateVars, requestVars, payment, settleVars, external,
                   lock, loop, batch, bounds>>

AgentEvaluate(w) ==
    LET a == job[w].auth
        n == job[w].nonce IN
    /\ Acquire(w)
    /\ job[w].op = "agent"
    /\ a \in signed
    /\ job' = [job EXCEPT ![w].verdict = Evaluate(a, n, job[w].cart),
                          ![w].fresh = (requests[a][n] = None),
                          ![w].used = used[a]]
    /\ Goto(w, "commit")
    /\ UNCHANGED <<dbVars, external, loop, batch, bounds>>

\* Fault: a replay overwrites the stored cart.
AgentCommitReplay(w) ==
    LET j == job[w]
        a == j.auth
        n == j.nonce IN
    /\ pc[w] = "commit"
    /\ j.op = "agent"
    /\ requests' = [requests EXCEPT ![a][n] = j.cart]
    /\ decisions' = [decisions EXCEPT ![a][n] = Append(@, j.verdict)]
    /\ Dated(a, n)
    /\ used' = IF j.verdict = "ALLOW" THEN [used EXCEPT ![a] = j.used + 1] ELSE used
    /\ Linked(a, "POLICY_EVALUATED", Len(evidence[a]))
    /\ lock' = None
    /\ Return(w)
    /\ UNCHANGED <<signed, revoked, announced, payment, settleVars, external,
                   loop, batch, bounds>>

\* The request row (unless a replay), the decision, used_count and two linked
\* events in one commit.
AgentCommit(w) ==
    LET j == job[w]
        a == j.auth
        n == j.nonce
        received == IF j.fresh THEN "AGENT_REQUEST_RECEIVED"
                               ELSE "REPLAY_ATTEMPT_BLOCKED" IN
    /\ pc[w] = "commit"
    /\ j.op = "agent"
    /\ requests' = IF j.fresh THEN [requests EXCEPT ![a][n] = j.cart] ELSE requests
    /\ decisions' = [decisions EXCEPT ![a][n] = Append(@, j.verdict)]
    /\ Dated(a, n)
    /\ used' = IF j.verdict = "ALLOW" THEN [used EXCEPT ![a] = j.used + 1] ELSE used
    /\ evidence' = [evidence EXCEPT ![a] =
                      Append(Append(@, [type |-> received, prev |-> Len(@)]),
                             [type |-> "POLICY_EVALUATED", prev |-> Len(@) + 1])]
    /\ lock' = None
    /\ Return(w)
    /\ UNCHANGED <<signed, revoked, announced, payment, settleVars, external,
                   loop, batch, bounds>>

-----------------------------------------------------------------------------
(* POST /authorization/{id}/revoke *)

\* Fault: the revocation does not take the lock.
RevokeUnlocked(w) ==
    LET a == job[w].auth IN
    /\ pc[w] = "lock"
    /\ job[w].op = "revoke"
    /\ a \in signed
    /\ revoked' = revoked \cup {a}
    /\ Return(w)
    /\ UNCHANGED <<signed, used, announced, requestVars, evidence, payment,
                   settleVars, external, lock, loop, batch, bounds>>

\* Fault: revoking again logs again.
RevokeLoggedTwice(w) ==
    LET a == job[w].auth IN
    /\ pc[w] = "lock"
    /\ lock = None
    /\ job[w].op = "revoke"
    /\ a \in signed
    /\ Linked(a, "MANDATE_REVOKED", Len(evidence[a]))
    /\ revoked' = revoked \cup {a}
    /\ Return(w)
    /\ UNCHANGED <<signed, used, announced, requestVars, payment, settleVars,
                   external, lock, loop, batch, bounds>>

\* Revoking twice commits at once and writes nothing.
Revoke(w) ==
    LET a == job[w].auth IN
    /\ pc[w] = "lock"
    /\ lock = None
    /\ job[w].op = "revoke"
    /\ a \in signed
    /\ IF a \in revoked
         THEN UNCHANGED evidence
         ELSE Linked(a, "MANDATE_REVOKED", Len(evidence[a]))
    /\ revoked' = revoked \cup {a}
    /\ Return(w)
    /\ UNCHANGED <<signed, used, announced, requestVars, payment, settleVars,
                   external, lock, loop, batch, bounds>>

-----------------------------------------------------------------------------
(* POST /payment/execute *)

\* Fault: an existing order is not looked up.
NeverRecorded(a, n) == FALSE

\* The row payment_executions holds for the latest decision of a request.
RecordedOrder(a, n) ==
    \E o \in Orders : /\ payment[o] # None
                      /\ payment[o].auth = a
                      /\ payment[o].nonce = n
                      /\ payment[o].dec = latest[a][n]

\* Fault: only the decision is checked, not the revocation.
PayableThoughRevoked(a, n) ==
    a \in signed /\ decisions[a][n] # <<>> /\ LatestDecision(a, n) = "ALLOW"

Payable(a, n) ==
    /\ a \in signed \ revoked
    /\ decisions[a][n] # <<>>
    /\ LatestDecision(a, n) = "ALLOW"

\* 409 revoked, 404 no decision, 409 not ALLOW, or the existing order.
ExecuteReturnEarly(w) ==
    LET a == job[w].auth
        n == job[w].nonce IN
    /\ Acquire(w)
    /\ job[w].op = "execute"
    /\ a \in signed
    /\ Payable(a, n) => RecordedOrder(a, n)
    /\ Abandon(w)
    /\ UNCHANGED <<dbVars, external, loop, batch, bounds>>

ExecuteBegin(w) ==
    LET a == job[w].auth
        n == job[w].nonce IN
    /\ Acquire(w)
    /\ job[w].op = "execute"
    /\ Payable(a, n)
    /\ ~RecordedOrder(a, n)
    /\ job' = [job EXCEPT ![w].cart = requests[a][n],
                          ![w].dec = latest[a][n]]
    /\ Goto(w, "provider")
    /\ UNCHANGED <<dbVars, external, loop, batch, bounds>>

CreateOrder(w) ==
    LET j == job[w] IN
    /\ pc[w] = "provider"
    /\ Len(orders) < MaxOrders
    /\ orders' = Append(orders, [receipt |-> j.auth, amount |-> Total[j.cart]])
    /\ job' = [job EXCEPT ![w].order = Len(orders) + 1]
    /\ Goto(w, "record")
    /\ UNCHANGED <<dbVars, paid, timeVars, lock, loop, batch, bounds>>

ExecuteCommit(w) ==
    LET j == job[w] IN
    /\ pc[w] = "record"
    /\ payment' = [payment EXCEPT ![j.order] =
                     [auth |-> j.auth, nonce |-> j.nonce, dec |-> j.dec,
                      amount |-> orders[j.order].amount, status |-> "CREATED"]]
    /\ Linked(j.auth, "ORDER_CREATED", Len(evidence[j.auth]))
    /\ lock' = None
    /\ Return(w)
    /\ UNCHANGED <<mandateVars, requestVars, settleVars, external, loop,
                   batch, bounds>>

-----------------------------------------------------------------------------
(* POST /webhooks/razorpay: an async handler that never awaits once it has  *)
(* the body, so it holds the event loop until it returns, lock wait         *)
(* included.  A bad signature or an unknown order changes nothing.          *)

\* Fault: only orders still CREATED are looked up.
WebhookReceiveOpen(w, pid) ==
    /\ pc[w] = "idle"
    /\ loop = None
    /\ paid[pid] # None
    /\ HasRow(paid[pid].order)
    /\ payment[paid[pid].order].status = "CREATED"
    /\ loop' = w
    /\ job' = [job EXCEPT ![w] = [NoJob EXCEPT !.op = "webhook", !.pid = pid,
                                              !.order = paid[pid].order]]
    /\ Goto(w, "lock")
    /\ UNCHANGED <<dbVars, external, lock, batch, bounds>>

\* The provider delivers until it is answered 200; a second event for the same
\* payment counts as a request.
WebhookReceive(w, pid) ==
    /\ pc[w] = "idle"
    /\ loop = None
    /\ paid[pid] # None
    /\ HasRow(paid[pid].order)
    /\ IF pid \in seen
         THEN submitted < MaxRequests /\ submitted' = submitted + 1
         ELSE UNCHANGED submitted
    /\ loop' = w
    /\ job' = [job EXCEPT ![w] = [NoJob EXCEPT !.op = "webhook", !.pid = pid,
                                              !.order = paid[pid].order]]
    /\ Goto(w, "lock")
    /\ UNCHANGED <<dbVars, external, lock, batch, faults>>

\* Returned without a commit: the lock outlives the handler.
WebhookDuplicate(w) ==
    /\ Acquire(w)
    /\ job[w].op = "webhook"
    /\ job[w].pid \in seen
    /\ Abandon(w)
    /\ LeaveLoop(w)
    /\ UNCHANGED <<dbVars, external, batch, bounds>>

\* Fault: seen_webhook_events is not consulted.
WebhookBeginAgain(w) ==
    /\ Acquire(w)
    /\ job[w].op = "webhook"
    /\ Goto(w, "commit")
    /\ UNCHANGED <<dbVars, job, external, loop, batch, bounds>>

WebhookBegin(w) ==
    /\ Acquire(w)
    /\ job[w].op = "webhook"
    /\ job[w].pid \notin seen
    /\ Goto(w, "commit")
    /\ UNCHANGED <<dbVars, job, external, loop, batch, bounds>>

WebhookCommit(w) ==
    LET j == job[w]
        o == j.order
        amount == paid[j.pid].amount
        mismatch == amount # None /\ amount # payment[o].amount
        a == payment[o].auth IN
    /\ pc[w] = "commit"
    /\ j.op = "webhook"
    /\ seen' = seen \cup {j.pid}
    /\ paymentEvents' = [paymentEvents EXCEPT ![o] = @ \cup {j.pid}]
    /\ payment' = [payment EXCEPT ![o].status =
                     IF mismatch THEN "AMOUNT_MISMATCH" ELSE "CAPTURED"]
    /\ Linked(a, IF mismatch THEN "PAYMENT_AMOUNT_MISMATCH" ELSE "PAYMENT_CAPTURED",
              Len(evidence[a]))
    /\ lock' = None
    /\ LeaveLoop(w)
    /\ Return(w)
    /\ UNCHANGED <<mandateVars, requestVars, external, batch, bounds>>

-----------------------------------------------------------------------------
(* flag_stale_payments: select a batch, then one transaction per candidate. *)

Created(o) == HasRow(o) /\ payment[o].status = "CREATED"

Unconfirmed(o) == Created(o) /\ paymentEvents[o] = {}

\* Fault: the age comparison is the wrong way round.
CandidatesTooYoung == {o \in Orders \ overdue : Unconfirmed(o)}

Candidates == {o \in overdue : Unconfirmed(o)}

\* Candidates are taken oldest first; orders are numbered as they are created.
IsNext(o) == o \in batch /\ \A q \in batch : o <= q

SweepSelect ==
    /\ pc[Sweeper] = "idle"
    /\ Candidates # {}
    /\ batch' = {o \in Candidates :
                    Cardinality({q \in Candidates : q < o}) < BatchSize}
    /\ Goto(Sweeper, "lock")
    /\ UNCHANGED <<dbVars, external, job, lock, loop, bounds>>

\* Done with one candidate: take the next, or end the sweep.
NextCandidate(o) ==
    /\ batch' = batch \ {o}
    /\ Goto(Sweeper, IF batch = {o} THEN "idle" ELSE "lock")

\* The recheck under the lock fails: `continue` closes the session at once.
SweepSkip(o) ==
    /\ pc[Sweeper] = "lock"
    /\ lock = None
    /\ IsNext(o)
    /\ ~Unconfirmed(o)
    /\ NextCandidate(o)
    /\ UNCHANGED <<dbVars, external, job, lock, loop, bounds>>

\* Fault: the candidate is not checked again under the lock.
SweepBeginUnchecked(o) ==
    /\ Acquire(Sweeper)
    /\ IsNext(o)
    /\ Goto(Sweeper, "commit")
    /\ UNCHANGED <<dbVars, external, job, loop, batch, bounds>>

SweepBegin(o) ==
    /\ Acquire(Sweeper)
    /\ IsNext(o)
    /\ Unconfirmed(o)
    /\ Goto(Sweeper, "commit")
    /\ UNCHANGED <<dbVars, external, job, loop, batch, bounds>>

SweepCommit(o) ==
    LET a == payment[o].auth IN
    /\ pc[Sweeper] = "commit"
    /\ IsNext(o)
    /\ payment' = [payment EXCEPT ![o].status = "STALE"]
    /\ Linked(a, "PAYMENT_STALE", Len(evidence[a]))
    /\ lock' = None
    /\ NextCandidate(o)
    /\ UNCHANGED <<mandateVars, requestVars, settleVars, external, job, loop,
                   bounds>>

\* "database is locked", or a failure (a fault): the sweep ends, its session is
\* closed in the cleanup thread, and the next interval starts a new one.
SweepAbort ==
    /\ \/ pc[Sweeper] = "lock" /\ lock # None /\ UNCHANGED faults
       \/ pc[Sweeper] = "commit" /\ faults < MaxFaults /\ faults' = faults + 1
    /\ lock' = IF lock = Sweeper THEN None ELSE lock
    /\ batch' = {}
    /\ Goto(Sweeper, "idle")
    /\ UNCHANGED <<dbVars, external, job, loop, submitted>>

-----------------------------------------------------------------------------
(* Failures and the end of a session *)

\* Fault: the wait of the webhook handler has no timeout.
LockTimeoutInThreads(w) ==
    /\ pc[w] \in {"insert", "append", "lock"}
    /\ job[w].op # "webhook"
    /\ lock # None
    /\ Return(w)
    /\ UNCHANGED <<dbVars, external, lock, loop, batch, bounds>>

\* SQLite's busy timeout ends a wait for the write lock: 500, no lock held.
LockTimeout(w) ==
    /\ pc[w] \in {"insert", "append", "lock"}
    /\ lock # None
    /\ Return(w)
    /\ LeaveLoop(w)
    /\ UNCHANGED <<dbVars, external, lock, batch, bounds>>

\* An exception inside the transaction: the provider's call, its lost answer, a
\* failed commit.  The writes are rolled back when the session is closed.
Fail(w) ==
    /\ pc[w] \in {"provider", "record", "commit"}
    /\ faults < MaxFaults
    /\ faults' = faults + 1
    /\ Abandon(w)
    /\ LeaveLoop(w)
    /\ UNCHANGED <<dbVars, external, lock, batch, submitted>>

\* get_db's finally block, which the event loop schedules.
CloseSession(w) ==
    /\ pc[w] = "closing"
    /\ loop = None
    /\ Goto(w, "idle")
    /\ lock' = None
    /\ UNCHANGED <<dbVars, external, job, loop, batch, bounds>>

\* The process dies and restarts: SQLite rolls back what was not committed.
Crash ==
    /\ faults < MaxFaults
    /\ faults' = faults + 1
    /\ pc' = [p \in Procs |-> "idle"]
    /\ job' = [p \in Procs |-> NoJob]
    /\ lock' = None
    /\ loop' = None
    /\ batch' = {}
    /\ UNCHANGED <<dbVars, external, submitted>>

-----------------------------------------------------------------------------
(* The environment: time and customers *)

CustomerPays(pid, o, amount) ==
    /\ paid[pid] = None
    /\ o <= Len(orders)
    /\ paid' = [paid EXCEPT ![pid] = [order |-> o, amount |-> amount]]
    /\ UNCHANGED <<dbVars, orders, timeVars, pc, job, lock, loop, batch,
                   bounds>>

Expire(a) ==
    /\ a \in signed \ expired
    /\ expired' = expired \cup {a}
    /\ UNCHANGED <<dbVars, providerVars, overdue, pc, job, lock, loop, batch,
                   bounds>>

PassTimeout(o) ==
    /\ HasRow(o)
    /\ o \notin overdue
    /\ overdue' = overdue \cup {o}
    /\ UNCHANGED <<dbVars, providerVars, expired, pc, job, lock, loop, batch,
                   bounds>>

-----------------------------------------------------------------------------

Init ==
    /\ signed = {} /\ revoked = {} /\ announced = {} /\ expired = {}
    /\ used = [a \in Auths |-> 0]
    /\ requests = [a \in Auths |-> [n \in Nonces |-> None]]
    /\ decisions = [a \in Auths |-> [n \in Nonces |-> <<>>]]
    /\ latest = [a \in Auths |-> [n \in Nonces |-> 0]]
    /\ evidence = [a \in Auths |-> <<>>]
    /\ payment = [o \in Orders |-> None]
    /\ overdue = {}
    /\ seen = {}
    /\ paymentEvents = [o \in Orders |-> {}]
    /\ orders = <<>>
    /\ paid = [pid \in PaymentIds |-> None]
    /\ pc = [p \in Procs |-> "idle"]
    /\ job = [p \in Procs |-> NoJob]
    /\ lock = None
    /\ loop = None
    /\ batch = {}
    /\ submitted = 0
    /\ faults = 0

ConfirmStep(w) == ConfirmInsert(w) \/ ConfirmTail(w) \/ ConfirmAppend(w)
AgentStep(w) == AgentReject(w) \/ AgentEvaluate(w) \/ AgentCommit(w)
ExecuteStep(w) == \/ ExecuteReturnEarly(w) \/ ExecuteBegin(w)
                  \/ CreateOrder(w) \/ ExecuteCommit(w)
WebhookStep(w) == WebhookDuplicate(w) \/ WebhookBegin(w) \/ WebhookCommit(w)

\* One step of the request in slot w; a handler that has started takes them on
\* its own.
HandlerStep(w) ==
    \/ ConfirmStep(w) \/ AgentStep(w) \/ Revoke(w) \/ ExecuteStep(w)
    \/ WebhookStep(w) \/ UnknownAuthorization(w) \/ LockTimeout(w)

SweepStep ==
    \/ SweepSelect
    \/ \E o \in Orders : SweepSkip(o) \/ SweepBegin(o) \/ SweepCommit(o)
    \/ SweepAbort

ClientStep ==
    \E w \in Workers, a \in Auths :
        \/ SubmitConfirm(w, a)
        \/ SubmitRevoke(w, a)
        \/ \E n \in Nonces : \/ SubmitExecute(w, a, n)
                             \/ \E c \in Carts : SubmitAgent(w, a, n, c)

ProviderStep ==
    \E pid \in PaymentIds :
        \/ \E w \in Workers : WebhookReceive(w, pid)
        \/ \E o \in Orders, amount \in Amounts : CustomerPays(pid, o, amount)

TimeStep == (\E a \in Auths : Expire(a)) \/ (\E o \in Orders : PassTimeout(o))

\* Nothing is in progress: the server waits for a request.
Quiet == (\A p \in Procs : pc[p] = "idle") /\ UNCHANGED vars

Next ==
    \/ ClientStep
    \/ ProviderStep
    \/ TimeStep
    \/ SweepStep
    \/ Crash
    \/ Quiet
    \/ \E w \in Workers : HandlerStep(w) \/ Fail(w) \/ CloseSession(w)

Spec == Init /\ [][Next]_vars

\* A started handler goes on, a sweep recurs, the provider redelivers what was
\* not acknowledged, and a session is closed although new webhooks keep coming:
\* asyncio runs the callbacks that are ready first in, first out.
Fairness ==
    /\ \A w \in Workers : WF_vars(HandlerStep(w)) /\ SF_vars(CloseSession(w))
    /\ \A pid \in PaymentIds : WF_vars(\E w \in Workers : WebhookReceive(w, pid))
    /\ WF_vars(SweepStep)

FairSpec == Spec /\ Fairness

-----------------------------------------------------------------------------
(* Types *)

\* Every variable has its type.
TypeOK ==
    /\ signed \subseteq Auths /\ revoked \subseteq Auths
    /\ announced \subseteq Auths /\ expired \subseteq Auths
    /\ used \in [Auths -> Nat]
    /\ requests \in [Auths -> [Nonces -> Carts \cup {None}]]
    /\ decisions \in [Auths -> [Nonces -> Seq(Verdicts)]]
    /\ latest \in [Auths -> [Nonces -> Nat]]
    /\ evidence \in [Auths -> Seq(Event)]
    /\ payment \in [Orders -> Row \cup {None}]
    /\ overdue \subseteq Orders
    /\ seen \subseteq PaymentIds
    /\ paymentEvents \in [Orders -> SUBSET PaymentIds]
    /\ orders \in Seq(Order) /\ Len(orders) <= MaxOrders
    /\ paid \in [PaymentIds -> Payment \cup {None}]
    /\ pc \in [Procs -> PCs]
    /\ job \in [Procs -> Job]
    /\ lock \in Procs \cup {None}
    /\ loop \in Workers \cup {None}
    /\ batch \subseteq Orders
    /\ submitted \in Nat /\ faults \in Nat

-----------------------------------------------------------------------------
(* Safety *)

Approvals(a) ==
    UNION {{n} \X {i \in 1..Len(decisions[a][n]) : decisions[a][n][i] = "ALLOW"} :
             n \in Nonces}

Recorded == {o \in Orders : payment[o] # None}
RecordedFor(a) == {o \in Recorded : payment[o].auth = a}
Settled(o) == payment[o].status \in {"CAPTURED", "AMOUNT_MISMATCH"}
Events(a, types) == {i \in 1..Len(evidence[a]) : evidence[a][i].type \in types}

\* A process holds the write lock exactly while it has a transaction open: from
\* its Begin to the commit, or to the end of its session when it gave up.
LockDiscipline ==
    \A p \in Procs :
        lock = p <=> pc[p] \in {"commit", "provider", "record", "closing"}

WorkerReads(w) ==
    LET j == job[w] IN
    /\ pc[w] = "commit" /\ j.op = "agent" =>
         /\ j.used = used[j.auth]
         /\ j.fresh <=> requests[j.auth][j.nonce] = None
         /\ j.verdict = "ALLOW" => /\ j.auth \notin revoked
                                   /\ j.fresh
                                   /\ j.used < MaxTx[j.auth]
                                   /\ CartVerdict[j.cart] = "ALLOW"
    /\ pc[w] = "commit" /\ j.op = "webhook" => j.pid \notin seen
    /\ pc[w] \in {"provider", "record"} =>
         /\ Payable(j.auth, j.nonce)
         /\ ~RecordedOrder(j.auth, j.nonce)
         /\ j.cart = requests[j.auth][j.nonce]
         /\ j.dec = latest[j.auth][j.nonce]
    /\ pc[w] = "record" => orders[j.order].amount = Total[j.cart]

SweepReads == pc[Sweeper] = "commit" => \A o \in batch : IsNext(o) => Unconfirmed(o)

\* Check and use: what a handler read when it took the lock still holds when it
\* commits or calls the provider, however long it was suspended in between.
ReadsStillTrue == (\A w \in Workers : WorkerReads(w)) /\ SweepReads

\* used_count is the number of ALLOW decisions ever stored and never exceeds the
\* mandate's max_transactions, whatever requests, replays and crashes interleave.
WithinBudget ==
    \A a \in Auths : /\ used[a] = Cardinality(Approvals(a))
                     /\ used[a] <= MaxTx[a]

\* Every recorded order pays an ALLOW decision, for the cart that was evaluated
\* and stored with the request, and no decision has two recorded orders, whichever
\* decision of a request the clock makes its latest.
OrdersMatchApprovals ==
    /\ \A o \in Recorded :
         LET r == payment[o] IN
         /\ <<r.nonce, r.dec>> \in Approvals(r.auth)
         /\ CartVerdict[requests[r.auth][r.nonce]] = "ALLOW"
         /\ r.amount = Total[requests[r.auth][r.nonce]]
    /\ \A o, q \in Recorded :
         o # q => <<payment[o].auth, payment[o].nonce, payment[o].dec>>
                   # <<payment[q].auth, payment[q].nonce, payment[q].dec>>

\* Orders of the provider that have no row and that no handler is about to record:
\* their payments will be answered 404.
Lost ==
    {i \in 1..Len(orders) :
       /\ ~HasRow(i)
       /\ \A w \in Workers : pc[w] = "record" => job[w].order # i}

\* Each fault costs at most one order: the provider is asked for no more orders than
\* the mandate approved and one for each order lost, also when retries of
\* /payment/execute race; while nothing fails no order is lost.
ProviderWithinBudget ==
    /\ Cardinality(Lost) <= faults
    /\ \A a \in Auths :
         Cardinality({i \in 1..Len(orders) : orders[i].receipt = a}) <= used[a] + faults

\* Once a revocation is committed no order is created for the mandate: execute
\* holds the lock across the provider call.
NoOrderAfterRevocation ==
    [][\A i \in 1..Len(orders') :
         i > Len(orders) => orders'[i].receipt \notin revoked]_vars

\* The log of a mandate tells its story in order: signed first, and after the
\* revocation no order and no second revocation.
LogInOrder ==
    \A a \in Auths \ ChosenIds :
      \A i, k \in 1..Len(evidence[a]) :
        /\ i = 1 => evidence[a][i].type = "MANDATE_SIGNED"
        /\ i < k /\ evidence[a][i].type = "MANDATE_REVOKED"
             => evidence[a][k].type \notin {"ORDER_CREATED", "MANDATE_REVOKED",
                                            "MANDATE_SIGNED"}

\* Each event links to its predecessor, for mandates whose id the server made.
ChainLinked ==
    \A a \in Auths \ ChosenIds :
      \A i \in 1..Len(evidence[a]) : evidence[a][i].prev = i - 1

\* State and evidence agree at every commit: orders, decisions, revocations and
\* payment events are each logged exactly once, and so is the signature of every
\* mandate whose /confirm was answered, and of no other.
EvidenceMatchesState ==
    \A a \in Auths :
      LET count(types) == Cardinality(Events(a, types)) IN
      /\ count({"MANDATE_SIGNED"}) = IF a \in announced THEN 1 ELSE 0
      /\ count({"ORDER_CREATED"}) = Cardinality(RecordedFor(a))
      /\ count({"AGENT_REQUEST_RECEIVED"})
           = Cardinality({n \in Nonces : requests[a][n] # None})
      /\ count({"POLICY_EVALUATED"})
           = count({"AGENT_REQUEST_RECEIVED", "REPLAY_ATTEMPT_BLOCKED"})
      /\ count({"MANDATE_REVOKED"}) = IF a \in revoked THEN 1 ELSE 0
      /\ count({"PAYMENT_CAPTURED", "PAYMENT_AMOUNT_MISMATCH"})
           = Cardinality(UNION {paymentEvents[o] : o \in RecordedFor(a)})
      /\ count({"PAYMENT_STALE"}) <= Cardinality(RecordedFor(a))

\* The sweep never undoes what a webhook settled, and nothing returns to CREATED.
SettledForGood ==
    [][\A o \in Recorded :
         /\ Settled(o) => Settled(o)'
         /\ payment[o].status = "STALE" => payment'[o].status # "CREATED"]_vars

\* An order is settled exactly when a payment event is stored for it, and one of its
\* payments decides the status by its amount: a second payment may overrule the first,
\* but nothing else sets it.
SettledByEvents ==
    \A o \in Recorded :
      /\ Settled(o) <=> paymentEvents[o] # {}
      /\ Settled(o) =>
           \E pid \in paymentEvents[o] :
             payment[o].status = "CAPTURED"
               <=> paid[pid].amount \in {None, payment[o].amount}

-----------------------------------------------------------------------------
(* Liveness, under FairSpec *)

\* The write lock is always released, although the handler that returned without
\* a commit needs the event loop to close its session, and a webhook on the loop
\* may be waiting for that very lock: the busy timeout breaks the circle.
LockReleased == lock # None ~> lock = None

\* A customer's payment of a recorded order, also of one flagged STALE, is
\* eventually applied.
PaymentApplied ==
    \A pid \in PaymentIds :
      paid[pid] # None /\ HasRow(paid[pid].order) ~> pid \in seen

\* An overdue order does not stay CREATED.
OverdueResolved ==
    \A o \in Orders : o \in overdue ~> ~Created(o)
-----------------------------------------------------------------------------
(* The promise this implements *)

ApprovedRequests(a) ==
    {n \in Nonces : \E i \in 1..Len(decisions[a][n]) : decisions[a][n][i] = "ALLOW"}

Only(S) == CHOOSE x \in S : TRUE

Stage(a, n) ==
    LET rows == {o \in RecordedFor(a) : payment[o].nonce = n} IN
    IF rows = {} THEN "none" ELSE payment[Only(rows)].status

Promise == INSTANCE Mandate WITH
    spent <- used,
    approved <- [a \in Auths |-> ApprovedRequests(a)],
    stage <- [a \in Auths |-> [n \in Nonces |-> Stage(a, n)]]

\* The interleaved handlers implement the abstract mandate: each commit is one of
\* its steps and every other step is invisible to it.
ImplementsMandate == Promise!Spec

-----------------------------------------------------------------------------
(* What the documentation says of the program, which it does not do *)

\* docs/payment-cleanup.md: retrying /payment/execute returns the existing order.
RetryReturnsExistingOrder ==
    \A o \in Recorded :
        payment[o].auth \notin revoked =>
            /\ Payable(payment[o].auth, payment[o].nonce)
            /\ RecordedOrder(payment[o].auth, payment[o].nonce)

\* docs/spec.md: orders.create is called once per mandate.
NoSecondProviderOrder ==
    \A a \in Auths :
        Cardinality({i \in 1..Len(orders) : orders[i].receipt = a}) <= MaxTx[a]

\* docs/spec.md: each event links to the previous by hash.
EveryChainLinked ==
    \A a \in Auths : \A i \in 1..Len(evidence[a]) : evidence[a][i].prev = i - 1

\* docs/spec.md: signing a mandate writes an event.
SigningIsLogged ==
    \A a \in signed :
        (\A w \in Workers : job[w].auth # a) =>
            Events(a, {"MANDATE_SIGNED"}) # {}
=============================================================================

---------------------------- MODULE BudgetProofs ----------------------------
(***************************************************************************)
(* Theorems about the budget of a mandate in Firewall: approvals, orders   *)
(* and rows agree for any number of requests, replays, retries and faults, *)
(* and the interleaved handlers implement Mandate.                         *)
(***************************************************************************)
EXTENDS SettlementProofs, FiniteSetTheorems, FunctionTheorems

USE DEF Procs, dbVars, mandateVars, requestVars, settleVars, providerVars, timeVars,
        external, bounds

(***************************************************************************)
(* The invariant.  A request is decided ALLOW at most once and by its      *)
(* first decision, because every later one is a replay; so the decisions   *)
(* of a mandate are counted by used_count, a request has at most one row,  *)
(* and the handler that is recording an order holds the only claim on its  *)
(* approval.                                                               *)
(***************************************************************************)
DecidedOnce ==
    \A a \in Auths, n \in Nonces : \A i \in 1..Len(decisions[a][n]) :
        decisions[a][n][i] = "ALLOW" =>
            i = 1 /\ CartVerdict[requests[a][n]] = "ALLOW"

\* Nothing is decided before the mandate is signed, so the used_count that
\* /confirm sets to 0 was 0.
Undecided == \A a \in Auths \ signed : \A n \in Nonces : decisions[a][n] = <<>>

CommitsSigned ==
    \A w \in Workers :
        pc[w] = "commit" /\ job[w].op = "agent" => job[w].auth \in signed

Ledger ==
    \A a \in Auths : /\ IsFiniteSet(Approvals(a))
                     /\ used[a] = Cardinality(Approvals(a))
                     /\ used[a] <= MaxTx[a]

Pays(r, a) == /\ <<r.nonce, r.dec>> \in Approvals(a)
              /\ r.amount = Total[requests[a][r.nonce]]

RowsPay == \A o \in Orders : payment[o] # None => Pays(payment[o], payment[o].auth)

OnePerRequest ==
    \A o, q \in Orders :
        /\ payment[o] # None /\ payment[q] # None
        /\ payment[o].auth = payment[q].auth
        /\ payment[o].nonce = payment[q].nonce
        => o = q

\* Every order of the provider has its row or is about to, but for one for each fault.
RowOf(i) == payment[i] # None /\ payment[i].auth = orders[i].receipt

RecorderOf(i) == \E w \in Workers : /\ pc[w] = "record"
                                    /\ job[w].order = i
                                    /\ job[w].auth = orders[i].receipt

Accounted ==
    \E L \in SUBSET Orders :
      /\ IsFiniteSet(L)
      /\ Cardinality(L) <= faults
      /\ \A i \in 1..Len(orders) \ L : RowOf(i) \/ RecorderOf(i)

Balanced == /\ DecidedOnce /\ Undecided /\ CommitsSigned /\ Ledger
            /\ RowsPay /\ OnePerRequest /\ Accounted

-----------------------------------------------------------------------------
(* What the steps do to the mandates, their requests and their orders *)

books == <<signed, revoked, used, requests, decisions, payment, orders>>

\* Every other step leaves the books alone.
LEMMA StepEffects ==
  ASSUME Inv, [Next]_vars
  PROVE  \/ UNCHANGED books
         \/ \E w \in Workers : \/ ConfirmInsert(w) \/ AgentCommit(w) \/ Revoke(w)
                               \/ CreateOrder(w) \/ ExecuteCommit(w) \/ WebhookCommit(w)
         \/ \E o \in Orders : SweepCommit(o)
<1>1. CASE ClientStep \/ ProviderStep \/ TimeStep
  <2>1. ASSUME NEW w \in Workers, NEW j, NEW l, Submit(w, j, l)
        PROVE  UNCHANGED books
    BY <2>1 DEF Submit, books
  <2>2. CASE ClientStep
    BY <2>1, <2>2
    DEF ClientStep, SubmitConfirm, SubmitRevoke, SubmitExecute, SubmitAgent
  <2>3. CASE ProviderStep \/ TimeStep
    BY <2>3
    DEF ProviderStep, WebhookReceive, CustomerPays, TimeStep, Expire, PassTimeout, books
  <2>4. QED
    BY <1>1, <2>2, <2>3
<1>2. CASE SweepStep
  BY <1>2 DEF SweepStep, SweepSelect, SweepSkip, SweepBegin, SweepAbort, books
<1>3. CASE Crash \/ Quiet \/ UNCHANGED vars
  BY <1>3 DEF Crash, Quiet, vars, books
<1>4. ASSUME NEW w \in Workers, HandlerStep(w) \/ Fail(w) \/ CloseSession(w)
      PROVE  \/ UNCHANGED books
             \/ ConfirmInsert(w) \/ AgentCommit(w) \/ Revoke(w)
             \/ CreateOrder(w) \/ ExecuteCommit(w) \/ WebhookCommit(w)
  <2>1. CASE ConfirmStep(w) \/ AgentStep(w) \/ Revoke(w)
    BY <2>1
    DEF ConfirmStep, ConfirmTail, ConfirmAppend, AgentStep, AgentReject, AgentEvaluate,
        books
  <2>2. CASE ExecuteStep(w) \/ WebhookStep(w)
    BY <2>2
    DEF ExecuteStep, ExecuteReturnEarly, ExecuteBegin, WebhookStep, WebhookDuplicate,
        WebhookBegin, books
  <2>3. CASE UnknownAuthorization(w) \/ LockTimeout(w) \/ Fail(w) \/ CloseSession(w)
    BY <2>3 DEF UnknownAuthorization, LockTimeout, Fail, CloseSession, books
  <2>4. QED
    BY <1>4, <2>1, <2>2, <2>3 DEF HandlerStep
<1>5. QED
  BY <1>1, <1>2, <1>3, <1>4 DEF Next

\* Faults are counted one by one, and but for a fault a handler that is recording an
\* order stays there until it commits the row.
LEMMA RecordingKept ==
  ASSUME Inv, [Next]_vars
  PROVE  \/ faults' = faults + 1
         \/ /\ faults' = faults
            /\ \A w \in Workers :
                 pc[w] = "record" =>
                   ExecuteCommit(w) \/ (pc'[w] = "record" /\ job'[w] = job[w])
<1>1. faults \in Nat /\ pc \in [Procs -> PCs] /\ job \in [Procs -> Job]
  BY DEF Inv, TypeOK
<1>2. ASSUME NEW w \in Workers, NEW j, NEW l, Submit(w, j, l)
      PROVE  faults' = faults /\ \A v \in Workers :
               pc[v] = "record" => pc'[v] = "record" /\ job'[v] = job[v]
  BY <1>1, <1>2 DEF Submit, Goto
<1>3. CASE ClientStep
  BY <1>2, <1>3 DEF ClientStep, SubmitConfirm, SubmitRevoke, SubmitExecute, SubmitAgent
<1>4. CASE ProviderStep
  BY <1>1, <1>4 DEF ProviderStep, WebhookReceive, CustomerPays, Goto
<1>5. CASE TimeStep \/ Quiet \/ UNCHANGED vars
  BY <1>5 DEF TimeStep, Expire, PassTimeout, Quiet, vars
<1>6. CASE Crash
  BY <1>1, <1>6 DEF Crash
<1>7. CASE SweepStep
  <2>1. job' = job /\ \A w \in Workers : pc'[w] = pc[w]
    BY <1>7, SweepMovesNoWorker
  <2>2. faults' = faults \/ faults' = faults + 1
    BY <1>1, <1>7
    DEF SweepStep, SweepSelect, SweepSkip, SweepBegin, SweepCommit, SweepAbort
  <2>3. QED
    BY <2>1, <2>2
<1>8. ASSUME NEW w \in Workers, HandlerStep(w) \/ Fail(w) \/ CloseSession(w)
      PROVE  \/ faults' = faults + 1
             \/ /\ faults' = faults
                /\ pc[w] = "record" => ExecuteCommit(w)
  <2>1. CASE ConfirmStep(w) \/ AgentStep(w) \/ Revoke(w)
    BY <2>1
    DEF ConfirmStep, ConfirmInsert, ConfirmTail, ConfirmAppend, AgentStep, AgentReject,
        AgentEvaluate, AgentCommit, Revoke, Acquire
  <2>2. CASE ExecuteStep(w) \/ WebhookStep(w)
    BY <2>2
    DEF ExecuteStep, ExecuteReturnEarly, ExecuteBegin, CreateOrder, ExecuteCommit,
        WebhookStep, WebhookDuplicate, WebhookBegin, WebhookCommit, Acquire
  <2>3. CASE UnknownAuthorization(w) \/ LockTimeout(w) \/ CloseSession(w)
    BY <2>3 DEF UnknownAuthorization, LockTimeout, CloseSession, Acquire
  <2>4. CASE Fail(w)
    BY <1>1, <2>4 DEF Fail
  <2>5. QED
    BY <1>8, <2>1, <2>2, <2>3, <2>4 DEF HandlerStep
<1>9. ASSUME NEW w \in Workers, HandlerStep(w) \/ Fail(w) \/ CloseSession(w)
      PROVE  \/ faults' = faults + 1
             \/ /\ faults' = faults
                /\ \A v \in Workers :
                     pc[v] = "record" =>
                       ExecuteCommit(v) \/ (pc'[v] = "record" /\ job'[v] = job[v])
  BY <1>8, <1>9, OneMoves
<1>10. QED
  BY <1>3, <1>4, <1>5, <1>6, <1>7, <1>8, <1>9 DEF Next

\* Mandates stay signed and revoked.
LEMMA SignedGrows ==
  ASSUME Inv, [Next]_vars
  PROVE  signed \subseteq signed'
  BY StepEffects
  DEF books, ConfirmInsert, AgentCommit, Revoke, CreateOrder, ExecuteCommit,
      WebhookCommit, SweepCommit

\* A decision is only ever prepared for a mandate that was found signed.
LEMMA CommitsSignedStep ==
  ASSUME Inv, CommitsSigned, [Next]_vars
  PROVE  CommitsSigned'
<1>1. signed \subseteq signed' /\ pc \in [Procs -> PCs] /\ job \in [Procs -> Job]
  BY SignedGrows DEF Inv, TypeOK
<1>2. SUFFICES ASSUME NEW v \in Workers, pc'[v] = "commit", job'[v].op = "agent"
               PROVE  job'[v].auth \in signed'
  BY DEF CommitsSigned
<1>3. CASE pc[v] = "commit" /\ job'[v] = job[v]
  BY <1>1, <1>2, <1>3 DEF CommitsSigned
<1>4. CASE ClientStep \/ ProviderStep \/ TimeStep \/ Crash \/ Quiet \/ UNCHANGED vars
  <2>1. ASSUME NEW w \in Workers, NEW j, NEW l \in {"insert", "lock"}, Submit(w, j, l)
        PROVE  pc[v] = "commit" /\ job'[v] = job[v]
    BY <1>1, <1>2, <2>1 DEF Submit, Goto
  <2>2. CASE ClientStep
    BY <1>3, <2>1, <2>2
    DEF ClientStep, SubmitConfirm, SubmitRevoke, SubmitExecute, SubmitAgent
  <2>3. CASE ProviderStep
    BY <1>1, <1>2, <1>3, <2>3 DEF ProviderStep, WebhookReceive, CustomerPays, Goto
  <2>4. CASE TimeStep \/ Crash \/ Quiet \/ UNCHANGED vars
    BY <1>2, <1>3, <2>4 DEF TimeStep, Expire, PassTimeout, Crash, Quiet, vars
  <2>5. QED
    BY <1>4, <2>2, <2>3, <2>4
<1>5. CASE SweepStep
  BY <1>2, <1>3, <1>5, SweepMovesNoWorker
<1>6. ASSUME NEW w \in Workers, HandlerStep(w) \/ Fail(w) \/ CloseSession(w)
      PROVE  job'[v].auth \in signed'
  <2>1. CASE v # w
    BY <1>2, <1>3, <1>6, <2>1, OneMoves
  <2>2. CASE AgentEvaluate(v)
    <3>1. job'[v].auth = job[v].auth /\ job[v].auth \in signed
      BY <1>1, <2>2 DEF AgentEvaluate, Job
    <3>2. QED
      BY <1>1, <3>1
  <2>3. CASE v = w /\ ~AgentEvaluate(v)
    <3>1. CASE ConfirmStep(w) \/ AgentStep(w) \/ Revoke(w)
      BY <1>1, <1>2, <2>3, <3>1
      DEF ConfirmStep, ConfirmInsert, ConfirmTail, ConfirmAppend, AgentStep,
          AgentReject, AgentCommit, Revoke, Goto, Return
    <3>2. CASE ExecuteStep(w) \/ WebhookStep(w)
      BY <1>1, <1>2, <2>3, <3>2
      DEF ExecuteStep, ExecuteReturnEarly, ExecuteBegin, CreateOrder, ExecuteCommit,
          WebhookStep, WebhookDuplicate, WebhookBegin, WebhookCommit, Goto, Return,
          Abandon
    <3>3. CASE UnknownAuthorization(w) \/ LockTimeout(w) \/ Fail(w) \/ CloseSession(w)
      BY <1>1, <1>2, <2>3, <3>3
      DEF UnknownAuthorization, LockTimeout, Fail, CloseSession, Goto, Return, Abandon
    <3>4. QED
      BY <1>6, <3>1, <3>2, <3>3 DEF HandlerStep
  <2>4. QED
    BY <2>1, <2>2, <2>3
<1>7. QED
  BY <1>4, <1>5, <1>6 DEF Next

-----------------------------------------------------------------------------
(* Decisions *)

LEMMA InApprovals ==
  ASSUME NEW a
  PROVE  /\ \A n, i : <<n, i>> \in Approvals(a) <=> /\ n \in Nonces
                                                    /\ i \in 1..Len(decisions[a][n])
                                                    /\ decisions[a][n][i] = "ALLOW"
         /\ \A x \in Approvals(a) : \E n \in Nonces, i \in Nat : x = <<n, i>>
  BY DEF Approvals

LEMMA EqualPairs ==
  ASSUME NEW S, NEW T,
         \A x \in S : \E n \in Nonces, i \in Nat : x = <<n, i>>,
         \A x \in T : \E n \in Nonces, i \in Nat : x = <<n, i>>,
         \A n \in Nonces, i \in Nat : <<n, i>> \in S <=> <<n, i>> \in T
  PROVE  S = T
<1>1. \A x : x \in S <=> x \in T
  OBVIOUS
<1>2. QED
  BY <1>1

LEMMA SameApprovals ==
  ASSUME NEW a,
         \A n \in Nonces : Len(decisions'[a][n]) = Len(decisions[a][n])
                           /\ decisions'[a][n] = decisions[a][n]
  PROVE  /\ Approvals(a)' = Approvals(a)
         /\ ApprovedRequests(a)' = ApprovedRequests(a)
  BY DEF Approvals, ApprovedRequests

\* The decisions of a request get one more.
Decides(a, n, v) ==
    decisions' = [decisions EXCEPT ![a] =
                    [decisions[a] EXCEPT ![n] = Append(decisions[a][n], v)]]

\* An ALLOW is the first decision of its request, for the cart stored with it; any
\* other decision leaves the budget alone.
LEMMA AgentCommitEffect ==
  ASSUME Inv, CommitsSigned, NEW w \in Workers, AgentCommit(w)
  PROVE  \E a \in Auths, n \in Nonces, c \in Carts, v \in Verdicts :
           /\ a \in signed
           /\ Decides(a, n, v)
           /\ \A b \in Auths, m \in Nonces :
                decisions[b][m] # <<>> => requests'[b][m] = requests[b][m]
           /\ v # "ALLOW" => used' = used
           /\ v = "ALLOW" => /\ a \notin revoked
                             /\ decisions[a][n] = <<>>
                             /\ requests'[a][n] = c /\ CartVerdict[c] = "ALLOW"
                             /\ used[a] < MaxTx[a]
                             /\ used' = [used EXCEPT ![a] = used[a] + 1]
           /\ UNCHANGED <<signed, revoked, payment, orders>>
<1> DEFINE j == job[w]
<1>1. /\ j.auth \in Auths /\ j.nonce \in Nonces /\ j.cart \in Carts /\ j.verdict \in Verdicts
      /\ j.auth \in signed
  BY DEF AgentCommit, Inv, WellFormed, JobWellFormed, CommitsSigned
<1>2. /\ j.used = used[j.auth]
      /\ j.fresh <=> requests[j.auth][j.nonce] = None
      /\ j.verdict = "ALLOW" => /\ j.auth \notin revoked /\ j.fresh
                                /\ j.used < MaxTx[j.auth]
                                /\ CartVerdict[j.cart] = "ALLOW"
  BY DEF AgentCommit, Inv, ReadsStillTrue, WorkerReads
<1>3. j.fresh => decisions[j.auth][j.nonce] = <<>>
  BY <1>1, <1>2, NoneAssumption DEF Inv, WellFormed
<1>4. decisions' = [decisions EXCEPT ![j.auth] =
                      [decisions[j.auth] EXCEPT ![j.nonce] =
                         Append(decisions[j.auth][j.nonce], j.verdict)]]
  BY <1>1 DEF AgentCommit, Inv, TypeOK
<1>5. requests' = IF j.fresh
                    THEN [requests EXCEPT ![j.auth] =
                            [requests[j.auth] EXCEPT ![j.nonce] = j.cart]]
                    ELSE requests
  BY <1>1 DEF AgentCommit, Inv, TypeOK
<1>6. \A b \in Auths, m \in Nonces :
        decisions[b][m] # <<>> => requests'[b][m] = requests[b][m]
  BY <1>1, <1>3, <1>5 DEF Inv, TypeOK
<1>7. j.fresh => requests'[j.auth][j.nonce] = j.cart
  BY <1>1, <1>5 DEF Inv, TypeOK
<1>8. /\ used' = IF j.verdict = "ALLOW" THEN [used EXCEPT ![j.auth] = j.used + 1] ELSE used
      /\ UNCHANGED <<signed, revoked, payment, orders>>
  BY DEF AgentCommit
<1>9. PICK a \in Auths, n \in Nonces, c \in Carts, v \in Verdicts :
        a = j.auth /\ n = j.nonce /\ c = j.cart /\ v = j.verdict
  BY <1>1
<1>10. v = "ALLOW" => /\ a \notin revoked
                      /\ decisions[a][n] = <<>>
                      /\ requests'[a][n] = c /\ CartVerdict[c] = "ALLOW"
                      /\ used[a] < MaxTx[a]
                      /\ used' = [used EXCEPT ![a] = used[a] + 1]
  BY <1>2, <1>3, <1>7, <1>8, <1>9
<1>11. a \in signed /\ (v # "ALLOW" => used' = used)
  BY <1>1, <1>8, <1>9
<1>12. Decides(a, n, v)
  BY <1>4, <1>9 DEF Decides
<1> HIDE DEF j
<1>13. QED
  BY <1>6, <1>8, <1>10, <1>11, <1>12

\* The decisions of the other requests stay, and this one has one more.
LEMMA DecisionAdded ==
  ASSUME Inv, NEW a \in Auths, NEW n \in Nonces, NEW v \in Verdicts,
         Decides(a, n, v)
  PROVE  /\ \A b \in Auths, m \in Nonces :
              <<b, m>> # <<a, n>> => decisions'[b][m] = decisions[b][m]
         /\ decisions[a][n] \in Seq(Verdicts) /\ Len(decisions[a][n]) \in Nat
         /\ decisions'[a][n] = Append(decisions[a][n], v)
         /\ Len(decisions'[a][n]) = Len(decisions[a][n]) + 1
         /\ \A i \in 1..Len(decisions[a][n]) : decisions'[a][n][i] = decisions[a][n][i]
         /\ decisions'[a][n][Len(decisions[a][n]) + 1] = v
         /\ \A b \in Auths, m \in Nonces : Len(decisions[b][m]) \in Nat
<1>1. decisions \in [Auths -> [Nonces -> Seq(Verdicts)]]
  BY DEF Inv, TypeOK
<1>2. decisions'[a][n] = Append(decisions[a][n], v)
  BY <1>1 DEF Decides
<1>3. decisions[a][n] \in Seq(Verdicts)
  BY <1>1
<1>4. \A b \in Auths, m \in Nonces :
        <<b, m>> # <<a, n>> => decisions'[b][m] = decisions[b][m]
  BY <1>1 DEF Decides
<1>5. \A b \in Auths, m \in Nonces : Len(decisions[b][m]) \in Nat
  BY <1>1
<1>6. QED
  BY <1>2, <1>3, <1>4, <1>5

\* An approval is added to those of its mandate, and nothing else changes.
ApprovalsMove(a, n, v) ==
    \A b \in Auths :
        /\ v # "ALLOW" \/ b # a => /\ Approvals(b)' = Approvals(b)
                                  /\ ApprovedRequests(b)' = ApprovedRequests(b)
        /\ v = "ALLOW" /\ b = a =>
             /\ <<n, 1>> \notin Approvals(b)
             /\ Approvals(b)' = Approvals(b) \cup {<<n, 1>>}
             /\ n \notin ApprovedRequests(b)
             /\ ApprovedRequests(b)' = ApprovedRequests(b) \cup {n}

LEMMA ApprovalsAfter ==
  ASSUME Inv, NEW a \in Auths, NEW n \in Nonces, NEW v \in Verdicts,
         Decides(a, n, v), v = "ALLOW" => decisions[a][n] = <<>>
  PROVE  ApprovalsMove(a, n, v)
<1> SUFFICES ASSUME NEW b \in Auths
             PROVE  /\ v # "ALLOW" \/ b # a =>
                         /\ Approvals(b)' = Approvals(b)
                         /\ ApprovedRequests(b)' = ApprovedRequests(b)
                    /\ v = "ALLOW" /\ b = a =>
                         /\ <<n, 1>> \notin Approvals(b)
                         /\ Approvals(b)' = Approvals(b) \cup {<<n, 1>>}
                         /\ n \notin ApprovedRequests(b)
                         /\ ApprovedRequests(b)' = ApprovedRequests(b) \cup {n}
  BY DEF ApprovalsMove
<1>1. CASE b # a
  <2>1. \A m \in Nonces : decisions'[b][m] = decisions[b][m]
    BY <1>1, DecisionAdded
  <2>2. QED
    BY <1>1, <2>1, SameApprovals, InApprovals DEF ApprovedRequests
<1>2. CASE b = a /\ v # "ALLOW"
  <2>1. \A m \in Nonces, i \in Nat :
          i \in 1..Len(decisions'[a][m]) /\ decisions'[a][m][i] = "ALLOW"
            <=> i \in 1..Len(decisions[a][m]) /\ decisions[a][m][i] = "ALLOW"
    <3> TAKE m \in Nonces, i \in Nat
    <3>1. CASE m # n
      BY <3>1, DecisionAdded
    <3>2. CASE m = n
      <4> DEFINE k == Len(decisions[a][n])
      <4>1. /\ k \in Nat /\ Len(decisions'[a][n]) = k + 1
            /\ \A l \in 1..k : decisions'[a][n][l] = decisions[a][n][l]
            /\ decisions'[a][n][k + 1] # "ALLOW"
        BY <1>2, DecisionAdded
      <4> HIDE DEF k
      <4>2. i \in 1..(k + 1) <=> i \in 1..k \/ i = k + 1
        BY <4>1
      <4>3. QED
        BY <3>2, <4>1, <4>2 DEF k
    <3>3. QED
      BY <3>1, <3>2
  <2>2. /\ \A m \in Nonces, i \in Nat : <<m, i>> \in Approvals(a)' <=> <<m, i>> \in Approvals(a)
        /\ \A x \in Approvals(a)' : \E m \in Nonces, i \in Nat : x = <<m, i>>
        /\ \A x \in Approvals(a) : \E m \in Nonces, i \in Nat : x = <<m, i>>
    BY <2>1, InApprovals DEF Approvals
  <2>3. Approvals(a)' = Approvals(a)
    BY <2>2, EqualPairs
  <2>4. ApprovedRequests(a)' = ApprovedRequests(a)
    BY <2>1 DEF ApprovedRequests
  <2>5. QED
    BY <1>2, <2>3, <2>4
<1>3. CASE b = a /\ v = "ALLOW"
  <2>1. decisions[a][n] = <<>> /\ Len(decisions[a][n]) = 0
    BY <1>3
  <2>2. \A m \in Nonces, i \in Nat :
          i \in 1..Len(decisions'[a][m]) /\ decisions'[a][m][i] = "ALLOW"
            <=> \/ i \in 1..Len(decisions[a][m]) /\ decisions[a][m][i] = "ALLOW"
                \/ m = n /\ i = 1
    <3> TAKE m \in Nonces, i \in Nat
    <3>1. CASE m # n
      BY <3>1, DecisionAdded
    <3>2. CASE m = n
      <4>1. decisions'[a][n] = Append(decisions[a][n], v) /\ decisions[a][n] \in Seq(Verdicts)
        BY DecisionAdded
      <4>2. Len(decisions'[a][n]) = 1 /\ decisions'[a][n][1] = v
        BY <2>1, <4>1
      <4>3. QED
        BY <1>3, <2>1, <3>2, <4>2
    <3>3. QED
      BY <3>1, <3>2
  <2>3. /\ \A m \in Nonces, i \in Nat :
             <<m, i>> \in Approvals(a)' <=> \/ <<m, i>> \in Approvals(a)
                                            \/ <<m, i>> = <<n, 1>>
        /\ \A x \in Approvals(a)' : \E m \in Nonces, i \in Nat : x = <<m, i>>
        /\ \A x \in Approvals(a) : \E m \in Nonces, i \in Nat : x = <<m, i>>
    BY <2>2, InApprovals DEF Approvals
  <2>4. Approvals(a)' = Approvals(a) \cup {<<n, 1>>}
    BY <2>3
  <2>5. ApprovedRequests(a)' = ApprovedRequests(a) \cup {n}
    <3>1. \A m \in Nonces : m \in ApprovedRequests(a)' <=> m \in ApprovedRequests(a) \/ m = n
      <4>1. \A m \in Nonces : Len(decisions[a][m]) \in Nat
        BY DecisionAdded
      <4>2. \A m \in Nonces : Len(decisions'[a][m]) \in Nat
        BY <4>1, DecisionAdded
      <4>3. QED
        BY <2>2, <4>1, <4>2 DEF ApprovedRequests
    <3>2. QED
      BY <3>1 DEF ApprovedRequests
  <2>6. <<n, 1>> \notin Approvals(a) /\ n \notin ApprovedRequests(a)
    BY <2>1, InApprovals DEF ApprovedRequests
  <2>7. QED
    BY <1>3, <2>4, <2>5, <2>6
<1>4. QED
  BY <1>1, <1>2, <1>3

-----------------------------------------------------------------------------
(* The counting of approvals *)

\* /confirm inserts used_count 0 for a mandate that has used nothing.
LEMMA ConfirmInsertEffect ==
  ASSUME Inv, Undecided, Ledger, NEW w \in Workers, ConfirmInsert(w)
  PROVE  /\ UNCHANGED <<revoked, used, requests, decisions, payment, orders>>
         /\ \/ signed' = signed
            \/ \E a \in Auths : a \notin signed /\ signed' = signed \cup {a}
<1>1. PICK a \in Auths : a = job[w].auth
  BY DEF ConfirmInsert, Inv, WellFormed, JobWellFormed
<1>2. UNCHANGED <<revoked, requests, decisions, payment, orders>>
  BY DEF ConfirmInsert
<1>3. CASE a \in signed
  BY <1>1, <1>2, <1>3 DEF ConfirmInsert
<1>4. CASE a \notin signed
  <2>1. signed' = signed \cup {a} /\ used' = [used EXCEPT ![a] = 0]
    BY <1>1, <1>4 DEF ConfirmInsert
  <2>2. \A n \in Nonces : decisions[a][n] = <<>>
    BY <1>4 DEF Undecided
  <2>3. \A n \in Nonces : Len(decisions[a][n]) = 0
    BY <2>2
  <2>4. Approvals(a) = {}
    <3>1. ASSUME NEW x \in Approvals(a)
          PROVE  FALSE
      BY <2>3, InApprovals
    <3>2. QED
      BY <3>1
  <2>5. used[a] = 0
    BY <2>4, FS_EmptySet DEF Ledger
  <2>6. used' = used
    BY <2>1, <2>5 DEF Inv, TypeOK
  <2>7. QED
    BY <1>2, <1>4, <2>1, <2>6
<1>5. QED
  BY <1>3, <1>4

LEMMA SameDecided ==
  ASSUME DecidedOnce, Undecided, Ledger, UNCHANGED <<used, requests, decisions>>,
         signed \subseteq signed'
  PROVE  DecidedOnce' /\ Undecided' /\ Ledger'
<1>1. \A a : Approvals(a)' = Approvals(a)
  BY SameApprovals
<1>2. Ledger'
  BY <1>1 DEF Ledger
<1>3. QED
  BY <1>2 DEF DecidedOnce, Undecided

LEMMA AgentDecided ==
  ASSUME Inv, CommitsSigned, DecidedOnce, Undecided, Ledger,
         NEW w \in Workers, AgentCommit(w)
  PROVE  DecidedOnce' /\ Undecided' /\ Ledger'
<1>1. PICK a \in Auths, n \in Nonces, c \in Carts, v \in Verdicts :
        /\ a \in signed
        /\ Decides(a, n, v)
        /\ \A b \in Auths, m \in Nonces :
             decisions[b][m] # <<>> => requests'[b][m] = requests[b][m]
        /\ v # "ALLOW" => used' = used
        /\ v = "ALLOW" => /\ a \notin revoked
                          /\ decisions[a][n] = <<>>
                          /\ requests'[a][n] = c /\ CartVerdict[c] = "ALLOW"
                          /\ used[a] < MaxTx[a]
                          /\ used' = [used EXCEPT ![a] = used[a] + 1]
        /\ UNCHANGED <<signed, revoked, payment, orders>>
  BY AgentCommitEffect
<1>2. Decides(a, n, v) /\ (v = "ALLOW" => decisions[a][n] = <<>>)
  BY <1>1
<1>3. ApprovalsMove(a, n, v)
  BY <1>2, ApprovalsAfter
<1>4. Undecided'
  BY <1>1, DecisionAdded DEF Undecided
<1>5. DecidedOnce'
  <2>1. ASSUME NEW b \in Auths, NEW m \in Nonces, NEW i \in 1..Len(decisions'[b][m]),
               decisions'[b][m][i] = "ALLOW"
        PROVE  i = 1 /\ CartVerdict[requests'[b][m]] = "ALLOW"
    <3>1. CASE i \in 1..Len(decisions[b][m]) /\ decisions[b][m][i] = "ALLOW"
      <4>1. i = 1 /\ CartVerdict[requests[b][m]] = "ALLOW"
        BY <3>1 DEF DecidedOnce
      <4>2. decisions[b][m] # <<>>
        BY <3>1
      <4>3. QED
        BY <1>1, <4>1, <4>2
    <3>2. CASE b = a /\ m = n /\ v = "ALLOW" /\ i = Len(decisions[a][n]) + 1
      <4>1. decisions[a][n] = <<>>
        BY <1>1, <3>2
      <4>2. QED
        BY <1>1, <3>2, <4>1
    <3>3. QED
      <4>1. CASE b = a /\ m = n
        <5>1. /\ Len(decisions[a][n]) \in Nat
              /\ Len(decisions'[a][n]) = Len(decisions[a][n]) + 1
              /\ \A k \in 1..Len(decisions[a][n]) :
                   decisions'[a][n][k] = decisions[a][n][k]
              /\ decisions'[a][n][Len(decisions[a][n]) + 1] = v
          BY <1>2, DecisionAdded
        <5>2. CASE i \in 1..Len(decisions[a][n])
          BY <2>1, <3>1, <4>1, <5>1, <5>2
        <5>3. CASE i = Len(decisions[a][n]) + 1
          BY <2>1, <3>2, <4>1, <5>1, <5>3
        <5>4. QED
          BY <4>1, <5>1, <5>2, <5>3
      <4>2. CASE ~(b = a /\ m = n)
        BY <1>1, <2>1, <3>1, <4>2, DecisionAdded
      <4>3. QED
        BY <4>1, <4>2
  <2>2. QED
    BY <2>1 DEF DecidedOnce
<1>6. Ledger'
  <2>1. ASSUME NEW b \in Auths
        PROVE  /\ IsFiniteSet(Approvals(b)')
               /\ used'[b] = Cardinality(Approvals(b)')
               /\ used'[b] <= MaxTx[b]
    <3>1. /\ IsFiniteSet(Approvals(b)) /\ used[b] = Cardinality(Approvals(b))
          /\ used[b] <= MaxTx[b]
      BY DEF Ledger
    <3>2. CASE v = "ALLOW" /\ b = a
      <4>1. Approvals(b)' = Approvals(b) \cup {<<n, 1>>} /\ <<n, 1>> \notin Approvals(b)
        BY <1>3, <3>2 DEF ApprovalsMove
      <4>2. /\ IsFiniteSet(Approvals(b) \cup {<<n, 1>>})
            /\ Cardinality(Approvals(b) \cup {<<n, 1>>}) = Cardinality(Approvals(b)) + 1
        BY <3>1, <4>1, FS_AddElement
      <4>3. used'[b] = used[b] + 1 /\ used[b] < MaxTx[b]
        BY <1>1, <3>2 DEF Inv, TypeOK
      <4>4. used[b] \in Nat /\ MaxTx[b] \in Nat
        BY ConstantsAssumption DEF Inv, TypeOK
      <4>5. QED
        BY <3>1, <4>1, <4>2, <4>3, <4>4
    <3>3. CASE v # "ALLOW" \/ b # a
      <4>1. Approvals(b)' = Approvals(b)
        BY <1>3, <3>3 DEF ApprovalsMove
      <4>2. used'[b] = used[b]
        BY <1>1, <3>3 DEF Inv, TypeOK
      <4>3. QED
        BY <3>1, <4>1, <4>2
    <3>4. QED
      BY <3>2, <3>3
  <2>2. QED
    BY <2>1 DEF Ledger
<1>7. QED
  BY <1>4, <1>5, <1>6

LEMMA DecidedStep ==
  ASSUME Inv, CommitsSigned, DecidedOnce, Undecided, Ledger, [Next]_vars
  PROVE  DecidedOnce' /\ Undecided' /\ Ledger'
<1>1. signed \subseteq signed'
  BY SignedGrows
<1>2. CASE UNCHANGED <<used, requests, decisions>>
  BY <1>1, <1>2, SameDecided
<1>3. ASSUME NEW w \in Workers, ConfirmInsert(w)
      PROVE  UNCHANGED <<used, requests, decisions>>
  BY <1>3, ConfirmInsertEffect
<1>4. \/ UNCHANGED <<used, requests, decisions>>
      \/ \E w \in Workers : ConfirmInsert(w) \/ AgentCommit(w)
  BY StepEffects
  DEF books, Revoke, CreateOrder, ExecuteCommit, WebhookCommit, SweepCommit
<1>5. QED
  BY <1>2, <1>3, <1>4, AgentDecided

-----------------------------------------------------------------------------
(* The rows of orders *)

\* A webhook and the sweep change the status of a row and nothing else of it.
LEMMA StatusChange ==
  ASSUME Inv, \/ \E w \in Workers : WebhookCommit(w)
              \/ \E o \in Orders : SweepCommit(o)
  PROVE  \E o \in Orders, s \in Statuses :
           /\ payment[o] \in Row
           /\ payment' = [payment EXCEPT ![o] = [payment[o] EXCEPT !.status = s]]
           /\ \/ s \in {"CAPTURED", "AMOUNT_MISMATCH"}
              \/ s = "STALE" /\ payment[o].status = "CREATED"
           /\ UNCHANGED <<signed, revoked, used, requests, decisions, orders>>
<1>1. ASSUME NEW w \in Workers, WebhookCommit(w)
      PROVE  \E o \in Orders, s \in {"CAPTURED", "AMOUNT_MISMATCH"} :
               /\ payment[o] \in Row
               /\ payment' = [payment EXCEPT ![o] = [payment[o] EXCEPT !.status = s]]
               /\ UNCHANGED <<signed, revoked, used, requests, decisions, orders>>
  <2>1. HasRow(job[w].order)
    BY <1>1 DEF WebhookCommit, Inv, WellFormed, JobWellFormed
  <2>2. PICK o \in Orders : o = job[w].order /\ payment[o] \in Row
    BY <2>1, RowType DEF Inv
  <2>3. \E s \in {"CAPTURED", "AMOUNT_MISMATCH"} :
          payment' = [payment EXCEPT ![o] = [payment[o] EXCEPT !.status = s]]
    BY <1>1, <2>2 DEF WebhookCommit, Inv, TypeOK
  <2>4. QED
    BY <1>1, <2>2, <2>3 DEF WebhookCommit
<1>2. ASSUME NEW o \in Orders, SweepCommit(o)
      PROVE  /\ payment[o] \in Row
             /\ payment' = [payment EXCEPT ![o] = [payment[o] EXCEPT !.status = "STALE"]]
             /\ payment[o].status = "CREATED"
             /\ UNCHANGED <<signed, revoked, used, requests, decisions, orders>>
  <2>1. HasRow(o) /\ payment[o].status = "CREATED"
    BY <1>2
    DEF SweepCommit, IsNext, Inv, ReadsStillTrue, SweepReads, Unconfirmed, Created
  <2>2. payment[o] \in Row
    BY <2>1, RowType DEF Inv
  <2>3. QED
    BY <1>2, <2>1, <2>2 DEF SweepCommit, Inv, TypeOK
<1>3. {"CAPTURED", "AMOUNT_MISMATCH"} \subseteq Statuses /\ "STALE" \in Statuses
  BY DEF Statuses
<1>4. CASE \E w \in Workers : WebhookCommit(w)
  BY <1>1, <1>3, <1>4
<1>5. CASE \E o \in Orders : SweepCommit(o)
  BY <1>2, <1>3, <1>5
<1>6. QED
  BY <1>4, <1>5

\* The terms of a row: whose order it is, for which decision and how much.
SameTerms ==
    \A q \in Orders :
        /\ payment'[q] = None <=> payment[q] = None
        /\ payment[q] # None => /\ payment'[q].auth = payment[q].auth
                                /\ payment'[q].nonce = payment[q].nonce
                                /\ payment'[q].dec = payment[q].dec
                                /\ payment'[q].amount = payment[q].amount

LEMMA TermsKept ==
  ASSUME Inv, NEW o \in Orders, NEW s \in Statuses, payment[o] \in Row,
         payment' = [payment EXCEPT ![o] = [payment[o] EXCEPT !.status = s]]
  PROVE  SameTerms
<1> DEFINE r == [payment[o] EXCEPT !.status = s]
<1>1. /\ r \in Row /\ r.auth = payment[o].auth /\ r.nonce = payment[o].nonce
      /\ r.dec = payment[o].dec /\ r.amount = payment[o].amount
  BY DEF Row
<1>2. r # None /\ payment[o] # None
  BY <1>1, NoneAssumption
<1>3. \A q \in Orders : payment'[q] = IF q = o THEN r ELSE payment[q]
  BY DEF Inv, TypeOK
<1> HIDE DEF r
<1>4. QED
  BY <1>1, <1>2, <1>3 DEF SameTerms

\* Approvals stay, and so do the carts they are for.
ApprovalsKept ==
    \A a \in Auths :
        /\ Approvals(a) \subseteq Approvals(a)'
        /\ \A n \in Nonces : decisions[a][n] # <<>> => requests'[a][n] = requests[a][n]

LEMMA BooksGrow ==
  ASSUME Inv, CommitsSigned, Undecided, Ledger, [Next]_vars
  PROVE  ApprovalsKept
<1>1. CASE UNCHANGED <<requests, decisions>>
  BY <1>1, SameApprovals DEF ApprovalsKept
<1>2. ASSUME NEW w \in Workers, AgentCommit(w)
      PROVE  ApprovalsKept
  <2>1. PICK a \in Auths, n \in Nonces, c \in Carts, v \in Verdicts :
          /\ Decides(a, n, v)
          /\ \A b \in Auths, m \in Nonces :
               decisions[b][m] # <<>> => requests'[b][m] = requests[b][m]
          /\ v = "ALLOW" => decisions[a][n] = <<>>
    BY <1>2, AgentCommitEffect
  <2>2. Decides(a, n, v) /\ (v = "ALLOW" => decisions[a][n] = <<>>)
    BY <2>1
  <2>3. ApprovalsMove(a, n, v)
    BY <2>2, ApprovalsAfter
  <2>4. \A b \in Auths : Approvals(b) \subseteq Approvals(b)'
    BY <2>3 DEF ApprovalsMove
  <2>5. QED
    BY <2>1, <2>4 DEF ApprovalsKept
<1>3. ASSUME NEW w \in Workers, ConfirmInsert(w)
      PROVE  UNCHANGED <<requests, decisions>>
  BY <1>3 DEF ConfirmInsert
<1>4. \/ UNCHANGED <<requests, decisions>>
      \/ \E w \in Workers : AgentCommit(w)
  BY <1>3, StepEffects
  DEF books, Revoke, CreateOrder, ExecuteCommit, WebhookCommit, SweepCommit
<1>5. QED
  BY <1>1, <1>2, <1>4

\* What an approval says of its request.
LEMMA ApprovedDecided ==
  ASSUME NEW a, NEW n, NEW i, <<n, i>> \in Approvals(a)
  PROVE  n \in Nonces /\ decisions[a][n] # <<>>
<1>1. n \in Nonces /\ i \in 1..Len(decisions[a][n])
  BY InApprovals
<1>2. decisions[a][n] = <<>> => Len(decisions[a][n]) = 0
  OBVIOUS
<1>3. QED
  BY <1>1, <1>2

LEMMA SameTermsRows ==
  ASSUME Inv, RowsPay, OnePerRequest, SameTerms, ApprovalsKept
  PROVE  RowsPay' /\ OnePerRequest'
<1>1. ASSUME NEW o \in Orders, payment'[o] # None
      PROVE  Pays(payment[o], payment[o].auth)'
  <2>1. HasRow(o)
    BY <1>1 DEF SameTerms, HasRow
  <2>2. PICK a, n, d, t : /\ a = payment[o].auth /\ n = payment[o].nonce
                          /\ d = payment[o].dec /\ t = payment[o].amount
                          /\ a \in Auths /\ n \in Nonces
    BY <2>1, RowType DEF Inv
  <2>3. /\ payment'[o].auth = a /\ payment'[o].nonce = n
        /\ payment'[o].dec = d /\ payment'[o].amount = t
    BY <1>1, <2>2 DEF SameTerms
  <2>4. <<n, d>> \in Approvals(a) /\ t = Total[requests[a][n]]
    BY <2>1, <2>2 DEF RowsPay, Pays, HasRow
  <2>5. <<n, d>> \in Approvals(a)'
    BY <2>2, <2>4 DEF ApprovalsKept
  <2>6. requests'[a][n] = requests[a][n]
    BY <2>2, <2>4, ApprovedDecided DEF ApprovalsKept
  <2>7. QED
    BY <2>3, <2>4, <2>5, <2>6 DEF Pays, Approvals
<1>2. RowsPay'
  BY <1>1 DEF RowsPay
<1>3. OnePerRequest'
  BY DEF SameTerms, OnePerRequest
<1>4. QED
  BY <1>2, <1>3

\* Only a request whose latest decision is one of its approvals is payable.
LEMMA PayableDecision ==
  ASSUME WellFormed, NEW a \in Auths, NEW n \in Nonces, Payable(a, n)
  PROVE  latest[a][n] \in 1..Len(decisions[a][n]) /\ decisions[a][n][latest[a][n]] = "ALLOW"
  BY DEF WellFormed, Payable, LatestDecision

\* The row of a new order pays the one approval of its request, for which no row
\* is recorded yet.
LEMMA ExecuteCommitRows ==
  ASSUME Inv, Backed, DecidedOnce, RowsPay, OnePerRequest, NEW w \in Workers,
         ExecuteCommit(w)
  PROVE  RowsPay' /\ OnePerRequest'
<1>1. PICK o \in Orders, r \in Row, a \in Auths, n \in Nonces :
        /\ o = job[w].order /\ r = NewRow(job[w]) /\ a = job[w].auth /\ n = job[w].nonce
        /\ payment' = [payment EXCEPT ![o] = r]
        /\ pc[w] = "record"
  <2>1. job[w].auth \in Auths /\ job[w].nonce \in Nonces /\ pc[w] = "record"
    BY DEF ExecuteCommit, Inv, WellFormed, JobWellFormed
  <2>2. QED
    BY <2>1, NewRowType
<1>2. /\ \A q \in Orders : payment'[q] = IF q = o THEN r ELSE payment[q]
      /\ payment[o] = None
  BY <1>1 DEF Inv, TypeOK, Backed, NewOrder
<1>3. /\ r.auth = a /\ r.nonce = n /\ r.dec = latest[a][n]
      /\ r.amount = Total[requests[a][n]]
      /\ Payable(a, n) /\ ~RecordedOrder(a, n)
  BY <1>1 DEF NewRow, Inv, ReadsStillTrue, WorkerReads
<1>4. decisions[a][n] \in Seq(Verdicts) /\ UNCHANGED <<requests, decisions>>
  BY DEF Inv, TypeOK, ExecuteCommit
<1>5. <<n, r.dec>> \in Approvals(a) /\ r.dec = 1
  <2>1. latest[a][n] \in 1..Len(decisions[a][n]) /\ decisions[a][n][latest[a][n]] = "ALLOW"
    BY <1>3, PayableDecision DEF Inv
  <2>2. QED
    BY <1>3, <2>1, InApprovals DEF DecidedOnce
<1>6. ASSUME NEW q \in Orders, payment[q] # None, payment[q].auth = a,
             payment[q].nonce = n
      PROVE  FALSE
  <2>1. <<n, payment[q].dec>> \in Approvals(a)
    BY <1>6 DEF RowsPay, Pays
  <2>2. payment[q].dec = 1
    BY <2>1, InApprovals DEF DecidedOnce
  <2>3. QED
    BY <1>3, <1>5, <1>6, <2>2 DEF RecordedOrder
<1>7. RowsPay'
  <2>1. ASSUME NEW q \in Orders, payment'[q] # None
        PROVE  Pays(payment[q], payment[q].auth)'
    <3>1. CASE q = o
      BY <1>2, <1>3, <1>4, <1>5, <3>1 DEF Pays, Approvals
    <3>2. CASE q # o
      <4>1. Pays(payment[q], payment[q].auth) /\ payment'[q] = payment[q]
        BY <1>2, <2>1, <3>2 DEF RowsPay
      <4>2. QED
        BY <1>4, <4>1 DEF Pays, Approvals
    <3>3. QED
      BY <3>1, <3>2
  <2>2. QED
    BY <2>1 DEF RowsPay
<1>8. OnePerRequest'
  BY <1>2, <1>3, <1>6 DEF OnePerRequest
<1>9. QED
  BY <1>7, <1>8

\* No other step inserts a row or changes the terms of one.
LEMMA TermsStep ==
  ASSUME Inv, [Next]_vars
  PROVE  SameTerms \/ \E w \in Workers : ExecuteCommit(w)
<1>1. ASSUME \/ \E w \in Workers : WebhookCommit(w)
             \/ \E o \in Orders : SweepCommit(o)
      PROVE  SameTerms
  BY <1>1, StatusChange, TermsKept
<1>2. CASE UNCHANGED payment
  BY <1>2 DEF SameTerms
<1>3. QED
  BY <1>1, <1>2, StepEffects DEF books, ConfirmInsert, AgentCommit, Revoke, CreateOrder

LEMMA RowsStep ==
  ASSUME Inv, Backed, Balanced, [Next]_vars
  PROVE  RowsPay' /\ OnePerRequest'
  BY BooksGrow, TermsStep, SameTermsRows, ExecuteCommitRows DEF Balanced

\* Orders are accounted for by their rows, or by the handler that is recording
\* them; a fault takes away at most one, because one handler has the lock.
LEMMA AccountedStep ==
  ASSUME Inv, Backed, Accounted, [Next]_vars
  PROVE  Accounted'
<1>1. PICK L \in SUBSET Orders :
        /\ IsFiniteSet(L)
        /\ Cardinality(L) <= faults
        /\ \A i \in 1..Len(orders) \ L : RowOf(i) \/ RecorderOf(i)
  BY DEF Accounted
<1>2. \/ orders' = orders
      \/ \E w \in Workers : CreateOrder(w)
  BY StepEffects
  DEF books, ConfirmInsert, AgentCommit, Revoke, ExecuteCommit, WebhookCommit, SweepCommit
<1>3. /\ orders \in Seq(Order) /\ Len(orders) \in Nat
      /\ 1..Len(orders) \subseteq Orders
  BY ConstantsAssumption DEF Inv, TypeOK, Orders
<1>4. ASSUME NEW w \in Workers, ExecuteCommit(w)
      PROVE  /\ payment'[job[w].order] # None
             /\ payment'[job[w].order].auth = job[w].auth
             /\ \A q \in Orders : payment[q] # None => payment'[q] = payment[q]
  <2>1. PICK o \in Orders, r \in Row :
          /\ o = job[w].order /\ r = NewRow(job[w])
          /\ payment' = [payment EXCEPT ![o] = r] /\ payment[o] = None
    BY <1>4, NewRowType DEF ExecuteCommit, Backed, NewOrder
  <2>2. \A q \in Orders : payment'[q] = IF q = o THEN r ELSE payment[q]
    BY <2>1 DEF Inv, TypeOK
  <2>3. r # None /\ r.auth = job[w].auth
    BY <2>1, NoneAssumption DEF NewRow
  <2>4. QED
    BY <2>1, <2>2, <2>3
<1>5. \A q \in Orders :
        payment[q] # None => payment'[q] # None /\ payment'[q].auth = payment[q].auth
  BY <1>4, TermsStep DEF SameTerms
<1>6. ASSUME NEW i \in 1..Len(orders'),
             ~(i \in 1..Len(orders) /\ orders'[i] = orders[i])
      PROVE  RecorderOf(i)'
  <2>1. PICK w \in Workers : CreateOrder(w)
    BY <1>2, <1>3, <1>6
  <2> DEFINE order == [receipt |-> job[w].auth, amount |-> Total[job[w].cart]]
             k == Len(orders) + 1
  <2>2. /\ orders' = Append(orders, order)
        /\ pc'[w] = "record" /\ job'[w] = [job[w] EXCEPT !.order = k]
    BY <2>1 DEF CreateOrder, Goto, Inv, TypeOK
  <2>3. job[w] \in Job
    BY DEF Inv, TypeOK
  <2>4. job'[w].order = k /\ job'[w].auth = job[w].auth
    BY <2>2, <2>3 DEF Job
  <2>5. order.receipt = job[w].auth
    OBVIOUS
  <2> HIDE DEF order
  <2>6. /\ Len(orders') = k /\ orders'[k] = order
        /\ \A m \in 1..Len(orders) : orders'[m] = orders[m]
    BY <1>3, <2>2
  <2>7. i = k
    BY <1>3, <1>6, <2>6
  <2>8. QED
    BY <2>2, <2>4, <2>5, <2>6, <2>7 DEF RecorderOf
<1>7. ASSUME NEW i \in 1..Len(orders), orders'[i] = orders[i], RowOf(i)
      PROVE  RowOf(i)'
  BY <1>3, <1>5, <1>7 DEF RowOf
<1>8. CASE faults' = faults + 1
  <2>1. PICK x \in Orders \cup {None} : \A i \in 1..Len(orders) : RecorderOf(i) => i = x
    <3>1. ASSUME NEW w \in Workers, NEW v \in Workers, pc[w] = "record", pc[v] = "record"
          PROVE  w = v
      BY <3>1 DEF Inv, LockDiscipline
    <3>2. CASE \E i \in 1..Len(orders) : RecorderOf(i)
      BY <1>3, <3>1, <3>2 DEF RecorderOf
    <3>3. QED
      BY <3>2
  <2> DEFINE M == (L \cup {x}) \cap Orders
  <2>2. IsFiniteSet(M) /\ Cardinality(M) <= faults'
    <3>1. faults \in Nat /\ Cardinality(L) \in Nat
      BY <1>1, FS_CardinalityType DEF Inv, TypeOK
    <3>2. IsFiniteSet(L \cup {x}) /\ Cardinality(L \cup {x}) <= Cardinality(L) + 1
      BY <1>1, <3>1, FS_AddElement
    <3>3. IsFiniteSet(M) /\ Cardinality(M) <= Cardinality(L \cup {x})
      BY <3>2, FS_Subset
    <3>4. Cardinality(M) \in Nat /\ Cardinality(L \cup {x}) \in Nat
      BY <3>2, <3>3, FS_CardinalityType
    <3> HIDE DEF M
    <3>5. QED
      BY <1>1, <1>8, <3>1, <3>2, <3>3, <3>4
  <2>3. ASSUME NEW i \in 1..Len(orders') \ M
        PROVE  RowOf(i)' \/ RecorderOf(i)'
    <3>1. CASE i \in 1..Len(orders) /\ orders'[i] = orders[i]
      BY <1>1, <1>3, <1>7, <2>1, <2>3, <3>1
    <3>2. QED
      BY <1>6, <3>1
  <2>4. QED
    BY <2>2, <2>3 DEF Accounted
<1>9. CASE /\ faults' = faults
           /\ \A w \in Workers :
                pc[w] = "record" =>
                  ExecuteCommit(w) \/ (pc'[w] = "record" /\ job'[w] = job[w])
  <2>1. ASSUME NEW i \in 1..Len(orders), orders'[i] = orders[i], RecorderOf(i)
        PROVE  RowOf(i)' \/ RecorderOf(i)'
    <3>1. PICK w \in Workers : pc[w] = "record" /\ job[w].order = i
                                /\ job[w].auth = orders[i].receipt
      BY <2>1 DEF RecorderOf
    <3>2. CASE ExecuteCommit(w)
      BY <1>4, <2>1, <3>1, <3>2 DEF RowOf
    <3>3. CASE pc'[w] = "record" /\ job'[w] = job[w]
      BY <2>1, <3>1, <3>3 DEF RecorderOf
    <3>4. QED
      BY <1>9, <3>1, <3>2, <3>3
  <2>2. \A i \in 1..Len(orders') \ L : RowOf(i)' \/ RecorderOf(i)'
    BY <1>1, <1>6, <1>7, <2>1
  <2>3. QED
    BY <1>1, <1>9, <2>2 DEF Accounted
<1>10. QED
  BY <1>8, <1>9, RecordingKept

-----------------------------------------------------------------------------
(* The invariant holds *)

LEMMA InitBalanced == Init => Balanced
<1> SUFFICES ASSUME Init
             PROVE  Balanced
  OBVIOUS
<1>1. \A a \in Auths, n \in Nonces : decisions[a][n] = <<>> /\ Len(decisions[a][n]) = 0
  BY DEF Init
<1>2. ASSUME NEW a \in Auths
      PROVE  Approvals(a) = {}
  <2>1. ASSUME NEW x \in Approvals(a)
        PROVE  FALSE
    BY <1>1, InApprovals
  <2>2. QED
    BY <2>1
<1>3. Ledger
  <2>1. \A a \in Auths : used[a] = 0 /\ 0 <= MaxTx[a]
    BY ConstantsAssumption DEF Init
  <2>2. QED
    BY <1>2, <2>1, FS_EmptySet DEF Ledger
<1>4. DecidedOnce /\ Undecided
  BY <1>1 DEF DecidedOnce, Undecided
<1>5. CommitsSigned /\ RowsPay /\ OnePerRequest
  BY DEF Init, CommitsSigned, RowsPay, OnePerRequest
<1>6. Accounted
  <2>1. orders = <<>> /\ faults = 0 /\ {} \in SUBSET Orders
    BY DEF Init
  <2>2. QED
    BY <2>1, FS_EmptySet DEF Accounted
<1>7. QED
  BY <1>3, <1>4, <1>5, <1>6 DEF Balanced

LEMMA BalancedStep ==
  ASSUME Inv, Backed, Balanced, [Next]_vars
  PROVE  Balanced'
<1>1. DecidedOnce' /\ Undecided' /\ Ledger'
  BY DecidedStep DEF Balanced
<1>2. CommitsSigned'
  BY CommitsSignedStep DEF Balanced
<1>3. RowsPay' /\ OnePerRequest'
  BY RowsStep
<1>4. Accounted'
  BY AccountedStep DEF Balanced
<1>5. QED
  BY <1>1, <1>2, <1>3, <1>4 DEF Balanced

\* In every state approvals, used_count, rows and pending orders balance.
THEOREM BalancedInvariance == Spec => []Balanced
<1>1. Inv /\ (Backed /\ SettledByEvents) /\ Balanced /\ [Next]_vars => Balanced'
  BY BalancedStep
<1>2. QED
  BY <1>1, InitBalanced, Invariance, SettlementInvariance, PTL DEF Spec

\* used_count is the number of ALLOW decisions ever stored, and never exceeds
\* max_transactions.
THEOREM ApprovalsWithinBudget == Spec => []WithinBudget
<1>1. Balanced => WithinBudget
  BY DEF Balanced, Ledger, WithinBudget
<1>2. QED
  BY <1>1, BalancedInvariance, PTL

\* Every recorded order pays an ALLOW decision, for the cart that was evaluated, and
\* no decision has two.
THEOREM OrdersPayApprovals == Spec => []OrdersMatchApprovals
<1>1. ASSUME Inv, Balanced
      PROVE  OrdersMatchApprovals
  <2>1. ASSUME NEW o \in Recorded
        PROVE  /\ <<payment[o].nonce, payment[o].dec>> \in Approvals(payment[o].auth)
               /\ CartVerdict[requests[payment[o].auth][payment[o].nonce]] = "ALLOW"
               /\ payment[o].amount = Total[requests[payment[o].auth][payment[o].nonce]]
    <3>1. HasRow(o)
      BY DEF Recorded, HasRow
    <3>2. PICK a \in Auths, n \in Nonces : a = payment[o].auth /\ n = payment[o].nonce
      BY <1>1, <3>1, RowType DEF Inv
    <3>3. Pays(payment[o], a)
      BY <1>1, <3>1, <3>2 DEF Balanced, RowsPay, HasRow
    <3>4. CartVerdict[requests[a][n]] = "ALLOW"
      BY <1>1, <3>2, <3>3, InApprovals DEF Balanced, DecidedOnce, Pays
    <3>5. QED
      BY <3>2, <3>3, <3>4 DEF Pays
  <2>2. ASSUME NEW o \in Recorded, NEW q \in Recorded, o # q
        PROVE  <<payment[o].auth, payment[o].nonce, payment[o].dec>>
                 # <<payment[q].auth, payment[q].nonce, payment[q].dec>>
    BY <1>1, <2>2 DEF Balanced, OnePerRequest, Recorded
  <2>3. QED
    BY <2>1, <2>2 DEF OrdersMatchApprovals
<1>2. Inv /\ Balanced => OrdersMatchApprovals
  BY <1>1
<1>3. QED
  BY <1>2, Invariance, BalancedInvariance, PTL

(***************************************************************************)
(* An order of the provider that is not lost uses up the approval of its   *)
(* row, or the one its handler is about to record; two orders never use    *)
(* the same, so they are no more than the approvals.                       *)
(***************************************************************************)
UsesUp(i, a, x) ==
    \/ /\ i \in Orders /\ payment[i] # None /\ payment[i].auth = a
       /\ x = <<payment[i].nonce, payment[i].dec>>
    \/ \E w \in Workers : /\ pc[w] = "record" /\ job[w].order = i /\ job[w].auth = a
                          /\ x = <<job[w].nonce, job[w].dec>>

LEMMA UsesUpAnApproval ==
  ASSUME Inv, Balanced, NEW i \in 1..Len(orders), RowOf(i) \/ RecorderOf(i)
  PROVE  \E x \in Approvals(orders[i].receipt) : UsesUp(i, orders[i].receipt, x)
<1>1. i \in Orders
  BY ConstantsAssumption DEF Inv, TypeOK, Orders
<1>2. CASE payment[i] # None /\ payment[i].auth = orders[i].receipt
  BY <1>1, <1>2 DEF Balanced, RowsPay, Pays, UsesUp
<1>3. ASSUME NEW w \in Workers, pc[w] = "record", job[w].order = i,
             job[w].auth = orders[i].receipt
      PROVE  \E x \in Approvals(orders[i].receipt) : UsesUp(i, orders[i].receipt, x)
  <2>1. PICK a \in Auths, n \in Nonces : a = job[w].auth /\ n = job[w].nonce
    BY <1>3 DEF Inv, WellFormed, JobWellFormed
  <2>2. job[w].dec = latest[a][n] /\ Payable(a, n)
    BY <1>3, <2>1 DEF Inv, ReadsStillTrue, WorkerReads
  <2>3. latest[a][n] \in 1..Len(decisions[a][n]) /\ decisions[a][n][latest[a][n]] = "ALLOW"
    BY <2>2, PayableDecision DEF Inv
  <2>4. <<n, job[w].dec>> \in Approvals(a)
    BY <2>2, <2>3, InApprovals
  <2>5. UsesUp(i, a, <<n, job[w].dec>>)
    BY <1>3, <2>1 DEF UsesUp
  <2>6. QED
    BY <1>3, <2>1, <2>4, <2>5
<1>4. QED
  BY <1>2, <1>3 DEF RowOf, RecorderOf

LEMMA UsedUpOnce ==
  ASSUME Inv, Backed, Balanced, NEW i, NEW k, NEW a, NEW x,
         UsesUp(i, a, x), UsesUp(k, a, x)
  PROVE  i = k
<1>1. ASSUME NEW o \in Orders, payment[o] # None, payment[o].auth = a,
             x = <<payment[o].nonce, payment[o].dec>>,
             NEW w \in Workers, pc[w] = "record", job[w].auth = a,
             x = <<job[w].nonce, job[w].dec>>
      PROVE  FALSE
  BY <1>1 DEF Inv, ReadsStillTrue, WorkerReads, RecordedOrder
<1>2. ASSUME NEW w \in Workers, NEW v \in Workers, pc[w] = "record", pc[v] = "record"
      PROVE  w = v
  BY <1>2 DEF Inv, LockDiscipline
<1>3. ASSUME NEW o \in Orders, NEW q \in Orders, payment[o] # None, payment[q] # None,
             payment[o].auth = a, payment[q].auth = a,
             x = <<payment[o].nonce, payment[o].dec>>,
             x = <<payment[q].nonce, payment[q].dec>>
      PROVE  o = q
  BY <1>3 DEF Balanced, OnePerRequest
<1>4. QED
  BY <1>1, <1>2, <1>3 DEF UsesUp

LEMMA OrdersFinite ==
  ASSUME Inv, NEW S \in SUBSET (1..Len(orders))
  PROVE  IsFiniteSet(S) /\ Cardinality(S) \in Nat
<1>1. Len(orders) \in Nat
  BY DEF Inv, TypeOK
<1>2. IsFiniteSet(1..Len(orders))
  BY <1>1, FS_Interval
<1>3. IsFiniteSet(S)
  BY <1>2, FS_Subset
<1>4. QED
  BY <1>3, FS_CardinalityType

LEMMA OrdersCounted ==
  ASSUME Inv, Backed, Balanced, NEW a \in Auths, NEW L, IsFiniteSet(L),
         Cardinality(L) <= faults,
         \A i \in 1..Len(orders) \ L : RowOf(i) \/ RecorderOf(i)
  PROVE  Cardinality({i \in 1..Len(orders) : orders[i].receipt = a}) <= used[a] + faults
<1> DEFINE All == {i \in 1..Len(orders) : orders[i].receipt = a}
           S == All \ L
           T == Approvals(a)
           f == [i \in S |-> CHOOSE x \in T : UsesUp(i, a, x)]
<1>1. ASSUME NEW i \in S
      PROVE  f[i] \in T /\ UsesUp(i, a, f[i])
  <2>1. \E x \in T : UsesUp(i, a, x)
    BY UsesUpAnApproval
  <2> HIDE DEF T
  <2>2. QED
    BY <2>1
<1>2. f \in [S -> T]
  <2>1. \A i \in S : f[i] \in T
    BY <1>1
  <2> HIDE DEF T, S
  <2>2. QED
    BY <2>1
<1>3. \A i, k \in S : f[i] = f[k] => i = k
  BY <1>1, UsedUpOnce
<1>4. f \in Injection(S, T)
  <2> HIDE DEF f, S, T
  <2>1. QED
    BY <1>2, <1>3 DEF Injection, IsInjective
<1>5. /\ IsFiniteSet(T) /\ used[a] = Cardinality(T)
      /\ Len(orders) \in Nat /\ faults \in Nat /\ used[a] \in Nat
  BY DEF Balanced, Ledger, Inv, TypeOK
<1>6. IsFiniteSet(All)
  <2>1. All \in SUBSET (1..Len(orders))
    OBVIOUS
  <2> HIDE DEF All, S, T, f
  <2>2. QED
    BY <2>1, OrdersFinite
<1> HIDE DEF f, S, T
<1>7. IsFiniteSet(S) /\ Cardinality(S) <= used[a]
  BY <1>4, <1>5, FS_Injection
<1>8. IsFiniteSet(S \cup L) /\ Cardinality(S \cup L) <= Cardinality(S) + Cardinality(L)
  <2>1. IsFiniteSet(S \cap L)
    BY <1>7, FS_Subset
  <2>2. Cardinality(S) \in Nat /\ Cardinality(L) \in Nat /\ Cardinality(S \cap L) \in Nat
    BY <1>7, <2>1, FS_CardinalityType
  <2>3. /\ IsFiniteSet(S \cup L)
        /\ Cardinality(S \cup L) = Cardinality(S) + Cardinality(L) - Cardinality(S \cap L)
    BY <1>7, FS_Union
  <2>4. QED
    BY <2>2, <2>3
<1> HIDE DEF All
<1>9. All \subseteq S \cup L
  BY DEF S
<1>10. Cardinality(All) <= Cardinality(S \cup L)
  BY <1>8, <1>9, FS_Subset
<1>11. /\ Cardinality(All) \in Nat /\ Cardinality(S) \in Nat /\ Cardinality(L) \in Nat
       /\ Cardinality(S \cup L) \in Nat
  BY <1>6, <1>7, <1>8, FS_CardinalityType
<1>12. Cardinality(All) <= used[a] + faults
  BY <1>5, <1>7, <1>8, <1>10, <1>11
<1>13. QED
  BY <1>12 DEF All

\* Each fault costs at most one order: the provider is asked for no more orders than
\* the mandate approved and one for each order lost, and what is not lost has its row
\* or a handler about to record it.
THEOREM ProviderOrdersWithinBudget == Spec => []ProviderWithinBudget
<1>1. ASSUME Inv, Backed, Balanced
      PROVE  ProviderWithinBudget
  <2>1. PICK L \in SUBSET Orders :
          /\ IsFiniteSet(L)
          /\ Cardinality(L) <= faults
          /\ \A i \in 1..Len(orders) \ L : RowOf(i) \/ RecorderOf(i)
    BY <1>1 DEF Balanced, Accounted
  <2>2. Lost \subseteq L
    <3>1. \A i \in 1..Len(orders) : i \in Orders
      BY <1>1, ConstantsAssumption DEF Inv, TypeOK, Orders
    <3>2. QED
      BY <2>1, <3>1 DEF Lost, RowOf, RecorderOf, HasRow
  <2>3. Cardinality(Lost) <= faults
    <3>1. IsFiniteSet(Lost) /\ Cardinality(Lost) <= Cardinality(L)
      BY <2>1, <2>2, FS_Subset
    <3>2. Cardinality(Lost) \in Nat /\ Cardinality(L) \in Nat /\ faults \in Nat
      BY <1>1, <2>1, <3>1, FS_CardinalityType DEF Inv, TypeOK
    <3>3. QED
      BY <2>1, <3>1, <3>2
  <2>4. QED
    BY <1>1, <2>1, <2>3, OrdersCounted DEF ProviderWithinBudget
<1>2. Inv /\ (Backed /\ SettledByEvents) /\ Balanced => ProviderWithinBudget
  BY <1>1
<1>3. QED
  BY <1>2, Invariance, SettlementInvariance, BalancedInvariance, PTL

-----------------------------------------------------------------------------
(* How far the code departs from what its documents say *)

\* A second order for a use of the mandate takes a fault: as long as the process has
\* not died and no call has failed, orders.create is called once per use.
THEOREM OneOrderUnlessFault == Spec => [](faults = 0 => NoSecondProviderOrder)
<1>1. ASSUME Inv, WithinBudget, ProviderWithinBudget, faults = 0
      PROVE  NoSecondProviderOrder
  <2> SUFFICES ASSUME NEW a \in Auths
               PROVE  Cardinality({i \in 1..Len(orders) : orders[i].receipt = a}) <= MaxTx[a]
    BY DEF NoSecondProviderOrder
  <2> DEFINE S == {i \in 1..Len(orders) : orders[i].receipt = a}
  <2>1. Cardinality(S) <= used[a] + faults /\ used[a] <= MaxTx[a]
    BY <1>1 DEF WithinBudget, ProviderWithinBudget
  <2>2. used[a] \in Nat /\ MaxTx[a] \in Nat /\ Len(orders) \in Nat
    BY <1>1, ConstantsAssumption DEF Inv, TypeOK
  <2>3. S \in SUBSET (1..Len(orders))
    OBVIOUS
  <2> HIDE DEF S
  <2>4. Cardinality(S) \in Nat
    BY <1>1, <2>3, OrdersFinite
  <2>5. Cardinality(S) <= MaxTx[a]
    BY <1>1, <2>1, <2>2, <2>4
  <2>6. QED
    BY <2>5 DEF S
<1>2. Inv /\ WithinBudget /\ ProviderWithinBudget => (faults = 0 => NoSecondProviderOrder)
  BY <1>1
<1>3. QED
  BY <1>2, Invariance, ApprovalsWithinBudget, ProviderOrdersWithinBudget, PTL

\* /payment/execute for the request of row r is answered with an existing order.
RetryAnswered(r) == Payable(r.auth, r.nonce) /\ RecordedOrder(r.auth, r.nonce)

\* A retry of /payment/execute is answered with the existing order as long as the
\* agent's request was not submitted again, through faults and whatever the clock does.
THEOREM RetryUnlessReplayed ==
  Spec => [](\A o \in Recorded :
               LET r == payment[o] IN
               r.auth \notin revoked /\ Len(decisions[r.auth][r.nonce]) = 1
                 => RetryAnswered(r))
<1>1. ASSUME Inv, Balanced, NEW o \in Recorded, payment[o].auth \notin revoked,
             Len(decisions[payment[o].auth][payment[o].nonce]) = 1
      PROVE  RetryAnswered(payment[o])
  <2>1. PICK a \in Auths, n \in Nonces : a = payment[o].auth /\ n = payment[o].nonce
    BY <1>1, RowType DEF Inv, Recorded, HasRow
  <2>2. <<n, payment[o].dec>> \in Approvals(a)
    BY <1>1, <2>1 DEF Balanced, RowsPay, Pays, Recorded
  <2>3. payment[o].dec \in 1..Len(decisions[a][n])
        /\ decisions[a][n][payment[o].dec] = "ALLOW"
    BY <1>1, <2>1, <2>2, InApprovals
  <2>4. latest[a][n] = 1 /\ payment[o].dec = 1 /\ decisions[a][n] # <<>>
    <3>1. Len(decisions[a][n]) = 1 /\ decisions[a][n] # <<>>
      BY <1>1, <2>1
    <3>2. latest[a][n] \in 0..1 /\ latest[a][n] # 0
      BY <1>1, <3>1 DEF Inv, WellFormed
    <3>3. payment[o].dec \in 1..1
      BY <2>3, <3>1
    <3>4. QED
      BY <3>1, <3>2, <3>3
  <2>5. a \in signed
    BY <1>1, <2>4 DEF Balanced, Undecided
  <2>6. Payable(a, n)
    BY <1>1, <2>1, <2>3, <2>4, <2>5 DEF Payable, LatestDecision
  <2>7. RecordedOrder(a, n)
    BY <1>1, <2>1, <2>4 DEF RecordedOrder, Recorded
  <2>8. QED
    BY <2>1, <2>6, <2>7 DEF RetryAnswered
<1> DEFINE P == \A o \in Recorded :
                  LET r == payment[o] IN
                  r.auth \notin revoked /\ Len(decisions[r.auth][r.nonce]) = 1
                    => RetryAnswered(r)
<1>2. Inv /\ Balanced => P
  BY <1>1
<1> HIDE DEF P
<1>3. Spec => []P
  BY <1>2, Invariance, BalancedInvariance, PTL
<1>4. QED
  BY <1>3 DEF P

-----------------------------------------------------------------------------
(***************************************************************************)
(* The refinement.  The stage of a request is the status of its one row,   *)
(* so a step that inserts a row or changes its status moves one stage.     *)
(***************************************************************************)
RowsOf(p, a, n) == {o \in Orders : p[o] # None /\ p[o].auth = a /\ p[o].nonce = n}

StageIn(p, a, n) ==
    IF RowsOf(p, a, n) = {} THEN "none" ELSE p[Only(RowsOf(p, a, n))].status

OneRow(p) ==
    \A o, q \in Orders :
        /\ p[o] # None /\ p[q] # None
        /\ p[o].auth = p[q].auth /\ p[o].nonce = p[q].nonce
        => o = q

LEMMA StageOfRow ==
  ASSUME NEW p, OneRow(p), NEW o \in Orders, p[o] # None
  PROVE  StageIn(p, p[o].auth, p[o].nonce) = p[o].status
<1>1. RowsOf(p, p[o].auth, p[o].nonce) = {o}
  BY DEF RowsOf, OneRow
<1>2. Only({o}) = o
  BY DEF Only
<1>3. QED
  BY <1>1, <1>2 DEF StageIn

LEMMA StageIsStageIn ==
  ASSUME NEW a, NEW n
  PROVE  Stage(a, n) = StageIn(payment, a, n) /\ Stage(a, n)' = StageIn(payment', a, n)
<1>1. {o \in RecordedFor(a) : payment[o].nonce = n} = RowsOf(payment, a, n)
  BY DEF RecordedFor, Recorded, RowsOf
<1>2. {o \in RecordedFor(a)' : payment'[o].nonce = n} = RowsOf(payment', a, n)
  BY DEF RecordedFor, Recorded, RowsOf
<1>3. QED
  BY <1>1, <1>2 DEF Stage, StageIn

\* Row o becomes r, which is for the same request as before if there was one.
Put(p, o, r, q) == \A k \in Orders : q[k] = IF k = o THEN r ELSE p[k]

LEMMA StageMoves ==
  ASSUME NEW p, NEW q, NEW o \in Orders, NEW r, Put(p, o, r, q), OneRow(p), OneRow(q),
         r # None, NEW a, NEW n, r.auth = a, r.nonce = n,
         p[o] # None => p[o].auth = a /\ p[o].nonce = n
  PROVE  /\ StageIn(q, a, n) = r.status
         /\ StageIn(p, a, n) = IF p[o] = None THEN "none" ELSE p[o].status
         /\ \A b, m : b # a \/ m # n => StageIn(q, b, m) = StageIn(p, b, m)
<1>1. /\ StageIn(q, a, n) = r.status
      /\ StageIn(p, a, n) = IF p[o] = None THEN "none" ELSE p[o].status
  <2>1. q[o] = r
    BY DEF Put
  <2>2. StageIn(q, a, n) = r.status
    BY <2>1, StageOfRow
  <2>3. CASE p[o] # None
    BY <2>2, <2>3, StageOfRow
  <2>4. CASE p[o] = None
    <3>1. ASSUME NEW k \in RowsOf(p, a, n)
          PROVE  FALSE
      BY <2>1, <2>4, <3>1 DEF RowsOf, Put, OneRow
    <3>2. RowsOf(p, a, n) = {}
      BY <3>1
    <3>3. QED
      BY <2>2, <2>4, <3>2 DEF StageIn
  <2>5. QED
    BY <2>3, <2>4
<1>2. ASSUME NEW b, NEW m, b # a \/ m # n
      PROVE  StageIn(q, b, m) = StageIn(p, b, m)
  <2>1. o \notin RowsOf(p, b, m) /\ o \notin RowsOf(q, b, m)
    BY <1>2 DEF RowsOf, Put
  <2>2. RowsOf(p, b, m) = RowsOf(q, b, m)
    BY <2>1 DEF RowsOf, Put
  <2>3. CASE RowsOf(p, b, m) = {}
    BY <2>2, <2>3 DEF StageIn
  <2>4. CASE RowsOf(p, b, m) # {}
    <3>1. PICK k : k = Only(RowsOf(p, b, m))
      OBVIOUS
    <3>2. k \in RowsOf(p, b, m)
      BY <2>4, <3>1 DEF Only
    <3>3. p[k] = q[k]
      BY <2>1, <3>2 DEF RowsOf, Put
    <3>4. QED
      BY <2>2, <2>4, <3>1, <3>3 DEF StageIn
  <2>5. QED
    BY <2>3, <2>4
<1>3. QED
  BY <1>1, <1>2

\* What Mandate sees of a state.
approvals == [a \in Auths |-> ApprovedRequests(a)]
stages == [a \in Auths |-> [n \in Nonces |-> Stage(a, n)]]

LEMMA SameStages == UNCHANGED payment => stages' = stages
  BY DEF stages, Stage, RecordedFor, Recorded

LEMMA SameApproved == UNCHANGED decisions => approvals' = approvals
  BY DEF approvals, ApprovedRequests

\* The change of one row, seen as a move of the stage of its request.
Restage(a, n, to) ==
    stages' = [stages EXCEPT ![a] = [stages[a] EXCEPT ![n] = to]]

LEMMA StageMove ==
  ASSUME OnePerRequest, OnePerRequest', NEW o \in Orders, NEW r \in Row,
         Put(payment, o, r, payment'), NEW a \in Auths, NEW n \in Nonces,
         r.auth = a, r.nonce = n,
         payment[o] # None => payment[o].auth = a /\ payment[o].nonce = n
  PROVE  /\ stages[a][n] = IF payment[o] = None THEN "none" ELSE payment[o].status
         /\ Restage(a, n, r.status)
<1>1. r # None /\ OneRow(payment) /\ OneRow(payment')
  BY NoneAssumption DEF OnePerRequest, OneRow
<1>2. /\ StageIn(payment', a, n) = r.status
      /\ StageIn(payment, a, n) = IF payment[o] = None THEN "none" ELSE payment[o].status
      /\ \A b, m : b # a \/ m # n => StageIn(payment', b, m) = StageIn(payment, b, m)
  BY <1>1, StageMoves
<1>3. /\ Stage(a, n)' = r.status
      /\ Stage(a, n) = IF payment[o] = None THEN "none" ELSE payment[o].status
      /\ \A b, m : b # a \/ m # n => Stage(b, m)' = Stage(b, m)
  BY <1>2, StageIsStageIn
<1>4. stages[a][n] = IF payment[o] = None THEN "none" ELSE payment[o].status
  BY <1>3 DEF stages
<1>5. \A b \in Auths, m \in Nonces :
        Stage(b, m)' = IF b = a /\ m = n THEN r.status ELSE Stage(b, m)
  BY <1>3
<1>6. Restage(a, n, r.status)
  <2>1. PICK to : to = r.status
    OBVIOUS
  <2>2. stages' = [b \in Auths |-> [m \in Nonces |->
                     IF b = a /\ m = n THEN to ELSE Stage(b, m)]]
    BY <1>5, <2>1 DEF stages
  <2>3. [stages EXCEPT ![a] = [stages[a] EXCEPT ![n] = to]]
          = [b \in Auths |-> [m \in Nonces |->
               IF b = a /\ m = n THEN to ELSE Stage(b, m)]]
    BY DEF stages
  <2>4. QED
    BY <2>1, <2>2, <2>3 DEF Restage
<1>7. QED
  BY <1>4, <1>6

\* The actions of Mandate, in terms of what it sees.
LEMMA PromiseStutters ==
  ASSUME UNCHANGED <<signed, revoked, used, decisions, payment>>
  PROVE  UNCHANGED Promise!vars
  BY DEF Promise!vars, ApprovedRequests, Stage, RecordedFor, Recorded

LEMMA PromiseSign ==
  ASSUME NEW a \in Auths, a \notin signed, signed' = signed \cup {a},
         UNCHANGED <<revoked, used, approvals, stages>>
  PROVE  Promise!Next
<1>1. Promise!Sign(a)
  BY DEF Promise!Sign, approvals, stages
<1>2. QED
  BY <1>1 DEF Promise!Next

LEMMA PromiseRevoke ==
  ASSUME NEW a \in Auths, a \in signed, revoked' = revoked \cup {a},
         UNCHANGED <<signed, used, approvals, stages>>
  PROVE  Promise!Next
<1>1. Promise!Revoke(a)
  BY DEF Promise!Revoke, approvals, stages
<1>2. QED
  BY <1>1 DEF Promise!Next

LEMMA PromiseApprove ==
  ASSUME NEW a \in Auths, NEW n \in Nonces,
         a \in signed, a \notin revoked, n \notin approvals[a], used[a] < MaxTx[a],
         used' = [used EXCEPT ![a] = used[a] + 1],
         approvals' = [approvals EXCEPT ![a] = approvals[a] \cup {n}],
         UNCHANGED <<signed, revoked, stages>>
  PROVE  Promise!Next
<1>1. Promise!Approve(a, n)
  BY DEF Promise!Approve, approvals, stages
<1>2. QED
  BY <1>1 DEF Promise!Next

LEMMA PromiseMove ==
  ASSUME NEW a \in Auths, NEW n \in Nonces, NEW to, Restage(a, n, to),
         UNCHANGED <<signed, revoked, used, approvals>>,
         \/ /\ n \in approvals[a] /\ a \notin revoked
            /\ stages[a][n] = "none" /\ to = "CREATED"
         \/ stages[a][n] = "CREATED" /\ to = "STALE"
         \/ /\ stages[a][n] \in {"CREATED", "STALE", "CAPTURED", "AMOUNT_MISMATCH"}
            /\ to \in {"CAPTURED", "AMOUNT_MISMATCH"}
  PROVE  Promise!Next
<1>1. ASSUME NEW from, stages[a][n] \in from
      PROVE  Promise!Move(a, n, from, to)
  BY <1>1 DEF Promise!Move, Restage, approvals, stages
<1>2. \/ Promise!Place(a, n) \/ Promise!MarkStale(a, n) \/ Promise!Settle(a, n)
  BY <1>1 DEF Promise!Place, Promise!MarkStale, Promise!Settle, approvals
<1>3. QED
  BY <1>2 DEF Promise!Next

LEMMA ConfirmRefines ==
  ASSUME Inv, Undecided, Ledger, NEW w \in Workers, ConfirmInsert(w)
  PROVE  [Promise!Next]_(Promise!vars)
<1>1. UNCHANGED <<revoked, used, approvals, stages, decisions, payment>>
  BY ConfirmInsertEffect, SameStages, SameApproved
<1>2. signed' = signed \/ \E a \in Auths : a \notin signed /\ signed' = signed \cup {a}
  BY ConfirmInsertEffect
<1>3. QED
  BY <1>1, <1>2, PromiseSign, PromiseStutters

LEMMA RevokeRefines ==
  ASSUME Inv, NEW w \in Workers, Revoke(w)
  PROVE  Promise!Next
<1>1. PICK a \in Auths : a = job[w].auth
  BY DEF Revoke, Inv, WellFormed, JobWellFormed
<1>2. /\ a \in signed /\ revoked' = revoked \cup {a}
      /\ UNCHANGED <<signed, used, decisions, payment>>
  BY <1>1 DEF Revoke
<1>3. UNCHANGED <<approvals, stages>>
  BY <1>2, SameStages, SameApproved
<1>4. QED
  BY <1>2, <1>3, PromiseRevoke

LEMMA AgentRefines ==
  ASSUME Inv, CommitsSigned, NEW w \in Workers, AgentCommit(w)
  PROVE  [Promise!Next]_(Promise!vars)
<1>1. PICK a \in Auths, n \in Nonces, c \in Carts, v \in Verdicts :
        /\ a \in signed
        /\ Decides(a, n, v)
        /\ v # "ALLOW" => used' = used
        /\ v = "ALLOW" => /\ a \notin revoked
                          /\ decisions[a][n] = <<>>
                          /\ used[a] < MaxTx[a]
                          /\ used' = [used EXCEPT ![a] = used[a] + 1]
        /\ UNCHANGED <<signed, revoked, payment>>
  BY AgentCommitEffect
<1>2. Decides(a, n, v) /\ (v = "ALLOW" => decisions[a][n] = <<>>)
  BY <1>1
<1>3. ApprovalsMove(a, n, v)
  BY <1>2, ApprovalsAfter
<1>4. stages' = stages
  BY <1>1, SameStages
<1>5. CASE v = "ALLOW"
  <2>1. \A b \in Auths :
          ApprovedRequests(b)' = IF b = a THEN ApprovedRequests(b) \cup {n}
                                          ELSE ApprovedRequests(b)
    BY <1>3, <1>5 DEF ApprovalsMove
  <2>2. n \notin ApprovedRequests(a)
    BY <1>3, <1>5 DEF ApprovalsMove
  <2>3. approvals' = [approvals EXCEPT ![a] = approvals[a] \cup {n}]
    BY <2>1 DEF approvals
  <2>4. n \notin approvals[a]
    BY <2>2 DEF approvals
  <2>5. QED
    BY <1>1, <1>4, <1>5, <2>3, <2>4, PromiseApprove
<1>6. CASE v # "ALLOW"
  <2>1. \A b \in Auths : ApprovedRequests(b)' = ApprovedRequests(b)
    BY <1>3, <1>6 DEF ApprovalsMove
  <2>2. approvals' = approvals
    BY <2>1 DEF approvals
  <2>3. QED
    BY <1>1, <1>4, <1>6, <2>2 DEF Promise!vars, approvals, stages
<1>7. QED
  BY <1>5, <1>6

LEMMA ExecuteRefines ==
  ASSUME Inv, Backed, DecidedOnce, OnePerRequest, OnePerRequest', NEW w \in Workers,
         ExecuteCommit(w)
  PROVE  Promise!Next
<1>1. PICK o \in Orders, r \in Row, a \in Auths, n \in Nonces :
        /\ o = job[w].order /\ r = NewRow(job[w]) /\ a = job[w].auth /\ n = job[w].nonce
        /\ Put(payment, o, r, payment') /\ payment[o] = None
        /\ UNCHANGED <<signed, revoked, used, decisions>>
  <2>1. job[w].auth \in Auths /\ job[w].nonce \in Nonces
    BY DEF ExecuteCommit, Inv, WellFormed, JobWellFormed
  <2>2. PICK o \in Orders, r \in Row :
          /\ o = job[w].order /\ r = NewRow(job[w])
          /\ payment' = [payment EXCEPT ![o] = r] /\ payment[o] = None
    BY NewRowType DEF ExecuteCommit, Backed, NewOrder
  <2>3. Put(payment, o, r, payment')
    BY <2>2 DEF Put, Inv, TypeOK
  <2>4. UNCHANGED <<signed, revoked, used, decisions>>
    BY DEF ExecuteCommit
  <2>5. QED
    BY <2>1, <2>2, <2>3, <2>4
<1>2. r.auth = a /\ r.nonce = n /\ r.status = "CREATED"
  BY <1>1 DEF NewRow
<1>3. Payable(a, n)
  BY <1>1 DEF ExecuteCommit, Inv, ReadsStillTrue, WorkerReads
<1>4. stages[a][n] = "none" /\ Restage(a, n, "CREATED")
  BY <1>1, <1>2, StageMove
<1>5. n \in approvals[a] /\ a \notin revoked
  <2>1. latest[a][n] \in 1..Len(decisions[a][n]) /\ decisions[a][n][latest[a][n]] = "ALLOW"
    BY <1>1, <1>3, PayableDecision DEF Inv
  <2>2. n \in ApprovedRequests(a)
    BY <1>1, <2>1 DEF ApprovedRequests
  <2>3. QED
    BY <1>3, <2>2 DEF approvals, Payable
<1>6. approvals' = approvals
  BY <1>1, SameApproved
<1>7. QED
  BY <1>1, <1>4, <1>5, <1>6, PromiseMove

LEMMA StatusRefines ==
  ASSUME Inv, OnePerRequest, OnePerRequest',
         \/ \E w \in Workers : WebhookCommit(w)
         \/ \E o \in Orders : SweepCommit(o)
  PROVE  Promise!Next
<1>1. PICK o \in Orders, s \in Statuses :
        /\ payment[o] \in Row
        /\ payment' = [payment EXCEPT ![o] = [payment[o] EXCEPT !.status = s]]
        /\ \/ s \in {"CAPTURED", "AMOUNT_MISMATCH"}
           \/ s = "STALE" /\ payment[o].status = "CREATED"
        /\ UNCHANGED <<signed, revoked, used, requests, decisions, orders>>
  BY StatusChange
<1>2. PICK a, n, r :
        /\ a \in Auths /\ n \in Nonces
        /\ a = payment[o].auth /\ n = payment[o].nonce
        /\ r = [payment[o] EXCEPT !.status = s]
  BY <1>1 DEF Row
<1>3. r \in Row /\ r.auth = a /\ r.nonce = n /\ r.status = s
  BY <1>1, <1>2 DEF Row
<1>4. payment[o] # None /\ Put(payment, o, r, payment')
  BY <1>1, <1>2, NoneAssumption DEF Put, Inv, TypeOK
<1>5. stages[a][n] = payment[o].status /\ Restage(a, n, s)
  BY <1>2, <1>3, <1>4, StageMove
<1>6. payment[o].status \in Statuses
  BY <1>1 DEF Row
<1>7. approvals' = approvals
  BY <1>1, SameApproved
<1>8. QED
  BY <1>1, <1>2, <1>5, <1>6, <1>7, PromiseMove DEF Statuses

LEMMA RefinementStep ==
  ASSUME Inv, Backed, Balanced, Balanced', [Next]_vars
  PROVE  [Promise!Next]_(Promise!vars)
<1>1. CASE UNCHANGED <<signed, revoked, used, decisions, payment>>
  BY <1>1, PromiseStutters
<1>2. \/ UNCHANGED <<signed, revoked, used, decisions, payment>>
      \/ \E w \in Workers : ConfirmInsert(w) \/ AgentCommit(w) \/ Revoke(w)
                            \/ ExecuteCommit(w)
      \/ \E w \in Workers : WebhookCommit(w)
      \/ \E o \in Orders : SweepCommit(o)
  BY StepEffects DEF books, CreateOrder
<1>3. QED
  BY <1>1, <1>2, ConfirmRefines, RevokeRefines, AgentRefines, ExecuteRefines,
     StatusRefines
  DEF Balanced

\* The interleaved handlers implement the abstract mandate: each commit is one of
\* its steps and every other step is invisible to it.
THEOREM Refinement == Spec => ImplementsMandate
<1>1. Init => Promise!Init
  <2>1. SUFFICES ASSUME Init
                 PROVE  Promise!Init
    OBVIOUS
  <2>2. \A a \in Auths : ApprovedRequests(a) = {}
    BY <2>1 DEF Init, ApprovedRequests
  <2>3. \A a \in Auths, n \in Nonces : Stage(a, n) = "none"
    BY <2>1 DEF Init, Stage, RecordedFor, Recorded
  <2>4. QED
    BY <2>1, <2>2, <2>3 DEF Promise!Init, Init
<1>2. Inv /\ (Backed /\ SettledByEvents) /\ Balanced /\ Balanced' /\ [Next]_vars
        => [Promise!Next]_(Promise!vars)
  BY RefinementStep
<1>3. QED
  BY <1>1, <1>2, Invariance, SettlementInvariance, BalancedInvariance, PTL
  DEF Spec, ImplementsMandate, Promise!Spec
=============================================================================

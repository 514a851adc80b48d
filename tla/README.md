# Verification of the agentic authorization firewall

TLA+ models of the server in `app/`, an HTTP API that evaluates an AI agent's
purchase requests against a mandate its user signed, creates orders at a payment
provider, records their outcome, and keeps a hash-chained log of all of it; and of
the dashboard in `apps/dashboard` that calls it. TLC checks the models on small
instances; TLAPS proves the theorems listed below for every instance.

## Inventory

| Part | Source | State it keeps | Operations | Made hard by |
| --- | --- | --- | --- | --- |
| sessions, write lock | `app/db.py` | SQLite's write lock | `lock_authorization`, `get_db` | the lock is database-wide, waits time out, a session is closed by the event loop |
| confirmation, revocation | `app/routes/authorization.py` | `authorizations`, `mandate_revocations` | `/confirm`, `/revoke` | `/confirm` is two transactions and takes no lock |
| agent requests | `app/policy/service.py`, `app/routes/agent.py` | `agent_requests`, `policy_decisions`, `used_count` | `/agent/request` | replays, racing read-modify-write of `used_count` |
| policy engine | `app/policy/engine.py`, `app/routes/policy.py` | none | `evaluate_policy` | order of checks, boundaries |
| payment execution | `app/routes/payment.py` | `payment_executions` | `/payment/execute` | an external call inside the transaction, retries, revocation |
| provider client | `app/payment/razorpay_client.py` | none (orders at the provider) | `create_order`, `verify_webhook` | answers can be lost |
| webhook | `app/routes/webhooks.py` | `seen_webhook_events`, `payment_events` | `/webhooks/razorpay` | duplicated, late and early deliveries; holds the event loop |
| cleanup | `app/payment/cleanup.py` | none | `flag_stale_payments` in a thread | selects without the lock, then rechecks under it |
| evidence log | `app/evidence/log.py` | `evidence_events` | `append_event`, `get_chain`, `verify_chain` | ordered by a wall clock |
| rate limiter | `app/rate_limit.py` | table of windows, global window | `admit` | capacity, lazy purge, rounding |
| hashing, signatures | `app/canonical`, `app/crypto` | none | pure functions | |
| envelope, adapters, intent compiler | `app/models/envelope.py`, `app/adapters`, `app/routes/intent.py`, `_build_envelope` | none | pure functions | one limit has several names and defaults; numbers in a text have no labels |
| transaction views | `app/routes/transactions.py` | none | reads | |
| configuration, lifespan | `app/config.py`, `app/main.py` | none | starts and stops the cleanup | |
| dashboard | `apps/dashboard/src` | React state | compile, confirm, submit, execute, poll, edit, reload | handlers go on after an await with the state of their click |

They interact through the database and its one write lock. Sync routes run in a pool
of threads, each request with a session of its own; the webhook is an `async` route
that runs on the event loop and never awaits after it has read the body, so nothing
else is dispatched, and no session of another request is closed, until it returns. The
cleanup runs in one more thread. The provider calls back through the webhook. The
dashboard is a client of the API; it makes the agent's key and signs its requests, so
it plays the user and the agent. What makes each part correct is written as the
properties below; `PROJECT.json` lists the hazards with the properties that watch
them.

## Modules

| Module | What it is |
| --- | --- |
| `Firewall` | the server's handlers, the webhook, the cleanup, the lock, the provider's orders and payments, time, faults |
| `Mandate` | what `Firewall` promises about a mandate, without handlers or locks |
| `FirewallProofs` | theorems about `Firewall`: types, the lock, checks that hold at their use |
| `SettlementProofs` | theorems about `Firewall`: orders, webhooks and the sweep |
| `BudgetProofs` | theorems about `Firewall`: approvals, orders and the refinement of `Mandate` |
| `LogProofs` | theorems about `Firewall`: the events of a mandate |
| `PolicyEngine` | `evaluate_policy` as a function, over explicit mandates and carts |
| `PolicyProofs` | theorems about `PolicyEngine` and the envelopes of `Envelope` |
| `Envelope` | how an intent, a posted mandate or a delegation becomes the mandate that `PolicyEngine` is given |
| `EvidenceLog` | the chain of one mandate with `created_at`, hashes and verification |
| `EvidenceProofs` | theorems about `EvidenceLog` |
| `RateLimiter` | `AgentRequestLimiter.admit` |
| `Quota` | what `RateLimiter` promises: windows that close on time |
| `RateLimiterProofs` | theorems about `RateLimiter` |
| `Dashboard` | the page: its state, its buttons and inputs, the calls in flight |
| `DashboardProofs` | theorems about `Dashboard` |
| `MC_*` | instances for TLC |

### Firewall

`pc[p]` says where process `p` (a request slot of `Workers`, or `Sweeper`) is and
`job[p]` holds its local variables; `lock` is the holder of the write lock, `loop`
the webhook that occupies the event loop. The tables are functions: `used` is
`used_count`; `requests[a][n]` the cart stored for mandate `a` and nonce `n` (the
request id stands for the pair); `decisions[a][n]` the decisions of that request,
oldest first, and `latest[a][n]` the one with the last `created_at`; `payment[o]` the
row of provider order `o`; `evidence[a]` the events of a mandate, each with the
position of the event it links to.

A transaction is split where another process can run: the step that takes the lock
and reads (`AgentEvaluate`, `ExecuteBegin`, `WebhookBegin`, `SweepBegin`), the
external call (`CreateOrder`), and the commit, where all its rows appear together.
Handlers that take the lock, write and commit with nothing in between (`Revoke`,
`AgentReject`, the two transactions of `/confirm`) are one step each, which needs
the lock to be free. A handler that raises or returns without a commit goes to
`closing` and keeps its lock until `CloseSession`, which the event loop runs. The
UPDATE of `lock_authorization` takes SQLite's lock even when it matches no row
(`UnknownAuthorization`). `LockTimeout` is SQLite's busy timeout. `Fail` is an
exception in a transaction, also after the provider created the order; `Crash`
restarts the process.

Where the model abstracts:

- What the policy engine says of a cart, apart from revocation, expiry, replay and
  the use count, is the constant `CartVerdict`. `PolicyEngine!GuardsBlockAlone`
  checks that the engine splits that way. Mandates are valid from their signing:
  an `issued_at` in the future is left to `PolicyEngine`.
- Authentication of agent requests is a choice between `AgentReject` and
  `AgentEvaluate`; the webhook's signature check, its malformed bodies and unknown
  orders end without a change and are left out. Any event of the provider counts
  as a payment, as in the code.
- Ids made by the server are unknown to clients until `/confirm` answers
  (`Known`); ids in `ChosenIds` were put in the mandate by the client.
- The wall clock may be set back between two decisions of a request: a new decision
  then need not become the latest (`Dated`), which is the one `/payment/execute` looks
  at. `expired` and `overdue` only grow, and the sweep takes overdue orders in the order
  of their creation. What a clock set back does to the evidence is the subject of
  `EvidenceLog`.
- SQLite, one process. The Postgres path, which `app/db.py` declares unvalidated,
  is not modelled.

Bounds: `MaxRequests` client requests, `MaxFaults` crashes and failures,
`MaxOrders` orders at the provider (`CreateOrder` waits at the bound; every run
gives it as many orders as its mandates can lead to, or one run's question needs).

### EvidenceLog

A row has its time, payload, payload hash and chain hash; payloads are their own
hash and a chain hash is the sequence of the payload hashes behind it, so hashes
are equal exactly when what they cover is equal. `Last` and `Readings` are what
`ORDER BY created_at` allows, ties included. Locked writers only: one transaction
at a time, of one or more events. `AlterPayload`, `RewriteRow` and `DeleteRow`
change the table behind the program's back, once.

### RateLimiter

One action per outcome of `admit`. The table is the `OrderedDict` in its order; a
tick is `1/TicksPerSecond` s, so rounding matters. A restart empties the counters
and is the initial state again. `Quota` closes each window at its time; the
refinement maps an entry that has expired but is still in the table to no window.

### PolicyEngine

The checks are a list of conditions and reasons in the order of the code, and the
item loop reports the first item that fails. One step evaluates one input. Inputs have
the types that the pydantic models enforce (`InputsAssumption`): any integers, so
negative amounts and a negative `max_total` too, and use counts that are never
negative, as the database's are.

### Envelope

`CompileIntent`, `BuildEnvelope` and the two adapters, composed with `Decided` of
`PolicyEngine`. An intent is the sequence of the phrases that the four expressions
can find in it; what is between phrases, and the confidence, is left out. A phrase
has its number, the word that follows it, and the last group of digits, because
`\b(\d+)` finds the 000 of `25,000`; a count is written without a comma. What a user
means is a record with the value or the silence for each field (`Meaning`);
`Shorthand` and `Longhand` are how it is said to `/confirm` with the short keys and
in full, and to the adapters. `OriginAssumption` says that the mandate of an input
with a text, or with a meaning, was made from it. JSON objects are functions from the
keys they have, so a missing key and a null are told apart. Only fields that
`evaluate_policy` reads are kept. Amounts have no unit, as in the code.

### Dashboard

One variable per React state that decides something; `call[b]` is the handler of
button `b` with the variables it closed over when it was clicked, which it goes on
with after each `await` whatever the user did since. `busy` disables the four
buttons and no other input: the mandate can be edited, a scenario chosen and the
page reloaded at any stage of a call. `fetches` are evidence requests in flight; the
server reads the log at once, and an answer is `whole` while nothing was appended
since. An empty text only hides a button, so it has no value of its own besides
"empty" and "mandate".

The API is external: `ServeConfirm`, `ServeAgent` and `ServeExecute` say what it
stores and answers (a known nonce is blocked, a signature by another key refused, an
order answered again). `Fail` loses a request or an answer; a call that was given up
is not served later. RECONSENT and BLOCK have the same effect on the page.

## What the runs show

| Run | Question | Instance |
| --- | --- | --- |
| `spend` | do racing requests, replays, retries, revocation and one fault respect the mandate? | 1 mandate with 2 uses, 2 nonces, 3 carts (ALLOW, ALLOW with another total, BLOCK), 2 requests at a time, 6 in all, 3 orders |
| `settle` | do webhooks and the sweep agree on each order? | 2 payments of any amount or none, 2 orders, 2 requests at a time plus the sweep, 5 requests, 1 fault |
| `live` | does everything that starts end? | as `settle` with 1 nonce, batches of 1, 3 requests, an id the client chose (so that requests for it meet `UnknownAuthorization`), fairness |
| `ratelimit` | is the lazy table the promised quota? | 3 clients, table of 2, windows of 3 ticks over 7, 2 ticks per second |
| `evidence` | does an honest chain verify and a damaged one fail? | 4 rows, 2 payloads, 6 ticks, 1 change |
| `policy` | is a decision what the mandate says, and the mandate what the user or the delegation said? | 256 mandates with 211 baskets; 16 mandates, about 60 carts and 24 contexts around every boundary; intents of up to 4 phrases with 12 carts and 5 moments; 384 delegations with 10 carts and 4 contexts |
| `dashboard` | does what the page shows and sends belong together? | 2 mandates, 2 nonces, 1 timer fetch at a time, 4 calls of confirm, submit and execute |
| `retry`, `crash`, `chain`, `signed`, `clock` | does the code do what a document says? It does not | see Disagreements |

Two concurrent requests are enough for the races of `Firewall`: the lock admits one
transaction at a time, so a third request only waits. Six requests allow confirm,
two approvals with a replay, a revocation and two executions. Two uses let a lost
update of `used_count` show; three orders let a second order of one decision show.
Two orders and two payments give an order two events, and each order one. In
`ratelimit` more than two windows pass, which is what the burst bound needs. Four
calls of the page allow confirm, submit, confirm, submit and confirm, submit,
execute, submit; edits, scenarios, compilations and reloads are not bounded. Four
phrases are one of each kind that has a number or a name.

Safety. `WithinBudget`: `used_count` is the number of ALLOW decisions and within
`max_transactions`. `OrdersMatchApprovals`: each order pays one ALLOW decision, for
the cart stored with it, whatever the clock says. `ProviderWithinBudget`: a fault
costs at most one order; the provider is asked for no more than was approved and
lost, and an order without a row was lost in a fault. `NoOrderAfterRevocation`: no
order is created for a mandate whose revocation is committed. `ReadsStillTrue`:
nothing a handler checked changes before it acts on it. `LogInOrder`, `ChainLinked`,
`EvidenceMatchesState`: the log tells what happened, once each, in order, the
signature of each answered `/confirm` included. `SettledForGood`, `SettledByEvents`:
an order is settled by its payment events alone, its status is that of one of them,
and the sweep never undoes it. `ImplementsMandate`: every step is a step of `Mandate`
or invisible to it. `StatedIntentEnforced`: what an intent states holds of every cart
that is allowed under it. `DoorsAgree`: the same meaning allows the same carts
through `/confirm`, said shortly or in full, and through both adapters.
`KeyIsEnrolled`, `OneMandateShown`, `PaymentOfShownDecision`: key, envelope, saved
request, decision and order on the page belong together. `ExecuteNamesItsMandate`: no
order is asked for with a request of another mandate.

Liveness is under `FairSpec`: a handler that started goes on (threads and the event
loop are scheduled), the sweep recurs (the cleanup task waits for its interval and
swallows failures), the provider delivers again until it is answered 200, and a
session's close is run although webhooks keep coming (strong fairness: asyncio runs
ready callbacks first in, first out). `CloseSession` and the wait of a webhook on
the event loop can block each other; `LockReleased` holds because of SQLite's busy
timeout, and its mutant takes the timeout away. `Dashboard` assumes that a call ends
one way or the other (the browser's `fetch` resolves or rejects), that the timer
ticks while there is an authorization, and that the evidence endpoint does not fail
for ever. `ButtonsReturn` needs the first, `EvidenceCatchesUp` all three.

Deadlock is checked, except in `evidence`, `clock` and `policy`, whose behaviours
end when the table is full or the input is evaluated. `Quiet` is the idle server.

## Disagreements between code and documents

- `retry`: `docs/payment-cleanup.md` says that retrying `/payment/execute` returns
  the existing order. After a replay of the agent request the latest decision of
  the request is BLOCK, and the retry gets 409. `RetryUnlessReplayed` proves that it
  takes such a replay.
- `crash`: `docs/spec.md` says that `orders.create` is called once per mandate. A
  crash between the call and the commit forgets the order; the retry makes another.
  `OneOrderUnlessFault` proves that it takes a fault, and `ProviderWithinBudget` bounds
  the harm by one order for each.
- `chain`: `docs/spec.md` says that each event links to the previous one. With a
  client-chosen id the mandate is usable between the two transactions of
  `/confirm`, and two events can link to the same one. `EventsLinked` proves that ids
  made by the server are safe.
- `signed`: `docs/spec.md` says that signing writes an event. The second
  transaction of `/confirm` can time out waiting for another mandate's order.
  `AnsweredIsLogged` proves that the `/confirm` of such a mandate was never answered.
- `clock`: `verify_chain` says that False means tampering. A wall clock set back
  between two events does it too. `HonestLogVerifies` proves that, where
  the clock runs forward and writers hold the lock, only tampering does.

Read in the code and not the subject of a run:

- `apps/dashboard/README.md:35-36` submits preset 1 for ALLOW and then preset 2 for
  RECONSENT. Under one mandate the second is BLOCK: `max_transactions` is 1 by default
  (`app/routes/authorization.py:106`), and even a fresh mandate of 3 chairs blocks
  preset 2 for its quantity before the total is looked at. Scenario 2 of `docs/spec.md`
  has the same cart.
- `docs/spec.md:136` gives `max_total` in paise. The compiler puts rupees there and the
  page's carts are in rupees, and `app/routes/payment.py:66` passes the total on
  unchanged.
- A quantity of 0 counts as no quantity (`app/routes/authorization.py:100`), and the
  expression for the quantity finds `000 for` in an intent for `25,000 for ...`.
  `StatedIntentEnforced` leaves this case out.
- `docs/spec.md:829` would likely block a category not allowed; the engine looks at
  categories only when SKUs are named.

## What is proved

`FirewallProofs` proves `Spec => []Inv` for every value of the constants that
satisfies `ConstantsAssumption` and `NoneAssumption` (any number of mandates,
requests, workers, orders, payments and faults), and from it `TypeOK`,
`LockDiscipline`, `ReadsStillTrue` and `NoOrderAfterRevocation`.
`Inv` adds `WellFormed` to these: which locals a process must have at each place, and
that a request with a decision has a latest one, whatever the clock does.
`ReadsStillTrue` is not inductive alone: that what one handler read stays true while
another one steps needs mutual exclusion, which needs that only a process at a
place inside a transaction holds the lock; and that its own commit uses existing
rows needs the locals. The proof has one lemma per part of `Inv` and process, each
with one step per action. `NoOrderAfterRevocation` follows from `ReadsStillTrue` at
the place before the provider call.

`SettlementProofs` proves `SettledByEvents` and `SettledForGood`. Beside `Inv` it
needs `Backed`: a handler that is about to record an order finds no row for it
(`NewOrder`), orders without a row have no event, and each event is of a payment
that was made. The first keeps a late commit of `/payment/execute` from resetting a
status that a webhook has set; with the last, the amount an event was judged by
cannot change. The sweep cannot undo a settlement because `ReadsStillTrue` holds at
its commit.

`BudgetProofs` proves `WithinBudget`, `OrdersMatchApprovals`, `ProviderWithinBudget`
and `ImplementsMandate`. Its invariant is `Balanced`: a request has at most one ALLOW
decision, its first, because each later one is a replay; nothing is decided before
the mandate is signed; `used_count` is the number of those decisions (`Ledger`);
every row pays one of them and a request has one row. `NewOrder` of
`SettlementProofs` keeps the last two while an order is being recorded: the handler
that is about to insert holds the lock and read that there is no row. `Accounted`
says that each order of the provider has its row or a handler that is about to insert
it, but for one for each fault: a fault takes away the work of at most the one
handler that holds the lock. The orders that are accounted for map one to one into
the approvals, hence `ProviderWithinBudget`. `OrdersMatchApprovals` and
`WithinBudget` do not mention faults at all. None of these proofs knows which
decision is the latest: a request has one ALLOW, and execution goes on only when that
one is looked at. For the refinement, the stage of a request is the status of its one
row: a commit of `/confirm`, `/agent/request`, `/revoke`, `/payment/execute`, the
webhook or the sweep moves what `Mandate` moves, and every other step leaves the
mandate's state alone.

`LogProofs` proves `ChainLinked` and `LogInOrder`. The invariant is `Identities` and
`Logs`. A handler of `/confirm` appends with a tail that it read in an earlier step,
without the lock; this is right for an id that the server made, because until the
handler's answer nobody else knows the id (`Own`, `SameConfirm`) and the log is still
empty. Everyone else appends under the lock, to the log of a mandate that is known
and therefore signed, and an order only when the mandate is not revoked, which
`ReadsStillTrue` carries across the provider call. `GoodAppend` is the lemma about
sequences behind it. `EvidenceMatchesState` holds for ids that clients choose as
well: it counts events and does not ask what they link to. That a signature is logged
once needs `Signing`: of several confirmations of one id only the one whose INSERT
succeeded gets to its second transaction, and nobody was told the id before. The main
invariant, `Agreed`, relates the numbers of events of each type in a log to the
orders, requests and payments of its mandate, and adds that a stored payment event
has been seen, so that a second delivery is not counted again. One lemma says what an
append does to these numbers; each handler then appends exactly what its commit adds
to the tables. `PAYMENT_STALE` is bounded, by the orders that left CREATED, because a
payment that arrives later overwrites STALE.

`RateLimiterProofs` proves, for all limits, window lengths and numbers of clients,
`TypeOK`, `TableInOrder` and `RetryAfterSuffices`. `TableInOrder` says that the entry
at the head of the table is always the next to expire, which is what makes purging
from the head, and refusing newcomers until the head expires, correct. Its proof
follows the table through the pops, the increment in place and the append. For
`RetryAfterSuffices` the invariant adds `WaitsLongEnough` (rounding up to whole
seconds never promises less than the rest of the window); a refusal then comes from a
window that is open now, hence from a later one than the one waited for.
`BurstsBounded` needs `WindowsSee`: of the admissions of the last `Window` ticks, a
window that is in the table sees at most its count from its opening on, one less after
the moment it opened, and at most one less than the limit from before. An interval as
long as a window thus meets two windows, and the attempt that opened the older one has
left the interval before the newer one is full. `ImplementsQuota` maps the entries
that are still open to windows; purging expired entries, which `Quota` has closed
already, changes nothing there, and `TableInOrder` shows that an expired entry is
never behind an open one, so that a client is refused or admitted for what its window
says and not for its place.

`EvidenceProofs` proves `TypeOK` for any clock, and `HonestVerifies` under `Forward`
(each reading of the clock is later than the one before; `clock` shows that it is
needed), for logs of any length. The inductive invariant says that the rows the open
transaction sees are linked: times strictly increase, each chain hash extends that
of the row before, and what is committed is `truth`. It must speak of pending rows
too, because the second event of a transaction extends one that is not committed.
That `ORDER BY created_at` then leaves one order needs an induction, which
`LeastElement` supplies from the well-foundedness of the naturals: a strictly
increasing map of `1..n` into itself moves nothing.
`DamageShows` is proved under `Forward` and `MaxTampers <= 1`: a second change can undo
the first one, and then there is nothing to see. Its invariant, `Damage`, is that a
damaged table has a row that does not fit its predecessor and that times still
increase; an append links to the last row, changed or not, and leaves the earlier one
as it is. A changed payload does not fit its own hash; a row made consistent in itself
again, or taken out, leaves a successor whose chain hash extends another history. The
last row has no successor: replacing or deleting it is not a damage that the chain can
show, and the model does not count it as one.

`PolicyProofs` proves what the decisions of `evaluate_policy` mean, for every mandate,
every cart of any length and every context of `InputsAssumption`:
`AllowedIsAuthorized`, `ReconsentIsAboutTheBudget`, `GuardsBlockAlone`,
`TighterAllowsNoMore`, `ItemOrderIrrelevant`, `StatedIntentEnforced` and `DoorsAgree`.
`Decisions`
turns the early returns into a conjunction: the answer is ALLOW when `Acceptable` holds
and the total is within `max_total`, RECONSENT when only the total is not, BLOCK
otherwise.

- That the quantity of a cart is a number needs the existence of the sums behind a
  fold (`SumsExist`).
- `TighterAllowsNoMore` has one step per field that is tightened. A list that admits
  everything when it is empty, such as `allowed_skus`, could loosen the mandate; it
  does not, because a list is only set to what it held or where it held nothing.
- `ItemOrderIrrelevant` needs that a sum may take any element last (`SumsTakeAny`), by
  a smallest set for which it would fail (`SmallestSet`).
- `StatedIntentEnforced` follows the phrase that is found in the text through the
  proposal and the envelope to the limit that `Decisions` says is enforced.
- `DoorsAgree` shows that one meaning becomes one envelope (`OneEnvelope`): a field that
  was said is read back by each function, and one that was not is filled with the same
  default. A count of 0 is no `Meaning`, because `/confirm` reads it as no count.

`DashboardProofs` proves `TypeOK`, `KeyIsEnrolled`, `OneMandateShown`,
`PaymentOfShownDecision` and `ExecuteNamesItsMandate` for any number of mandates,
nonces, calls and timer fetches. The invariant says that at most one handler is in
progress, the one `busy` names (`OneCall`); that the authorization on display is the
one it captured or was reset by the user, who cannot set another while the buttons
are disabled (`ConfirmInFlight`, `AgentInFlight`, `PaymentInFlight`); and
`MandateShown`, because `OneMandateShown` holds only between calls: while the envelope
is fetched the page has the new authorization next to the old envelope and decision.

Checked by TLC only: the liveness properties (`LockReleased`, `PaymentApplied`,
`OverdueResolved`, `ButtonsReturn`, `EvidenceCatchesUp`), since fairness is out of the
prover's reach. Every safety property of a passing run is a theorem.

The theorems assume what each module assumes of its constants, which TLC evaluates in
the runs: that `None` is no value of the types it stands beside, that limits and lengths
are positive, that inputs are typed, and that a text or a meaning is what its mandate
was made from.

## Plan

1. Done: the modules above.
2. Done: the proofs above.
3. Done: `DoorsAgree`, and decisions ordered by the wall clock.
4. Open: expiry and the order of the sweep under a clock that is set back, and the unit
   of amounts, which the code does not have.

Not modelled: cryptography and canonical JSON beyond their outcome; configuration,
which only sets constants; the HTTP framework beyond its scheduling; the transaction
views, which only read; the cart fields and layout of the page; the Postgres path; the
demo scripts, which only call the API.

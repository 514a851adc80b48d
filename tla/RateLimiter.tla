----------------------------- MODULE RateLimiter -----------------------------
(***************************************************************************)
(* AgentRequestLimiter: the admission check in front of POST               *)
(* /agent/request.  One lock makes each call of admit atomic.              *)
(*                                                                         *)
(* The clock is monotonic and finer than the seconds of Retry-After; a     *)
(* tick is 1/TicksPerSecond of one.  recent and told are history: the      *)
(* admissions of the last Window ticks, and how long a client that was     *)
(* just refused was told to wait.                                          *)
(*                                                                         *)
(* A definition marked "Fault" is a plausible mistake in the code that the *)
(* definition after it models.                                             *)
(***************************************************************************)
EXTENDS Integers, Sequences, FiniteSets

CONSTANTS
    Clients,         \* addresses of peers
    PerClient,       \* attempts admitted per client and window
    GlobalLimit,     \* attempts processed per global window
    Window,          \* length of a window, in ticks
    TicksPerSecond,
    MaxClients,      \* entries the table holds
    MaxTime,         \* bound: the clock stops here
    None

ASSUME LimitsAssumption ==
    /\ PerClient \in Nat \ {0} /\ GlobalLimit \in Nat \ {0}
    /\ Window \in Nat \ {0} /\ TicksPerSecond \in Nat \ {0}
    /\ MaxClients \in Nat \ {0}
    /\ MaxTime \in Nat

ASSUME NoneAssumption == None \notin [reset: Nat, count: Nat]

VARIABLES
    now,                       \* monotonic clock
    table,                     \* _clients: open windows, in insertion order
    globalReset, globalCount,  \* _global_reset, _global_count
    answer,                    \* the last call's result
    recent,                    \* history: admissions <<client, time, number>>
    told                       \* history: the refusal a client came back from

limiterVars == <<table, globalReset, globalCount>>
vars == <<now, limiterVars, answer, recent, told>>

Entry == [client: Clients, reset: Nat, count: 1..PerClient]

-----------------------------------------------------------------------------
(* The parts of admit *)

\* Fault: a full table drops its oldest entry to make room.
PurgedForRoom(live) ==
    \E k \in 0..Len(table) :
        /\ live = SubSeq(table, k + 1, Len(table))
        /\ \A i \in 1..k : table[i].reset <= now \/ i = Len(table) - MaxClients + 1
        /\ live # <<>> => live[1].reset > now /\ Len(live) < MaxClients

\* The table once its expired head is popped: the loop stops at the first entry
\* that has not expired.
Purged(live) ==
    \E k \in 0..Len(table) :
        /\ live = SubSeq(table, k + 1, Len(table))
        /\ \A i \in 1..k : table[i].reset <= now
        /\ live # <<>> => live[1].reset > now

Suffixes == {SubSeq(table, k + 1, Len(table)) : k \in 0..Len(table)}

\* The global window as this attempt sees it: a new one when the old is over.
CurrentReset == IF now >= globalReset THEN now + Window ELSE globalReset
CurrentCount == IF now >= globalReset THEN 0 ELSE globalCount

Has(live, c) == \E i \in 1..Len(live) : live[i].client = c

\* Fault: one attempt too many.
SpentOffByOne(live, c) ==
    \E i \in 1..Len(live) : live[i].client = c /\ live[i].count > PerClient

Spent(live, c) ==
    \E i \in 1..Len(live) : live[i].client = c /\ live[i].count >= PerClient

Full(live) == Len(live) >= MaxClients

\* Fault: every admission renews the window.
CountedSliding(live, c) ==
    [i \in 1..Len(live) |->
        IF live[i].client = c
          THEN [live[i] EXCEPT !.count = @ + 1, !.reset = now + Window]
          ELSE live[i]]

\* The client's entry counts one more and keeps its place.
Counted(live, c) ==
    [i \in 1..Len(live) |->
        IF live[i].client = c THEN [live[i] EXCEPT !.count = @ + 1] ELSE live[i]]

Opened(live, c) ==
    Append(live, [client |-> c, reset |-> now + Window, count |-> 1])

\* Fault: rounded down.
RetryRoundedDown(reset) ==
    LET seconds == (reset - now) \div TicksPerSecond IN
    IF seconds < 1 THEN 1 ELSE seconds

\* max(1, ceil(reset - now)), in seconds.
RetryAfter(reset) ==
    LET seconds == (reset - now + TicksPerSecond - 1) \div TicksPerSecond IN
    IF seconds < 1 THEN 1 ELSE seconds

\* Fault: a client that is refused is not counted in the global window.
CountAdmitted(c, admitted) ==
    /\ globalReset' = CurrentReset
    /\ globalCount' = IF admitted THEN CurrentCount + 1 ELSE CurrentCount

\* An attempt that passes the global check is counted, admitted or not.
CountAttempt(c, admitted) ==
    /\ globalReset' = CurrentReset
    /\ globalCount' = CurrentCount + 1

Refuse(c, reset) ==
    /\ answer' = [client |-> c, admitted |-> FALSE]
    /\ told' = [told EXCEPT ![c] =
                  [until |-> now + RetryAfter(reset) * TicksPerSecond,
                   reset |-> reset]]
    /\ UNCHANGED <<now, recent>>

-----------------------------------------------------------------------------
(* The four outcomes of admit *)

RefuseGlobally(c) ==
    /\ CurrentCount >= GlobalLimit
    /\ table' \in Suffixes /\ Purged(table')
    /\ globalReset' = CurrentReset
    /\ globalCount' = CurrentCount
    /\ Refuse(c, CurrentReset)

RefuseNewcomer(c) ==
    /\ CurrentCount < GlobalLimit
    /\ table' \in Suffixes /\ Purged(table')
    /\ ~Has(table', c)
    /\ Full(table')
    /\ CountAttempt(c, FALSE)
    /\ Refuse(c, table'[1].reset)

RefuseClient(c) ==
    /\ CurrentCount < GlobalLimit
    /\ table' \in Suffixes /\ Purged(table')
    /\ Spent(table', c)
    /\ CountAttempt(c, FALSE)
    /\ \E i \in 1..Len(table') :
         table'[i].client = c /\ Refuse(c, table'[i].reset)

Admit(c) ==
    /\ CurrentCount < GlobalLimit
    /\ \E live \in Suffixes :
         /\ Purged(live)
         /\ ~Spent(live, c)
         /\ \/ Has(live, c) /\ table' = Counted(live, c)
            \/ ~Has(live, c) /\ ~Full(live) /\ table' = Opened(live, c)
    /\ CountAttempt(c, TRUE)
    /\ answer' = [client |-> c, admitted |-> TRUE]
    /\ recent' = recent \cup
         {<<c, now, Cardinality({g \in recent : g[1] = c /\ g[2] = now}) + 1>>}
    /\ told' = [told EXCEPT ![c] = None]
    /\ UNCHANGED now

Tick ==
    /\ now < MaxTime
    /\ now' = now + 1
    /\ recent' = {g \in recent : g[2] > now' - Window}
    /\ UNCHANGED <<limiterVars, answer, told>>

Init ==
    /\ now = 0
    /\ table = <<>>
    /\ globalReset = 0 /\ globalCount = 0
    /\ answer = None
    /\ recent = {}
    /\ told = [c \in Clients |-> None]

Next ==
    \/ Tick
    \/ \E c \in Clients : \/ RefuseGlobally(c) \/ RefuseNewcomer(c)
                          \/ RefuseClient(c) \/ Admit(c)

Spec == Init /\ [][Next]_vars

-----------------------------------------------------------------------------
(* Properties *)

\* Every variable has its type; no counter passes its limit.
TypeOK ==
    /\ now \in 0..MaxTime
    /\ table \in Seq(Entry)
    /\ globalReset \in Nat
    /\ globalCount \in 0..GlobalLimit
    /\ answer \in [client: Clients, admitted: BOOLEAN] \cup {None}
    /\ recent \subseteq Clients \X Nat \X Nat
    /\ told \in [Clients -> [until: Nat, reset: Nat] \cup {None}]

\* What makes it enough to look at the head of the table: expirations are in
\* order, no window outlasts its length, and a client has one entry.
TableInOrder ==
    /\ Len(table) <= MaxClients
    /\ \A i \in 1..Len(table) : table[i].reset <= now + Window
    /\ \A i, k \in 1..Len(table) :
         i < k => /\ table[i].reset <= table[k].reset
                  /\ table[i].client # table[k].client

\* However windows fall, an interval as long as one meets two of them and misses
\* the attempt that opened the first: it sees less than twice the limit admitted,
\* of one client, or of all together.
BurstsBounded ==
    /\ \A c \in Clients : Cardinality({g \in recent : g[1] = c}) < 2 * PerClient
    /\ Cardinality(recent) < 2 * GlobalLimit

\* A client that waited as long as Retry-After said is not refused by the window
\* that refused it: only a later one can.
RetryAfterSuffices ==
    [][\A c \in Clients :
         told[c] # None /\ told'[c] \notin {told[c], None} /\ now >= told[c].until
           => told'[c].reset > told[c].reset]_vars

-----------------------------------------------------------------------------
(* The promise this implements *)

Unexpired == {i \in 1..Len(table) : table[i].reset > now}

OpenWindow(c) ==
    LET mine == {i \in Unexpired : table[i].client = c} IN
    IF mine = {} THEN None
    ELSE LET i == CHOOSE i \in mine : TRUE IN
         [reset |-> table[i].reset, count |-> table[i].count]

Promise == INSTANCE Quota WITH
    window <- [c \in Clients |-> OpenWindow(c)],
    total <- IF globalReset > now /\ globalCount > 0
               THEN [reset |-> globalReset, count |-> globalCount] ELSE None

\* Popping only the expired head of the table, and only when somebody asks, has
\* the effect of closing every window on time; no open window is lost to admit
\* another client, and the refusals are exactly the justified ones.
ImplementsQuota == Promise!Spec
=============================================================================

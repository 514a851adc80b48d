-------------------------- MODULE RateLimiterProofs --------------------------
(***************************************************************************)
(* Theorems about RateLimiter, for all limits, window lengths and numbers  *)
(* of clients.                                                             *)
(***************************************************************************)
EXTENDS RateLimiter, SequenceTheorems, FiniteSetTheorems, TLAPS

(***************************************************************************)
(* The inductive invariant.  Admissions are numbered by counting, so their *)
(* set must stay finite; a refusal never promises less than the window it  *)
(* waits for, which is what makes Retry-After safe to follow.              *)
(***************************************************************************)
WaitsLongEnough ==
    \A c \in Clients : told[c] # None => told[c].until >= told[c].reset

Inv == TypeOK /\ TableInOrder /\ IsFiniteSet(recent) /\ WaitsLongEnough

\* TableInOrder of any sequence of entries.
InOrder(s) ==
    /\ Len(s) <= MaxClients
    /\ \A i \in 1..Len(s) : s[i].reset <= now + Window
    /\ \A i, k \in 1..Len(s) :
         i < k => /\ s[i].reset <= s[k].reset
                  /\ s[i].client # s[k].client

-----------------------------------------------------------------------------
(* The parts of admit *)

LEMMA Limits ==
  /\ PerClient \in Nat /\ PerClient >= 1
  /\ GlobalLimit \in Nat /\ GlobalLimit >= 1
  /\ Window \in Nat /\ Window >= 1
  /\ TicksPerSecond \in Nat /\ TicksPerSecond >= 1
  /\ MaxClients \in Nat /\ MaxClients >= 1
  /\ MaxTime \in Nat
  BY LimitsAssumption

LEMMA SuffixElements ==
  ASSUME Inv, NEW k \in 0..Len(table), NEW live, live = SubSeq(table, k + 1, Len(table))
  PROVE  /\ live \in Seq(Entry)
         /\ Len(live) = Len(table) - k
         /\ \A i \in 1..Len(live) : live[i] = table[k + i]
<1>1. table \in Seq(Entry) /\ Len(table) \in Nat
  BY LenProperties DEF Inv, TypeOK
<1>2. /\ live \in Seq(Entry)
      /\ Len(live) = IF k + 1 <= Len(table) THEN Len(table) - (k + 1) + 1 ELSE 0
      /\ \A i \in 1..(Len(table) - (k + 1) + 1) : live[i] = table[(k + 1) + i - 1]
  BY <1>1, SubSeqProperties
<1>3. Len(live) = Len(table) - k
  BY <1>1, <1>2
<1>4. \A i \in 1..Len(live) : (k + 1) + i - 1 = k + i
  BY <1>1, <1>3
<1>5. QED
  BY <1>1, <1>2, <1>3, <1>4

\* Popping from the head keeps the table in order.
LEMMA SuffixInOrder ==
  ASSUME Inv, NEW live \in Suffixes
  PROVE  live \in Seq(Entry) /\ InOrder(live)
<1>1. PICK k \in 0..Len(table) : live = SubSeq(table, k + 1, Len(table))
  BY DEF Suffixes
<1>2. table \in Seq(Entry) /\ Len(table) \in Nat
  BY LenProperties DEF Inv, TypeOK
<1>3. /\ live \in Seq(Entry)
      /\ Len(live) = Len(table) - k
      /\ \A i \in 1..Len(live) : live[i] = table[k + i]
  BY <1>1, SuffixElements
<1>4. \A i \in 1..Len(live) : k + i \in 1..Len(table)
  BY <1>1, <1>2, <1>3
<1>5. \A i, j \in 1..Len(live) : i < j => k + i < k + j
  BY <1>1, <1>2, <1>3
<1>6. Len(live) <= MaxClients
  BY <1>1, <1>2, <1>3, Limits DEF Inv, TableInOrder
<1>7. TableInOrder
  BY DEF Inv
<1>8. \A i \in 1..Len(live) : live[i].reset <= now + Window
  BY <1>3, <1>4, <1>7 DEF TableInOrder
<1>9. ASSUME NEW i \in 1..Len(live), NEW j \in 1..Len(live), i < j
      PROVE  live[i].reset <= live[j].reset /\ live[i].client # live[j].client
  <2>1. k + i \in 1..Len(table) /\ k + j \in 1..Len(table) /\ k + i < k + j
    BY <1>4, <1>5, <1>9
  <2>2. live[i] = table[k + i] /\ live[j] = table[k + j]
    BY <1>3
  <2>3. QED
    BY <1>7, <2>1, <2>2 DEF TableInOrder
<1>10. QED
  BY <1>3, <1>6, <1>8, <1>9 DEF InOrder

LEMMA EntryFields ==
  ASSUME NEW s \in Seq(Entry), NEW i \in 1..Len(s)
  PROVE  /\ s[i] \in Entry /\ s[i].client \in Clients /\ s[i].reset \in Nat
         /\ s[i].count \in 1..PerClient
<1>1. s[i] \in Entry
  BY ElementOfSeq
<1>2. QED
  BY <1>1 DEF Entry

LEMMA CountedInOrder ==
  ASSUME Inv, NEW live \in Seq(Entry), InOrder(live), NEW c \in Clients, ~Spent(live, c)
  PROVE  Counted(live, c) \in Seq(Entry) /\ InOrder(Counted(live, c))
<1> DEFINE s == Counted(live, c)
<1>1. Len(live) \in Nat
  BY LenProperties
<1>2. \A i \in 1..Len(live) : s[i] \in Entry /\ s[i].reset = live[i].reset
                              /\ s[i].client = live[i].client
  <2>1. SUFFICES ASSUME NEW i \in 1..Len(live)
                 PROVE  /\ s[i] \in Entry /\ s[i].reset = live[i].reset
                        /\ s[i].client = live[i].client
    OBVIOUS
  <2>2. live[i] \in Entry /\ live[i].count \in 1..PerClient
    BY EntryFields
  <2>3. CASE live[i].client = c
    <3>1. s[i] = [live[i] EXCEPT !.count = @ + 1]
      BY <2>3 DEF Counted
    <3>2. live[i].count + 1 \in 1..PerClient
      BY <2>2, <2>3, Limits DEF Spent
    <3>3. QED
      BY <2>2, <3>1, <3>2 DEF Entry
  <2>4. CASE live[i].client # c
    BY <2>2, <2>4 DEF Counted
  <2>5. QED
    BY <2>3, <2>4
<1>3. s \in Seq(Entry) /\ Len(s) = Len(live)
  BY <1>1, <1>2, IsASeq DEF Counted
<1>4. QED
  <2> HIDE DEF s
  <2>1. InOrder(s)
    BY <1>2, <1>3 DEF InOrder
  <2>2. QED
    BY <1>3, <2>1 DEF s

LEMMA OpenedInOrder ==
  ASSUME Inv, NEW live \in Seq(Entry), InOrder(live), NEW c \in Clients,
         ~Has(live, c), ~Full(live)
  PROVE  Opened(live, c) \in Seq(Entry) /\ InOrder(Opened(live, c))
<1> DEFINE e == [client |-> c, reset |-> now + Window, count |-> 1]
           s == Append(live, e)
           n == Len(live)
<1>1. now \in Nat /\ n \in Nat /\ n + 1 <= MaxClients
  BY LenProperties, Limits DEF Inv, TypeOK, Full
<1>2. e \in Entry
  BY <1>1, Limits DEF Entry
<1>3. /\ s \in Seq(Entry) /\ Len(s) = n + 1
      /\ \A i \in 1..n : s[i] = live[i]
      /\ s[n + 1] = e
  BY <1>2, AppendProperties
<1>4. e.reset = now + Window /\ e.client = c
  OBVIOUS
<1>5. \A i \in 1..n : live[i].reset <= now + Window /\ live[i].client # c
  BY DEF InOrder, Has
<1> HIDE DEF e, s
<1>6. \A i \in 1..(n + 1) : i \in 1..n \/ i = n + 1
  BY <1>1
<1>7. \A i \in 1..Len(s) : s[i].reset <= now + Window
  BY <1>1, <1>3, <1>4, <1>5, <1>6, Limits
<1>8. ASSUME NEW i \in 1..Len(s), NEW k \in 1..Len(s), i < k
      PROVE  s[i].reset <= s[k].reset /\ s[i].client # s[k].client
  <2>1. i \in 1..n
    BY <1>1, <1>3, <1>8
  <2>2. CASE k \in 1..n
    BY <1>3, <1>8, <2>1, <2>2 DEF InOrder
  <2>3. CASE k = n + 1
    BY <1>3, <1>4, <1>5, <2>1, <2>3
  <2>4. QED
    BY <1>3, <1>6, <2>2, <2>3
<1>9. InOrder(s)
  BY <1>1, <1>3, <1>7, <1>8 DEF InOrder
<1>10. QED
  BY <1>3, <1>9 DEF Opened, s, e

\* The entry at the head is the next to expire: when it is open, all are.
LEMMA PurgedIsOpen ==
  ASSUME Inv, NEW live \in Seq(Entry), InOrder(live), Purged(live), NEW i \in 1..Len(live)
  PROVE  live[i].reset > now
<1>1. Len(live) \in Nat /\ now \in Nat /\ 1 \in 1..Len(live)
  BY LenProperties DEF Inv, TypeOK
<1>2. live # <<>>
  BY <1>1, EmptySeq
<1>3. live[1].reset > now
  BY <1>2 DEF Purged
<1>4. live[1].reset \in Nat /\ live[i].reset \in Nat
  BY <1>1, EntryFields
<1>5. i = 1 \/ live[1].reset <= live[i].reset
  BY <1>1 DEF InOrder
<1>6. QED
  BY <1>1, <1>3, <1>4, <1>5

LEMMA GlobalWindow ==
  ASSUME Inv
  PROVE  CurrentReset \in Nat /\ CurrentReset > now /\ CurrentCount \in 0..GlobalLimit
  BY Limits DEF Inv, TypeOK, CurrentReset, CurrentCount

LEMMA Division ==
  ASSUME NEW a \in Int, NEW b \in Nat, b >= 1
  PROVE  a \div b \in Int /\ (a \div b) * b > a - b
<1>1. a \div b \in Int
  OBVIOUS
<1>2. (a \div b) * b > a - b
  OBVIOUS
<1>3. QED
  BY <1>1, <1>2

\* Whole seconds are rounded up: the wait covers the rest of the window.
LEMMA RoundedUp ==
  ASSUME NEW reset \in Nat, now \in Nat
  PROVE  /\ now + RetryAfter(reset) * TicksPerSecond \in Nat
         /\ now + RetryAfter(reset) * TicksPerSecond >= reset
<1> DEFINE T == TicksPerSecond
           a == reset - now + T - 1
           q == a \div T
<1>1. a \in Int /\ T \in Nat /\ T >= 1
  BY Limits
<1>2. q \in Int /\ q * T > a - T
  <2> HIDE DEF a, T
  <2>1. QED
    BY <1>1, Division
<1>3. RetryAfter(reset) = IF q < 1 THEN 1 ELSE q
  BY DEF RetryAfter
<1>4. a - T = reset - now - 1
  BY <1>1
<1> HIDE DEF a, q, T
<1>5. CASE q < 1
  <2>1. q * T <= 0
    BY <1>1, <1>2, <1>5
  <2>2. q * T \in Int
    BY <1>1, <1>2
  <2>3. reset <= now
    BY <1>2, <1>4, <2>1, <2>2
  <2>4. RetryAfter(reset) * T = T
    BY <1>1, <1>3, <1>5
  <2>5. QED
    BY <1>1, <2>3, <2>4 DEF T
<1>6. CASE ~(q < 1)
  <2>1. RetryAfter(reset) * T = q * T /\ q * T \in Int
    BY <1>1, <1>2, <1>3, <1>6
  <2>2. now + q * T \in Int /\ now + q * T >= reset
    BY <1>2, <1>4, <2>1
  <2>3. QED
    BY <2>1, <2>2 DEF T
<1>7. QED
  BY <1>5, <1>6

-----------------------------------------------------------------------------
(* One lemma per outcome *)

\* What a refusal leaves behind, given the window that caused it.
LEMMA RefusePreserves ==
  ASSUME Inv, NEW c \in Clients, NEW reset \in Nat, Refuse(c, reset)
  PROVE  /\ now' \in 0..MaxTime /\ now' = now
         /\ answer' \in [client: Clients, admitted: BOOLEAN] \cup {None}
         /\ told' \in [Clients -> [until: Nat, reset: Nat] \cup {None}]
         /\ WaitsLongEnough'
         /\ recent' \subseteq Clients \X Nat \X Nat /\ IsFiniteSet(recent')
         /\ told' = [told EXCEPT ![c] = told'[c]]
         /\ told'[c].reset = reset
<1> DEFINE r == [until |-> now + RetryAfter(reset) * TicksPerSecond, reset |-> reset]
<1>1. now \in Nat /\ now' = now /\ now \in 0..MaxTime
  BY DEF Inv, TypeOK, Refuse
<1>2. r \in [until: Nat, reset: Nat] /\ r.until >= r.reset /\ r.reset = reset
  BY <1>1, RoundedUp
<1> HIDE DEF r
<1>3. told \in [Clients -> [until: Nat, reset: Nat] \cup {None}]
  BY DEF Inv, TypeOK
<1>4. told' = [told EXCEPT ![c] = r]
  BY DEF Refuse, r
<1>5. told'[c] = r /\ \A d \in Clients : d # c => told'[d] = told[d]
  BY <1>3, <1>4
<1>6. WaitsLongEnough'
  BY <1>2, <1>5 DEF Inv, WaitsLongEnough
<1>7. told' \in [Clients -> [until: Nat, reset: Nat] \cup {None}]
  BY <1>2, <1>3, <1>4
<1>8. answer' \in [client: Clients, admitted: BOOLEAN]
  BY DEF Refuse
<1>9. QED
  BY <1>1, <1>2, <1>4, <1>5, <1>6, <1>7, <1>8 DEF Refuse, Inv, TypeOK

LEMMA OrderedAfter ==
  ASSUME InOrder(table'), now' = now
  PROVE  TableInOrder'
  BY DEF InOrder, TableInOrder

LEMMA CountAttemptType ==
  ASSUME Inv, NEW c \in Clients, NEW b \in BOOLEAN, CountAttempt(c, b),
         CurrentCount < GlobalLimit
  PROVE  globalReset' \in Nat /\ globalCount' \in 0..GlobalLimit
  BY GlobalWindow, Limits DEF CountAttempt

LEMMA RefuseGloballyStep ==
  ASSUME Inv, NEW c \in Clients, RefuseGlobally(c)
  PROVE  /\ Inv' /\ told' = [told EXCEPT ![c] = told'[c]]
         /\ told'[c].reset > now
<1>1. CurrentReset \in Nat /\ CurrentReset > now /\ CurrentCount \in 0..GlobalLimit
  BY GlobalWindow
<1>2. table' \in Suffixes /\ Refuse(c, CurrentReset)
  BY DEF RefuseGlobally
<1>3. table' \in Seq(Entry) /\ InOrder(table')
  BY <1>2, SuffixInOrder
<1>4. globalReset' \in Nat /\ globalCount' \in 0..GlobalLimit
  BY <1>1 DEF RefuseGlobally
<1> HIDE DEF CurrentReset
<1>5. QED
  BY <1>1, <1>2, <1>3, <1>4, RefusePreserves, OrderedAfter DEF Inv, TypeOK

LEMMA RefuseNewcomerStep ==
  ASSUME Inv, NEW c \in Clients, RefuseNewcomer(c)
  PROVE  /\ Inv' /\ told' = [told EXCEPT ![c] = told'[c]]
         /\ told'[c].reset > now
<1>1. table' \in Suffixes /\ Purged(table') /\ Full(table') /\ Refuse(c, table'[1].reset)
  BY DEF RefuseNewcomer
<1>2. table' \in Seq(Entry) /\ InOrder(table')
  BY <1>1, SuffixInOrder
<1>3. 1 \in 1..Len(table')
  BY <1>1, <1>2, Limits, LenProperties DEF Full
<1>4. table'[1].reset \in Nat /\ table'[1].reset > now
  BY <1>1, <1>2, <1>3, PurgedIsOpen, EntryFields
<1>5. globalReset' \in Nat /\ globalCount' \in 0..GlobalLimit
  BY CountAttemptType DEF RefuseNewcomer
<1>6. QED
  BY <1>1, <1>2, <1>4, <1>5, RefusePreserves, OrderedAfter DEF Inv, TypeOK

LEMMA RefuseClientStep ==
  ASSUME Inv, NEW c \in Clients, RefuseClient(c)
  PROVE  /\ Inv' /\ told' = [told EXCEPT ![c] = told'[c]]
         /\ told'[c].reset > now
<1>1. table' \in Suffixes /\ Purged(table')
  BY DEF RefuseClient
<1>2. PICK i \in 1..Len(table') : Refuse(c, table'[i].reset)
  BY DEF RefuseClient
<1>3. table' \in Seq(Entry) /\ InOrder(table')
  BY <1>1, SuffixInOrder
<1>4. table'[i].reset \in Nat /\ table'[i].reset > now
  BY <1>1, <1>3, PurgedIsOpen, EntryFields
<1>5. globalReset' \in Nat /\ globalCount' \in 0..GlobalLimit
  BY CountAttemptType DEF RefuseClient
<1>6. QED
  BY <1>2, <1>3, <1>4, <1>5, RefusePreserves, OrderedAfter DEF Inv, TypeOK

LEMMA AdmitStep ==
  ASSUME Inv, NEW c \in Clients, Admit(c)
  PROVE  Inv' /\ told' = [told EXCEPT ![c] = None]
<1>1. PICK live \in Suffixes :
           /\ ~Spent(live, c)
           /\ \/ Has(live, c) /\ table' = Counted(live, c)
              \/ ~Has(live, c) /\ ~Full(live) /\ table' = Opened(live, c)
  BY DEF Admit
<1>2. live \in Seq(Entry) /\ InOrder(live)
  BY SuffixInOrder
<1>3. table' \in Seq(Entry) /\ InOrder(table')
  BY <1>1, <1>2, CountedInOrder, OpenedInOrder
<1>4. globalReset' \in Nat /\ globalCount' \in 0..GlobalLimit
  BY CountAttemptType DEF Admit
<1> DEFINE now_c == {g \in recent : g[1] = c /\ g[2] = now}
           new == <<c, now, Cardinality(now_c) + 1>>
<1>5. now \in Nat /\ now' = now /\ now \in 0..MaxTime
  BY DEF Inv, TypeOK, Admit
<1>6. recent' \subseteq Clients \X Nat \X Nat /\ IsFiniteSet(recent')
  <2>1. IsFiniteSet(recent) /\ IsFiniteSet(now_c)
    BY FS_Subset DEF Inv
  <2>2. Cardinality(now_c) \in Nat
    BY <2>1, FS_CardinalityType
  <2> HIDE DEF now_c
  <2>3. new \in Clients \X Nat \X Nat
    BY <1>5, <2>2
  <2>4. recent' = recent \cup {new}
    BY DEF Admit, now_c
  <2>5. IsFiniteSet(recent')
    BY <2>1, <2>4, FS_AddElement
  <2>6. QED
    BY <2>3, <2>4, <2>5 DEF Inv, TypeOK
<1>7. told' = [told EXCEPT ![c] = None] /\ answer' \in [client: Clients, admitted: BOOLEAN]
  BY DEF Admit
<1>8. told' \in [Clients -> [until: Nat, reset: Nat] \cup {None}]
  BY <1>7 DEF Inv, TypeOK
<1>9. WaitsLongEnough'
  BY <1>7 DEF Inv, TypeOK, WaitsLongEnough
<1>10. QED
  BY <1>3, <1>4, <1>5, <1>6, <1>7, <1>8, <1>9, OrderedAfter DEF Inv, TypeOK

LEMMA TickStep ==
  ASSUME Inv, Tick
  PROVE  Inv'
<1>1. now \in Nat /\ now' = now + 1 /\ now' \in 0..MaxTime
  BY Limits DEF Inv, TypeOK, Tick
<1>2. recent' \subseteq recent
  BY DEF Tick
<1>3. IsFiniteSet(recent')
  BY <1>2, FS_Subset DEF Inv
<1>4. \A i \in 1..Len(table) : table[i].reset \in Nat
  BY EntryFields DEF Inv, TypeOK
<1>5. TableInOrder'
  BY <1>1, <1>4, Limits DEF Inv, TableInOrder, Tick, limiterVars
<1>6. TypeOK'
  BY <1>1, <1>2 DEF Inv, TypeOK, Tick, limiterVars
<1>7. QED
  BY <1>3, <1>5, <1>6 DEF Inv, WaitsLongEnough, Tick

-----------------------------------------------------------------------------
(* Theorems *)

LEMMA InitInv == Init => Inv
<1>1. SUFFICES ASSUME Init PROVE Inv
  OBVIOUS
<1>2. <<>> \in Seq(Entry) /\ Len(<<>>) = 0
  BY EmptySeq
<1>3. TypeOK
  BY <1>1, <1>2, Limits DEF Init, TypeOK
<1>4. TableInOrder
  BY <1>1, <1>2, Limits DEF Init, TableInOrder
<1>5. IsFiniteSet(recent)
  BY <1>1, FS_EmptySet DEF Init
<1>6. WaitsLongEnough
  BY <1>1 DEF Init, WaitsLongEnough
<1>7. QED
  BY <1>3, <1>4, <1>5, <1>6 DEF Inv

LEMMA NextInv == Inv /\ [Next]_vars => Inv'
<1>1. Inv /\ Next => Inv'
  BY TickStep, RefuseGloballyStep, RefuseNewcomerStep, RefuseClientStep, AdmitStep DEF Next
<1>2. Inv /\ UNCHANGED vars => Inv'
  BY DEF Inv, TypeOK, TableInOrder, WaitsLongEnough, vars, limiterVars
<1>3. QED
  BY <1>1, <1>2

\* The table, the counters and the promises made to refused clients stay consistent
\* through every call of admit and every passing of time.
THEOREM Invariance == Spec => []Inv
  BY InitInv, NextInv, PTL DEF Spec

\* Every variable has its type, and no counter of admit passes its limit.
THEOREM TypeCorrect == Spec => []TypeOK
<1>1. Inv => TypeOK
  BY DEF Inv
<1>2. QED
  BY <1>1, Invariance, PTL

\* The entries of the table expire in the order they stand in, whatever calls came
\* when: admit may stop purging at the first open one, and the head tells a
\* newcomer how long a full table stays full.
THEOREM TableStaysInOrder == Spec => []TableInOrder
<1>1. Inv => TableInOrder
  BY DEF Inv
<1>2. QED
  BY <1>1, Invariance, PTL

\* A client that waited as long as Retry-After said is not refused again by the
\* window that refused it.  The wait was rounded up, so that window has closed,
\* and only open windows refuse.
THEOREM WaitingHelps == Spec => RetryAfterSuffices
<1>1. ASSUME Inv, [Next]_vars, NEW c \in Clients,
             told[c] # None, told'[c] \notin {told[c], None}, now >= told[c].until
      PROVE  told'[c].reset > told[c].reset
  <2>1. /\ told \in [Clients -> [until: Nat, reset: Nat] \cup {None}]
        /\ told[c] \in [until: Nat, reset: Nat]
        /\ told[c].until >= told[c].reset /\ now \in Nat
    BY <1>1 DEF Inv, TypeOK, WaitsLongEnough
  <2>2. told'[c] # told[c] /\ told'[c] # None
    BY <1>1
  <2>3. ~UNCHANGED told
    BY <2>2
  <2>4. PICK d \in Clients :
             RefuseGlobally(d) \/ RefuseNewcomer(d) \/ RefuseClient(d) \/ Admit(d)
    BY <1>1, <2>3 DEF Next, Tick, vars
  <2>5. told' = [told EXCEPT ![d] = told'[d]] /\ (told'[d] = None \/ told'[d].reset > now)
    BY <1>1, <2>1, <2>4, RefuseGloballyStep, RefuseNewcomerStep, RefuseClientStep, AdmitStep
  <2>6. d = c
    BY <2>1, <2>2, <2>5
  <2>7. told'[c].reset > now
    BY <2>2, <2>5, <2>6
  <2>8. told'[c].reset \in Nat
    BY <1>1, <2>2, NextInv DEF Inv, TypeOK
  <2>9. QED
    BY <1>1, <2>1, <2>7, <2>8
<1>2. Inv /\ [Next]_vars =>
        [\A c \in Clients :
           told[c] # None /\ told'[c] \notin {told[c], None} /\ now >= told[c].until
             => told'[c].reset > told[c].reset]_vars
  BY <1>1
<1>3. QED
  BY <1>2, Invariance, PTL DEF Spec, RetryAfterSuffices

-----------------------------------------------------------------------------
(***************************************************************************)
(* BurstsBounded.  An interval as long as a window meets at most two       *)
(* windows.  The older one lost the attempt that opened it, so that it     *)
(* shows at most one less than the limit; the newer one shows at most what *)
(* it counted.  Only the current window's entry is at hand, so the         *)
(* invariant says of it what was seen before it opened, since, and since   *)
(* its first attempt.                                                      *)
(***************************************************************************)

\* The admissions g that a window sees: it opened at some moment with an attempt,
\* and counted n since; what is older came before.
Sees(S, opened, n, limit) ==
    /\ Cardinality({g \in S : g[2] < opened}) <= limit - 1
    /\ Cardinality({g \in S : g[2] >= opened}) <= n
    /\ Cardinality({g \in S : g[2] > opened}) <= n - 1
    /\ \A g \in S : g[2] < opened + Window

\* What is left of the windows before, when none is open.
Past(S, t, limit) == Cardinality(S) <= limit - 1 /\ \A g \in S : g[2] < t

Of(S, c) == {g \in S : g[1] = c}

\* Each client's window, for the entries of a table s.
ClientsSee(s, S, t) ==
    /\ \A i \in 1..Len(s) :
         Sees(Of(S, s[i].client), s[i].reset - Window, s[i].count, PerClient)
    /\ \A c \in Clients : ~Has(s, c) => Past(Of(S, c), t, PerClient)

EveryoneSees(S, reset, n, t) ==
    IF n = 0 THEN S = {} /\ reset <= t
             ELSE reset <= t + Window /\ Sees(S, reset - Window, n, GlobalLimit)

\* recent is the last Window ticks.
Lately(S, t) == \A g \in S : g[2] > t - Window /\ g[2] <= t

WindowsSee ==
    /\ ClientsSee(table, recent, now)
    /\ EveryoneSees(recent, globalReset, globalCount, now)
    /\ Lately(recent, now)

LEMMA Smaller ==
  ASSUME NEW S, IsFiniteSet(S), NEW T, T \subseteq S
  PROVE  /\ IsFiniteSet(T) /\ Cardinality(T) \in Nat /\ Cardinality(S) \in Nat
         /\ Cardinality(T) <= Cardinality(S)
  BY FS_Subset, FS_CardinalityType

LEMMA OneMore ==
  ASSUME NEW S, IsFiniteSet(S), NEW x, NEW T, T \subseteq S \cup {x}
  PROVE  /\ IsFiniteSet(T) /\ Cardinality(T) \in Nat /\ Cardinality(S) \in Nat
         /\ Cardinality(T) <= Cardinality(S) + 1
<1>1. IsFiniteSet(S \cup {x}) /\ Cardinality(S \cup {x}) <= Cardinality(S) + 1
  <2>1. PICK n, m : n = Cardinality(S) /\ m = Cardinality(S \cup {x})
    OBVIOUS
  <2>2. n \in Nat
    BY <2>1, FS_CardinalityType
  <2>3. IsFiniteSet(S \cup {x}) /\ m = IF x \in S THEN n ELSE n + 1
    BY <2>1, FS_AddElement
  <2>4. QED
    BY <2>1, <2>2, <2>3
<1>2. /\ IsFiniteSet(T) /\ Cardinality(T) \in Nat
      /\ Cardinality(S \cup {x}) \in Nat /\ Cardinality(T) <= Cardinality(S \cup {x})
  BY <1>1, Smaller
<1>3. Cardinality(S) \in Nat
  BY FS_CardinalityType
<1>4. QED
  BY <1>1, <1>2, <1>3

\* A window sees no more of a part of the admissions, and counts no less later.
LEMMA SeesLess ==
  ASSUME NEW S, IsFiniteSet(S), NEW T, T \subseteq S,
         NEW o \in Int, NEW n \in Int, NEW m \in Int, n <= m, NEW limit \in Int,
         Sees(S, o, n, limit)
  PROVE  Sees(T, o, m, limit)
<1>1. Cardinality({g \in T : g[2] < o}) <= limit - 1
  <2>1. PICK A, B : A = {g \in S : g[2] < o} /\ B = {g \in T : g[2] < o}
    OBVIOUS
  <2>2. IsFiniteSet(A) /\ B \subseteq A /\ Cardinality(A) <= limit - 1
    BY <2>1, Smaller DEF Sees
  <2>3. Cardinality(B) <= limit - 1
    BY <2>2, Smaller
  <2>4. QED
    BY <2>1, <2>3
<1>2. Cardinality({g \in T : g[2] >= o}) <= m
  <2>1. PICK A, B : A = {g \in S : g[2] >= o} /\ B = {g \in T : g[2] >= o}
    OBVIOUS
  <2>2. IsFiniteSet(A) /\ B \subseteq A /\ Cardinality(A) <= n
    BY <2>1, Smaller DEF Sees
  <2>3. Cardinality(B) <= m
    BY <2>2, Smaller
  <2>4. QED
    BY <2>1, <2>3
<1>3. Cardinality({g \in T : g[2] > o}) <= m - 1
  <2>1. PICK A, B : A = {g \in S : g[2] > o} /\ B = {g \in T : g[2] > o}
    OBVIOUS
  <2>2. IsFiniteSet(A) /\ B \subseteq A /\ Cardinality(A) <= n - 1
    BY <2>1, Smaller DEF Sees
  <2>3. Cardinality(B) <= m - 1
    BY <2>2, Smaller
  <2>4. QED
    BY <2>1, <2>3
<1>4. QED
  BY <1>1, <1>2, <1>3 DEF Sees

\* One admission more, inside the window, is one more that it counts.
LEMMA SeesOneMore ==
  ASSUME NEW S, IsFiniteSet(S), NEW o \in Int, NEW n \in Int, NEW limit \in Int,
         Sees(S, o, n, limit),
         NEW x, x[2] \in Int, o <= x[2], x[2] < o + Window
  PROVE  Sees(S \cup {x}, o, n + 1, limit)
<1>1. PICK T : T = S \cup {x}
  OBVIOUS
<1>2. Cardinality({g \in T : g[2] < o}) <= limit - 1
  <2>1. ~(x[2] < o)
    OBVIOUS
  <2>2. {g \in T : g[2] < o} = {g \in S : g[2] < o}
    BY <1>1, <2>1
  <2>3. QED
    BY <2>2 DEF Sees
<1>3. Cardinality({g \in T : g[2] >= o}) <= n + 1
  <2>1. PICK A, B : A = {g \in S : g[2] >= o} /\ B = {g \in T : g[2] >= o}
    OBVIOUS
  <2>2. IsFiniteSet(A) /\ B \subseteq A \cup {x} /\ Cardinality(A) <= n
    BY <1>1, <2>1, Smaller DEF Sees
  <2>3. Cardinality(B) <= n + 1
    BY <2>2, OneMore
  <2>4. QED
    BY <2>1, <2>3
<1>4. Cardinality({g \in T : g[2] > o}) <= (n + 1) - 1
  <2>1. PICK A, B : A = {g \in S : g[2] > o} /\ B = {g \in T : g[2] > o}
    OBVIOUS
  <2>2. IsFiniteSet(A) /\ B \subseteq A \cup {x} /\ Cardinality(A) <= n - 1
    BY <1>1, <2>1, Smaller DEF Sees
  <2>3. Cardinality(B) <= (n + 1) - 1
    BY <2>2, OneMore
  <2>4. QED
    BY <2>1, <2>3
<1>5. \A g \in T : g[2] < o + Window
  BY <1>1 DEF Sees
<1>6. QED
  BY <1>1, <1>2, <1>3, <1>4, <1>5 DEF Sees

\* A window that is over has seen its opening out of the last Window ticks.
LEMMA SeesPast ==
  ASSUME NEW S, IsFiniteSet(S), \A g \in S : g[2] \in Int,
         NEW o \in Int, NEW n \in Int, NEW limit \in Int, n <= limit,
         Sees(S, o, n, limit),
         NEW t \in Int, o + Window <= t, Lately(S, t)
  PROVE  Past(S, t, limit)
<1>1. Window \in Int
  BY Limits
<1>2. \A g \in S : g[2] > o
  BY <1>1 DEF Lately
<1>3. PICK A : A = {g \in S : g[2] > o}
  OBVIOUS
<1>4. Cardinality(S) <= n - 1 /\ Cardinality(S) \in Int
  <2>1. A = S
    BY <1>2, <1>3
  <2>2. Cardinality(A) <= n - 1
    BY <1>3 DEF Sees
  <2>3. Cardinality(S) \in Int
    BY FS_CardinalityType
  <2>4. QED
    BY <2>1, <2>2, <2>3
<1>5. Cardinality(S) <= limit - 1
  BY <1>4
<1>6. \A g \in S : g[2] < t
  BY <1>1 DEF Sees
<1>7. QED
  BY <1>5, <1>6 DEF Past

\* A window that opens now, with an attempt that is admitted or not.
LEMMA SeesOpened ==
  ASSUME NEW S, IsFiniteSet(S), \A g \in S : g[2] \in Int,
         NEW t \in Int, NEW limit \in Int, Past(S, t, limit)
  PROVE  /\ Sees(S, t, 1, limit)
         /\ \A x : x[2] = t => Sees(S \cup {x}, t, 1, limit)
<1>1. Window \in Int /\ Window >= 1
  BY Limits
<1>2. ASSUME NEW x, x[2] = t
      PROVE  Sees(S \cup {x}, t, 1, limit)
  <2>1. PICK T : T = S \cup {x}
    OBVIOUS
  <2>2. \A g \in S : g[2] < t /\ ~(g[2] >= t) /\ ~(g[2] > t) /\ g[2] < t + Window
    BY <1>1 DEF Past
  <2>3. ~(x[2] < t) /\ x[2] >= t /\ ~(x[2] > t) /\ x[2] < t + Window
    BY <1>1, <1>2
  <2>4. Cardinality({g \in T : g[2] < t}) <= limit - 1
    <3>1. {g \in T : g[2] < t} = S
      BY <2>1, <2>2, <2>3
    <3>2. QED
      BY <3>1 DEF Past
  <2>5. Cardinality({g \in T : g[2] >= t}) <= 1
    <3>1. {g \in T : g[2] >= t} = {x}
      BY <2>1, <2>2, <2>3
    <3>2. Cardinality({x}) = 1
      BY FS_Singleton
    <3>3. QED
      BY <3>1, <3>2
  <2>6. Cardinality({g \in T : g[2] > t}) <= 1 - 1
    <3>1. {g \in T : g[2] > t} = {}
      BY <2>1, <2>2, <2>3
    <3>2. Cardinality({}) = 0
      BY FS_EmptySet
    <3>3. QED
      BY <3>1, <3>2
  <2>7. \A g \in T : g[2] < t + Window
    BY <2>1, <2>2, <2>3
  <2>8. QED
    BY <2>1, <2>4, <2>5, <2>6, <2>7 DEF Sees
<1>3. Sees(S, t, 1, limit)
  <2>1. PICK x : x = <<t, t>>
    OBVIOUS
  <2>2. x[2] = t
    BY <2>1
  <2>3. Sees(S \cup {x}, t, 1, limit)
    BY <1>2, <2>2
  <2>4. PICK T : T = S \cup {x}
    OBVIOUS
  <2>5. IsFiniteSet(T) /\ S \subseteq T
    BY <2>4, FS_AddElement
  <2>6. Sees(T, t, 1, limit)
    BY <2>3, <2>4
  <2>7. QED
    BY <2>5, <2>6, SeesLess
<1>4. QED
  BY <1>2, <1>3

LEMMA SeesFew ==
  ASSUME NEW S, IsFiniteSet(S), \A g \in S : g[2] \in Int,
         NEW o \in Int, NEW n \in Int, NEW limit \in Int, n <= limit,
         Sees(S, o, n, limit)
  PROVE  Cardinality(S) < 2 * limit
<1>1. PICK A, B : A = {g \in S : g[2] < o} /\ B = {g \in S : g[2] >= o}
  OBVIOUS
<1>2. S = A \cup B /\ A \subseteq S /\ B \subseteq S /\ A \cap B = {}
  BY <1>1
<1>3. Cardinality(A) <= limit - 1 /\ Cardinality(B) <= n
  BY <1>1 DEF Sees
<1>4. /\ IsFiniteSet(A) /\ IsFiniteSet(B)
      /\ Cardinality(A) \in Nat /\ Cardinality(B) \in Nat
  BY <1>2, Smaller
<1>5. Cardinality(S) = Cardinality(A) + Cardinality(B) - Cardinality(A \cap B)
  BY <1>2, <1>4, FS_Union
<1>6. Cardinality(S) = Cardinality(A) + Cardinality(B)
  BY <1>2, <1>4, <1>5, FS_EmptySet
<1>7. QED
  BY <1>3, <1>4, <1>6

\* The admissions of one client, as the generic lemmas want them.
LEMMA OfClient ==
  ASSUME Inv, Lately(recent, now), NEW c
  PROVE  /\ IsFiniteSet(Of(recent, c)) /\ Lately(Of(recent, c), now)
         /\ \A g \in Of(recent, c) : g[2] \in Int
<1>1. Of(recent, c) \subseteq recent
  BY DEF Of
<1>2. IsFiniteSet(Of(recent, c))
  BY <1>1, FS_Subset DEF Inv
<1>3. QED
  BY <1>1, <1>2 DEF Inv, TypeOK, Lately

LEMMA PurgeSees ==
  ASSUME Inv, ClientsSee(table, recent, now), Lately(recent, now),
         NEW live \in Suffixes, Purged(live)
  PROVE  ClientsSee(live, recent, now)
<1>1. PICK k \in 0..Len(table) : /\ live = SubSeq(table, k + 1, Len(table))
                                 /\ \A i \in 1..k : table[i].reset <= now
  BY DEF Purged
<1>2. /\ table \in Seq(Entry) /\ Len(table) \in Nat /\ k \in Nat
      /\ Len(live) = Len(table) - k
      /\ \A i \in 1..Len(live) : live[i] = table[k + i]
  BY <1>1, SuffixElements, LenProperties DEF Inv, TypeOK
<1>3. ASSUME NEW i \in 1..Len(live)
      PROVE  Sees(Of(recent, live[i].client), live[i].reset - Window, live[i].count, PerClient)
  <2>1. k + i \in 1..Len(table) /\ live[i] = table[k + i]
    BY <1>2
  <2>2. QED
    BY <2>1 DEF ClientsSee
<1>4. ASSUME NEW c \in Clients, ~Has(live, c)
      PROVE  Past(Of(recent, c), now, PerClient)
  <2>1. CASE ~Has(table, c)
    BY <2>1 DEF ClientsSee
  <2>2. CASE Has(table, c)
    <3>1. PICK j \in 1..Len(table) : table[j].client = c
      BY <2>2 DEF Has
    <3>2. j \in 1..k
      <4>1. SUFFICES ASSUME j \notin 1..k
                     PROVE  FALSE
        OBVIOUS
      <4>2. PICK i : i = j - k
        OBVIOUS
      <4>3. i \in 1..Len(live) /\ k + i = j
        BY <1>2, <4>1, <4>2
      <4>4. live[i].client = c
        BY <1>2, <3>1, <4>3
      <4>5. QED
        BY <1>4, <4>3, <4>4 DEF Has
    <3>3. PICK r, n : r = table[j].reset /\ n = table[j].count
      OBVIOUS
    <3>4. r <= now /\ r \in Nat /\ n \in 1..PerClient
      BY <1>1, <1>2, <3>2, <3>3, EntryFields
    <3>5. Sees(Of(recent, c), r - Window, n, PerClient)
      BY <3>1, <3>3 DEF ClientsSee
    <3>6. now \in Int /\ r - Window \in Int /\ n \in Int /\ PerClient \in Int
          /\ n <= PerClient /\ (r - Window) + Window <= now
      BY <3>4, Limits DEF Inv, TypeOK
    <3>7. QED
      BY <3>5, <3>6, OfClient, SeesPast
  <2>3. QED
    BY <2>1, <2>2
<1>5. QED
  BY <1>3, <1>4 DEF ClientsSee

\* An attempt that passes the global check, admitted or not.
LEMMA EveryoneAttempt ==
  ASSUME Inv, EveryoneSees(recent, globalReset, globalCount, now), Lately(recent, now),
         CurrentCount < GlobalLimit,
         NEW x, x[2] = now, NEW S, S = recent \/ S = recent \cup {x}
  PROVE  EveryoneSees(S, CurrentReset, CurrentCount + 1, now)
<1>1. /\ now \in Nat /\ globalReset \in Nat /\ globalCount \in 0..GlobalLimit
      /\ GlobalLimit \in Nat /\ GlobalLimit >= 1 /\ Window \in Nat /\ Window >= 1
  BY Limits DEF Inv, TypeOK
<1>2. IsFiniteSet(recent) /\ \A g \in recent : g[2] \in Int
  BY DEF Inv, TypeOK
<1>3. CASE now >= globalReset
  <2>1. CurrentReset = now + Window /\ CurrentCount = 0
    BY <1>3 DEF CurrentReset, CurrentCount
  <2>2. Past(recent, now, GlobalLimit)
    <3>1. CASE globalCount = 0
      <4>1. recent = {}
        BY <3>1 DEF EveryoneSees
      <4>2. Cardinality({}) = 0
        BY FS_EmptySet
      <4>3. QED
        BY <1>1, <4>1, <4>2 DEF Past
    <3>2. CASE globalCount # 0
      <4>1. Sees(recent, globalReset - Window, globalCount, GlobalLimit)
        BY <3>2 DEF EveryoneSees
      <4>2. /\ globalReset - Window \in Int /\ globalCount \in Int
            /\ globalCount <= GlobalLimit
            /\ (globalReset - Window) + Window <= now
        BY <1>1, <1>3
      <4>3. QED
        BY <1>1, <1>2, <4>1, <4>2, SeesPast
    <3>3. QED
      BY <3>1, <3>2
  <2>3. Sees(S, now, 1, GlobalLimit)
    BY <1>1, <1>2, <2>2, SeesOpened
  <2>4. (now + Window) - Window = now /\ 0 + 1 = 1 /\ 1 # 0 /\ now + Window <= now + Window
    BY <1>1
  <2>5. QED
    BY <2>1, <2>3, <2>4 DEF EveryoneSees
<1>4. CASE ~(now >= globalReset)
  <2>1. CurrentReset = globalReset /\ CurrentCount = globalCount
    BY <1>4 DEF CurrentReset, CurrentCount
  <2>2. globalCount # 0
    BY <1>1, <1>4 DEF EveryoneSees
  <2>3. /\ Sees(recent, globalReset - Window, globalCount, GlobalLimit)
        /\ globalReset <= now + Window
    BY <2>2 DEF EveryoneSees
  <2>4. PICK o, n : o = globalReset - Window /\ n = globalCount
    OBVIOUS
  <2>5. /\ o \in Int /\ n \in Int /\ n + 1 \in Int /\ n <= n + 1 /\ n + 1 # 0
        /\ o <= x[2] /\ x[2] < o + Window /\ x[2] \in Int
    BY <1>1, <1>4, <2>3, <2>4
  <2>6. Sees(recent \cup {x}, o, n + 1, GlobalLimit)
    BY <1>1, <1>2, <2>3, <2>4, <2>5, SeesOneMore
  <2>7. Sees(recent, o, n + 1, GlobalLimit)
    BY <1>1, <1>2, <2>3, <2>4, <2>5, SeesLess
  <2>8. QED
    BY <2>1, <2>3, <2>4, <2>5, <2>6, <2>7 DEF EveryoneSees
<1>5. QED
  BY <1>3, <1>4

LEMMA RefusalSees ==
  ASSUME Inv, WindowsSee, NEW c \in Clients,
         RefuseGlobally(c) \/ RefuseNewcomer(c) \/ RefuseClient(c)
  PROVE  WindowsSee'
<1>1. /\ table' \in Suffixes /\ Purged(table')
      /\ recent' = recent /\ now' = now
  BY DEF RefuseGlobally, RefuseNewcomer, RefuseClient, Refuse
<1>2. ClientsSee(table', recent, now)
  BY <1>1, PurgeSees DEF WindowsSee
<1>3. EveryoneSees(recent, globalReset', globalCount', now)
  <2>1. CASE RefuseGlobally(c)
    <3>1. CurrentCount # 0
      BY <2>1, Limits DEF RefuseGlobally
    <3>2. globalReset' = globalReset /\ globalCount' = globalCount
      BY <2>1, <3>1 DEF RefuseGlobally, CurrentCount, CurrentReset
    <3>3. QED
      BY <3>2 DEF WindowsSee
  <2>2. CASE RefuseNewcomer(c) \/ RefuseClient(c)
    <3>1. /\ globalReset' = CurrentReset /\ globalCount' = CurrentCount + 1
          /\ CurrentCount < GlobalLimit
      BY <2>2 DEF RefuseNewcomer, RefuseClient, CountAttempt
    <3>2. PICK x : x = <<now, now>>
      OBVIOUS
    <3>3. x[2] = now
      BY <3>2
    <3>4. EveryoneSees(recent, CurrentReset, CurrentCount + 1, now)
      BY <3>1, <3>3, EveryoneAttempt DEF WindowsSee
    <3>5. QED
      BY <3>1, <3>4
  <2>3. QED
    BY <2>1, <2>2
<1>4. QED
  BY <1>1, <1>2, <1>3 DEF WindowsSee

LEMMA CountedElements ==
  ASSUME NEW live \in Seq(Entry), NEW c, NEW s, s = Counted(live, c)
  PROVE  /\ Len(s) = Len(live)
         /\ \A i \in 1..Len(s) :
              /\ s[i].client = live[i].client /\ s[i].reset = live[i].reset
              /\ live[i].client = c => s[i].count = live[i].count + 1
              /\ live[i].client # c => s[i].count = live[i].count
<1>1. Len(live) \in Nat
  BY LenProperties
<1>2. Len(s) = Len(live)
  BY <1>1, LenProperties DEF Counted
<1>3. ASSUME NEW i \in 1..Len(s)
      PROVE  /\ s[i].client = live[i].client /\ s[i].reset = live[i].reset
             /\ live[i].client = c => s[i].count = live[i].count + 1
             /\ live[i].client # c => s[i].count = live[i].count
  <2>1. live[i] \in Entry
    BY <1>2, EntryFields
  <2>2. s[i] = IF live[i].client = c THEN [live[i] EXCEPT !.count = @ + 1] ELSE live[i]
    BY <1>2 DEF Counted
  <2>3. QED
    BY <2>1, <2>2 DEF Entry
<1>4. QED
  BY <1>2, <1>3

LEMMA OpenedElements ==
  ASSUME Inv, NEW live \in Seq(Entry), NEW c \in Clients, NEW s, s = Opened(live, c)
  PROVE  /\ Len(s) = Len(live) + 1 /\ \A i \in 1..Len(live) : s[i] = live[i]
         /\ s[Len(live) + 1] = [client |-> c, reset |-> now + Window, count |-> 1]
<1>1. PICK e : e = [client |-> c, reset |-> now + Window, count |-> 1]
  OBVIOUS
<1>2. e \in Entry
  BY <1>1, Limits DEF Entry, Inv, TypeOK
<1>3. s = Append(live, e)
  BY <1>1 DEF Opened
<1>4. QED
  BY <1>1, <1>2, <1>3, AppendProperties

LEMMA CountedSees ==
  ASSUME Inv, ClientsSee(table, recent, now), Lately(recent, now),
         NEW live \in Suffixes, Purged(live), NEW c \in Clients, Has(live, c),
         NEW x, x[1] = c, x[2] = now
  PROVE  ClientsSee(Counted(live, c), recent \cup {x}, now)
<1>1. live \in Seq(Entry) /\ InOrder(live) /\ Len(live) \in Nat
  BY SuffixInOrder, LenProperties
<1>2. ClientsSee(live, recent, now)
  BY PurgeSees
<1>3. PICK s, S : s = Counted(live, c) /\ S = recent \cup {x}
  OBVIOUS
<1>4. Of(S, c) = Of(recent, c) \cup {x} /\ \A d : d # c => Of(S, d) = Of(recent, d)
  BY <1>3 DEF Of
<1>5. Len(s) = Len(live)
  BY <1>1, <1>3, CountedElements
<1>6. \A i \in 1..Len(s) :
        /\ s[i].client = live[i].client /\ s[i].reset = live[i].reset
        /\ live[i].client = c => s[i].count = live[i].count + 1
        /\ live[i].client # c => s[i].count = live[i].count
  BY <1>1, <1>3, CountedElements
<1>7. ASSUME NEW i \in 1..Len(s)
      PROVE  Sees(Of(S, s[i].client), s[i].reset - Window, s[i].count, PerClient)
  <2>1. PICK d, r, n : d = live[i].client /\ r = live[i].reset /\ n = live[i].count
    OBVIOUS
  <2>2. /\ d \in Clients /\ r \in Nat /\ n \in Int /\ r > now /\ r <= now + Window
        /\ now \in Int
    <3>1. i \in 1..Len(live)
      BY <1>5
    <3>2. d \in Clients /\ r \in Nat /\ n \in 1..PerClient
      BY <1>1, <2>1, <3>1, EntryFields
    <3>3. r > now
      BY <1>1, <2>1, <3>1, PurgedIsOpen
    <3>4. r <= now + Window
      BY <1>1, <2>1, <3>1 DEF InOrder
    <3>5. QED
      BY <3>2, <3>3, <3>4, Limits DEF Inv, TypeOK
  <2>3. Sees(Of(recent, d), r - Window, n, PerClient)
    BY <1>2, <1>5, <2>1 DEF ClientsSee
  <2>4. CASE d = c
    <3>1. PICK o : o = r - Window
      OBVIOUS
    <3>2. o \in Int /\ o <= x[2] /\ x[2] < o + Window /\ x[2] \in Int /\ PerClient \in Int
      BY <2>2, <3>1, Limits
    <3>3. Sees(Of(recent, c) \cup {x}, o, n + 1, PerClient)
      BY <2>2, <2>3, <2>4, <3>1, <3>2, OfClient, SeesOneMore
    <3>4. Of(S, d) = Of(recent, c) \cup {x}
      BY <1>4, <2>4
    <3>5. s[i].client = d /\ s[i].reset = r /\ s[i].count = n + 1
      BY <1>6, <2>1, <2>4
    <3>6. QED
      BY <3>1, <3>3, <3>4, <3>5
  <2>5. CASE d # c
    <3>1. Of(S, d) = Of(recent, d)
      BY <1>4, <2>5
    <3>2. s[i].client = d /\ s[i].reset = r /\ s[i].count = n
      BY <1>6, <2>1, <2>5
    <3>3. QED
      BY <2>3, <3>1, <3>2
  <2>6. QED
    BY <2>4, <2>5
<1>8. ASSUME NEW d \in Clients, ~Has(s, d)
      PROVE  Past(Of(S, d), now, PerClient)
  <2>1. ~Has(live, d)
    BY <1>5, <1>6, <1>8 DEF Has
  <2>2. d # c
    BY <2>1
  <2>3. Of(S, d) = Of(recent, d)
    BY <1>4, <2>2
  <2>4. QED
    BY <1>2, <2>1, <2>3 DEF ClientsSee
<1>9. QED
  BY <1>3, <1>7, <1>8 DEF ClientsSee

LEMMA OpenedSees ==
  ASSUME Inv, ClientsSee(table, recent, now), Lately(recent, now),
         NEW live \in Suffixes, Purged(live), NEW c \in Clients, ~Has(live, c),
         NEW x, x[1] = c, x[2] = now
  PROVE  ClientsSee(Opened(live, c), recent \cup {x}, now)
<1>1. live \in Seq(Entry) /\ Len(live) \in Nat
  BY SuffixInOrder, LenProperties
<1>2. ClientsSee(live, recent, now)
  BY PurgeSees
<1>3. PICK s, S, n : s = Opened(live, c) /\ S = recent \cup {x} /\ n = Len(live)
  OBVIOUS
<1>4. Of(S, c) = Of(recent, c) \cup {x} /\ \A d : d # c => Of(S, d) = Of(recent, d)
  BY <1>3 DEF Of
<1>5. now \in Nat /\ Window \in Nat /\ PerClient \in Nat /\ PerClient >= 1
  BY Limits DEF Inv, TypeOK
<1>6. /\ Len(s) = n + 1 /\ \A i \in 1..n : s[i] = live[i]
      /\ s[n + 1] = [client |-> c, reset |-> now + Window, count |-> 1]
  <2>1. /\ Len(s) = Len(live) + 1 /\ \A i \in 1..Len(live) : s[i] = live[i]
        /\ s[Len(live) + 1] = [client |-> c, reset |-> now + Window, count |-> 1]
    BY <1>1, <1>3, OpenedElements
  <2>2. QED
    BY <1>3, <2>1
<1>7. ASSUME NEW i \in 1..Len(s)
      PROVE  Sees(Of(S, s[i].client), s[i].reset - Window, s[i].count, PerClient)
  <2>1. CASE i \in 1..n
    <3>1. s[i] = live[i] /\ live[i].client # c
      BY <1>3, <1>6, <2>1 DEF Has
    <3>2. Sees(Of(recent, live[i].client), live[i].reset - Window, live[i].count, PerClient)
      BY <1>2, <1>3, <2>1 DEF ClientsSee
    <3>3. Of(S, live[i].client) = Of(recent, live[i].client)
      BY <1>4, <3>1
    <3>4. QED
      BY <3>1, <3>2, <3>3
  <2>2. CASE i = n + 1
    <3>1. s[i].client = c /\ s[i].count = 1 /\ s[i].reset - Window = now
      BY <1>5, <1>6, <2>2
    <3>2. Past(Of(recent, c), now, PerClient)
      BY <1>2 DEF ClientsSee
    <3>3. Sees(Of(recent, c) \cup {x}, now, 1, PerClient)
      BY <1>5, <3>2, OfClient, SeesOpened
    <3>4. QED
      BY <1>4, <3>1, <3>3
  <2>3. QED
    BY <1>1, <1>3, <1>6, <2>1, <2>2
<1>8. ASSUME NEW d \in Clients, ~Has(s, d)
      PROVE  Past(Of(S, d), now, PerClient)
  <2>1. d # c
    <3>1. n + 1 \in 1..Len(s) /\ s[n + 1].client = c
      BY <1>1, <1>3, <1>6
    <3>2. QED
      BY <1>8, <3>1 DEF Has
  <2>2. ~Has(live, d)
    <3>1. \A i \in 1..n : i \in 1..Len(s) /\ s[i] = live[i]
      BY <1>1, <1>3, <1>6
    <3>2. QED
      BY <1>3, <1>8, <3>1 DEF Has
  <2>3. Of(S, d) = Of(recent, d)
    BY <1>4, <2>1
  <2>4. QED
    BY <1>2, <2>2, <2>3 DEF ClientsSee
<1>9. QED
  BY <1>3, <1>7, <1>8 DEF ClientsSee

LEMMA AdmissionSees ==
  ASSUME Inv, WindowsSee, NEW c \in Clients, Admit(c)
  PROVE  WindowsSee'
<1>1. PICK x : x = <<c, now, Cardinality({g \in recent : g[1] = c /\ g[2] = now}) + 1>>
  OBVIOUS
<1>2. x[1] = c /\ x[2] = now
  BY <1>1
<1>3. /\ recent' = recent \cup {x} /\ now' = now /\ CurrentCount < GlobalLimit
      /\ globalReset' = CurrentReset /\ globalCount' = CurrentCount + 1
  BY <1>1 DEF Admit, CountAttempt
<1>4. PICK live \in Suffixes :
           /\ Purged(live)
           /\ \/ Has(live, c) /\ table' = Counted(live, c)
              \/ ~Has(live, c) /\ table' = Opened(live, c)
  BY DEF Admit
<1>5. ClientsSee(table', recent \cup {x}, now)
  BY <1>2, <1>4, CountedSees, OpenedSees DEF WindowsSee
<1>6. EveryoneSees(recent \cup {x}, CurrentReset, CurrentCount + 1, now)
  BY <1>2, <1>3, EveryoneAttempt DEF WindowsSee
<1>7. Lately(recent \cup {x}, now)
  <2>1. now \in Int /\ Window \in Int /\ Window >= 1
    BY Limits DEF Inv, TypeOK
  <2>2. QED
    BY <1>2, <2>1 DEF WindowsSee, Lately
<1>8. QED
  BY <1>3, <1>5, <1>6, <1>7 DEF WindowsSee

LEMMA TickSees ==
  ASSUME Inv, WindowsSee, Tick
  PROVE  WindowsSee'
<1>1. /\ now' = now + 1 /\ now \in Nat /\ Window \in Nat
      /\ recent' = {g \in recent : g[2] > now' - Window}
      /\ table' = table /\ globalReset' = globalReset /\ globalCount' = globalCount
  BY Limits DEF Tick, limiterVars, Inv, TypeOK
<1>2. PICK R, t : R = recent' /\ t = now'
  OBVIOUS
<1>3. /\ R \subseteq recent /\ IsFiniteSet(recent)
      /\ \A g \in recent : g[2] \in Int
  BY <1>1, <1>2 DEF Inv, TypeOK
<1>4. ClientsSee(table, R, t)
  <2>1. \A c : Of(R, c) \subseteq Of(recent, c)
    BY <1>3 DEF Of
  <2>2. ASSUME NEW i \in 1..Len(table)
        PROVE  Sees(Of(R, table[i].client), table[i].reset - Window,
                    table[i].count, PerClient)
    <3>1. PICK d, o, n : /\ d = table[i].client /\ o = table[i].reset - Window
                         /\ n = table[i].count
      OBVIOUS
    <3>2. o \in Int /\ n \in Int /\ n <= n /\ PerClient \in Int
      BY <3>1, EntryFields, Limits DEF Inv, TypeOK
    <3>3. Sees(Of(recent, d), o, n, PerClient)
      BY <3>1 DEF WindowsSee, ClientsSee
    <3>4. Sees(Of(R, d), o, n, PerClient)
      BY <2>1, <3>2, <3>3, OfClient, SeesLess DEF WindowsSee
    <3>5. QED
      BY <3>1, <3>4
  <2>3. ASSUME NEW c \in Clients, ~Has(table, c)
        PROVE  Past(Of(R, c), t, PerClient)
    <3>1. PICK A, B : A = Of(recent, c) /\ B = Of(R, c)
      OBVIOUS
    <3>2. Past(A, now, PerClient)
      BY <2>3, <3>1 DEF WindowsSee, ClientsSee
    <3>3. B \subseteq A /\ IsFiniteSet(A) /\ \A g \in A : g[2] \in Int
      BY <2>1, <3>1, OfClient DEF WindowsSee
    <3>4. Cardinality(B) <= PerClient - 1
      BY <3>2, <3>3, Smaller, Limits DEF Past
    <3>5. \A g \in B : g[2] < t
      BY <1>1, <1>2, <3>2, <3>3 DEF Past
    <3>6. QED
      BY <3>1, <3>4, <3>5 DEF Past
  <2>4. QED
    BY <2>2, <2>3 DEF ClientsSee
<1>5. EveryoneSees(R, globalReset, globalCount, t)
  <2>1. globalReset \in Nat /\ globalCount \in Int /\ GlobalLimit \in Int
    BY Limits DEF Inv, TypeOK
  <2>2. CASE globalCount = 0
    BY <1>1, <1>2, <1>3, <2>1, <2>2 DEF WindowsSee, EveryoneSees
  <2>3. CASE globalCount # 0
    <3>1. PICK o, n : o = globalReset - Window /\ n = globalCount
      OBVIOUS
    <3>2. Sees(recent, o, n, GlobalLimit) /\ globalReset <= now + Window
      BY <2>3, <3>1 DEF WindowsSee, EveryoneSees
    <3>3. o \in Int /\ n \in Int /\ n <= n
      BY <1>1, <2>1, <3>1
    <3>4. Sees(R, o, n, GlobalLimit)
      BY <1>3, <2>1, <3>2, <3>3, SeesLess
    <3>5. globalReset <= t + Window
      BY <1>1, <1>2, <2>1, <3>2
    <3>6. QED
      BY <2>3, <3>1, <3>4, <3>5 DEF EveryoneSees
  <2>4. QED
    BY <2>2, <2>3
<1>6. Lately(R, t)
  <2>1. \A g \in recent : g[2] <= now
    BY DEF WindowsSee, Lately
  <2>2. \A g \in R : g[2] > t - Window
    BY <1>1, <1>2
  <2>3. QED
    BY <1>1, <1>2, <1>3, <2>1, <2>2 DEF Lately
<1>7. QED
  BY <1>1, <1>2, <1>4, <1>5, <1>6 DEF WindowsSee

\* What the current windows can know of the admissions of the last Window ticks
\* stays true, of every client and of all together.
THEOREM WindowsInvariance == Spec => []WindowsSee
<1>1. Init => WindowsSee
  <2>1. SUFFICES ASSUME Init
                 PROVE  WindowsSee
    OBVIOUS
  <2>2. recent = {} /\ table = <<>> /\ now = 0 /\ globalReset = 0 /\ globalCount = 0
    BY <2>1 DEF Init
  <2>3. \A c : Of({}, c) = {}
    BY DEF Of
  <2>4. Past({}, 0, PerClient)
    <3>1. Cardinality({}) = 0
      BY FS_EmptySet
    <3>2. QED
      BY <3>1, Limits DEF Past
  <2>5. ClientsSee(<<>>, {}, 0)
    <3>1. Len(<<>>) = 0
      BY EmptySeq
    <3>2. \A i \in 1..Len(<<>>) : FALSE
      BY <3>1
    <3>3. QED
      BY <2>3, <2>4, <3>2 DEF ClientsSee
  <2>6. EveryoneSees({}, 0, 0, 0) /\ Lately({}, 0)
    BY DEF EveryoneSees, Lately
  <2>7. QED
    BY <2>2, <2>5, <2>6 DEF WindowsSee
<1>2. Inv /\ WindowsSee /\ Next => WindowsSee'
  BY TickSees, RefusalSees, AdmissionSees DEF Next
<1>3. Inv /\ WindowsSee /\ UNCHANGED vars => WindowsSee'
  BY DEF WindowsSee, vars, limiterVars
<1>4. Inv /\ WindowsSee /\ [Next]_vars => WindowsSee'
  BY <1>2, <1>3
<1>5. QED
  BY <1>1, <1>4, Invariance, PTL DEF Spec

\* Whatever the limits: no interval as long as a window sees twice the limit admitted,
\* of one client or of all together.
THEOREM BurstsStayBounded == Spec => []BurstsBounded
<1>1. Inv /\ WindowsSee => BurstsBounded
  <2>1. SUFFICES ASSUME Inv, WindowsSee
                 PROVE  BurstsBounded
    OBVIOUS
  <2>2. ASSUME NEW c \in Clients
        PROVE  Cardinality({g \in recent : g[1] = c}) < 2 * PerClient
    <3>1. PICK A : A = Of(recent, c)
      OBVIOUS
    <3>2. IsFiniteSet(A) /\ Cardinality(A) \in Nat /\ \A g \in A : g[2] \in Int
      BY <2>1, <3>1, OfClient, FS_CardinalityType DEF WindowsSee
    <3>3. PerClient \in Nat /\ PerClient >= 1 /\ Window \in Nat
      BY Limits
    <3>4. CASE Has(table, c)
      <4>1. PICK i \in 1..Len(table) : table[i].client = c
        BY <3>4 DEF Has
      <4>2. PICK o, n : o = table[i].reset - Window /\ n = table[i].count
        OBVIOUS
      <4>3. o \in Int /\ n \in Int /\ n <= PerClient
        BY <2>1, <3>3, <4>2, EntryFields DEF Inv, TypeOK
      <4>4. Sees(A, o, n, PerClient)
        BY <2>1, <3>1, <4>1, <4>2 DEF WindowsSee, ClientsSee
      <4>5. Cardinality(A) < 2 * PerClient
        BY <3>2, <3>3, <4>3, <4>4, SeesFew
      <4>6. QED
        BY <3>1, <4>5 DEF Of
    <3>5. CASE ~Has(table, c)
      <4>1. Cardinality(A) <= PerClient - 1
        BY <2>1, <3>1, <3>5 DEF WindowsSee, ClientsSee, Past
      <4>2. Cardinality(A) < 2 * PerClient
        BY <3>2, <3>3, <4>1
      <4>3. QED
        BY <3>1, <4>2 DEF Of
    <3>6. QED
      BY <3>4, <3>5
  <2>3. Cardinality(recent) < 2 * GlobalLimit
    <3>1. /\ IsFiniteSet(recent) /\ \A g \in recent : g[2] \in Int
          /\ globalReset \in Nat /\ globalCount \in 0..GlobalLimit
          /\ GlobalLimit \in Nat /\ GlobalLimit >= 1 /\ Window \in Nat
      BY <2>1, Limits DEF Inv, TypeOK
    <3>2. CASE globalCount = 0
      <4>1. recent = {}
        BY <2>1, <3>2 DEF WindowsSee, EveryoneSees
      <4>2. Cardinality({}) = 0
        BY FS_EmptySet
      <4>3. QED
        BY <3>1, <4>1, <4>2
    <3>3. CASE globalCount # 0
      <4>1. PICK o, n : o = globalReset - Window /\ n = globalCount
        OBVIOUS
      <4>2. Sees(recent, o, n, GlobalLimit)
        BY <2>1, <3>3, <4>1 DEF WindowsSee, EveryoneSees
      <4>3. o \in Int /\ n \in Int /\ n <= GlobalLimit
        BY <3>1, <4>1
      <4>4. QED
        BY <3>1, <4>2, <4>3, SeesFew
    <3>4. QED
      BY <3>2, <3>3
  <2>4. QED
    BY <2>2, <2>3 DEF BurstsBounded
<1>2. QED
  BY <1>1, Invariance, WindowsInvariance, PTL

-----------------------------------------------------------------------------
(***************************************************************************)
(* The refinement.  What the promise sees of the table does not change     *)
(* when expired entries are popped, and since the entries left are all     *)
(* open, a full table is as many open windows as there may be.             *)
(***************************************************************************)

windows == [c \in Clients |-> OpenWindow(c)]

everyone == IF globalReset > now /\ globalCount > 0
              THEN [reset |-> globalReset, count |-> globalCount] ELSE None

\* OpenWindow of any table and moment.
WindowIn(s, t, c) ==
    LET mine == {i \in {j \in 1..Len(s) : s[j].reset > t} : s[i].client = c} IN
    IF mine = {} THEN None
    ELSE LET i == CHOOSE i \in mine : TRUE IN
         [reset |-> s[i].reset, count |-> s[i].count]

OneEntryEach(s) == \A i, k \in 1..Len(s) : s[i].client = s[k].client => i = k

LEMMA WindowsIn ==
  /\ windows = [c \in Clients |-> WindowIn(table, now, c)]
  /\ windows' = [c \in Clients |-> WindowIn(table', now', c)]
  BY DEF windows, OpenWindow, Unexpired, WindowIn

LEMMA OneEntry ==
  ASSUME NEW s \in Seq(Entry), InOrder(s)
  PROVE  OneEntryEach(s)
<1>1. Len(s) \in Nat
  BY LenProperties
<1>2. ASSUME NEW i \in 1..Len(s), NEW k \in 1..Len(s), s[i].client = s[k].client
      PROVE  i = k
  <2>1. ~(i < k) /\ ~(k < i)
    BY <1>2 DEF InOrder
  <2>2. QED
    BY <1>1, <2>1
<1>3. QED
  BY <1>2 DEF OneEntryEach

LEMMA WindowEntry ==
  ASSUME NEW s, OneEntryEach(s), NEW i \in 1..Len(s), NEW t, s[i].reset > t
  PROVE  WindowIn(s, t, s[i].client) = [reset |-> s[i].reset, count |-> s[i].count]
<1> DEFINE mine == {k \in {j \in 1..Len(s) : s[j].reset > t} : s[k].client = s[i].client}
<1>1. mine = {i}
  BY DEF OneEntryEach
<1>2. (CHOOSE k \in mine : TRUE) = i
  BY <1>1
<1>3. QED
  BY <1>1, <1>2 DEF WindowIn

LEMMA NoWindow ==
  ASSUME NEW s, NEW t, NEW c, \A i \in 1..Len(s) : s[i].client = c => ~(s[i].reset > t)
  PROVE  WindowIn(s, t, c) = None
<1> DEFINE mine == {k \in {j \in 1..Len(s) : s[j].reset > t} : s[k].client = c}
<1>1. mine = {}
  OBVIOUS
<1>2. QED
  BY <1>1 DEF WindowIn

\* A purged table: every entry is open.
LEMMA PurgedShows ==
  ASSUME Inv, NEW live \in Suffixes, Purged(live)
  PROVE  /\ \A c : ~Has(live, c) => WindowIn(live, now, c) = None
         /\ \A i \in 1..Len(live) :
              WindowIn(live, now, live[i].client)
                = [reset |-> live[i].reset, count |-> live[i].count]
         /\ \A c : WindowIn(table, now, c) = WindowIn(live, now, c)
<1>1. live \in Seq(Entry) /\ InOrder(live) /\ OneEntryEach(live)
  BY SuffixInOrder, OneEntry
<1>2. table \in Seq(Entry) /\ OneEntryEach(table)
  <2>1. table \in Seq(Entry) /\ InOrder(table)
    BY DEF Inv, TypeOK, TableInOrder, InOrder
  <2>2. QED
    BY <2>1, OneEntry
<1>3. PICK k \in 0..Len(table) : /\ live = SubSeq(table, k + 1, Len(table))
                                 /\ \A i \in 1..k : table[i].reset <= now
  BY DEF Purged
<1>4. /\ Len(table) \in Nat /\ k \in Nat /\ now \in Nat
      /\ Len(live) = Len(table) - k
      /\ \A i \in 1..Len(live) : live[i] = table[k + i]
  BY <1>2, <1>3, SuffixElements, LenProperties DEF Inv, TypeOK
<1>5. ASSUME NEW c, ~Has(live, c)
      PROVE  WindowIn(live, now, c) = None
  BY <1>5, NoWindow DEF Has
<1>6. ASSUME NEW i \in 1..Len(live)
      PROVE  WindowIn(live, now, live[i].client)
               = [reset |-> live[i].reset, count |-> live[i].count]
  BY <1>1, PurgedIsOpen, WindowEntry
<1>7. ASSUME NEW c
      PROVE  WindowIn(table, now, c) = WindowIn(live, now, c)
  <2>1. CASE Has(live, c)
    <3>1. PICK i \in 1..Len(live) : live[i].client = c
      BY <2>1 DEF Has
    <3>2. k + i \in 1..Len(table) /\ live[i] = table[k + i]
      BY <1>4
    <3>3. live[i].reset > now
      BY <1>1, PurgedIsOpen
    <3>4. WindowIn(table, now, c) = [reset |-> live[i].reset, count |-> live[i].count]
      BY <1>2, <3>1, <3>2, <3>3, WindowEntry
    <3>5. QED
      BY <1>6, <3>1, <3>4
  <2>2. CASE ~Has(live, c)
    <3>1. ASSUME NEW j \in 1..Len(table), table[j].client = c
          PROVE  ~(table[j].reset > now)
      <4>1. table[j].reset \in Nat
        BY <1>2, EntryFields
      <4>2. CASE j \in 1..k
        BY <1>3, <1>4, <4>1, <4>2
      <4>3. CASE j \notin 1..k
        <5>1. PICK i : i = j - k
          OBVIOUS
        <5>2. i \in 1..Len(live) /\ k + i = j
          BY <1>4, <4>3, <5>1
        <5>3. live[i].client = c
          BY <1>4, <3>1, <5>2
        <5>4. QED
          BY <2>2, <5>2, <5>3 DEF Has
      <4>4. QED
        BY <4>2, <4>3
    <3>2. WindowIn(table, now, c) = None
      BY <3>1, NoWindow
    <3>3. QED
      BY <1>5, <2>2, <3>2
  <2>3. QED
    BY <2>1, <2>2
<1>8. QED
  BY <1>5, <1>6, <1>7

LEMMA ClientsOfEntries ==
  ASSUME NEW s \in Seq(Entry), OneEntryEach(s)
  PROVE  Cardinality({s[i].client : i \in 1..Len(s)}) = Len(s)
<1>1. Len(s) \in Nat
  BY LenProperties
<1>2. PICK n, T : n = Len(s) /\ T = {s[i].client : i \in 1..Len(s)}
  OBVIOUS
<1>3. PICK f : f = [i \in 1..n |-> s[i].client]
  OBVIOUS
<1>4. f \in Surjection(1..n, T)
  BY <1>2, <1>3 DEF Surjection
<1>5. f \in Injection(1..n, T)
  <2>1. f \in [1..n -> T]
    BY <1>2, <1>3
  <2>2. \A i, k \in 1..n : f[i] = f[k] => i = k
    BY <1>2, <1>3 DEF OneEntryEach
  <2>3. QED
    BY <2>1, <2>2 DEF Injection, IsInjective
<1>6. IsFiniteSet(1..n) /\ Cardinality(1..n) = n
  <2>1. 1 \in Int /\ n \in Nat
    BY <1>1, <1>2
  <2>2. IsFiniteSet(1..n) /\ Cardinality(1..n) = IF 1 > n THEN 0 ELSE n - 1 + 1
    BY <2>1, FS_Interval
  <2>3. QED
    BY <2>1, <2>2
<1>7. Cardinality(T) = Cardinality(1..n)
  BY <1>4, <1>5, <1>6, FS_Surjection
<1>8. QED
  BY <1>2, <1>6, <1>7

\* How many clients the promise sees with an open window.
LEMMA OpenClients ==
  ASSUME Inv, NEW live \in Suffixes, Purged(live)
  PROVE  /\ Cardinality({c \in Clients : windows[c] # None}) = Len(live)
         /\ \A c \in Clients : windows[c] # None <=> Has(live, c)
<1>1. live \in Seq(Entry) /\ OneEntryEach(live) /\ Len(live) \in Nat
  BY SuffixInOrder, OneEntry, LenProperties
<1>2. \A c \in Clients : windows[c] = WindowIn(live, now, c)
  BY PurgedShows, WindowsIn
<1>3. ASSUME NEW c \in Clients
      PROVE  windows[c] # None <=> Has(live, c)
  <2>1. CASE Has(live, c)
    <3>1. PICK i \in 1..Len(live) : live[i].client = c
      BY <2>1 DEF Has
    <3>2. live[i].reset \in Nat /\ live[i].count \in 1..PerClient
      BY <1>1, EntryFields
    <3>3. [reset |-> live[i].reset, count |-> live[i].count] \in [reset: Nat, count: Nat]
      BY <3>2
    <3>4. windows[c] = [reset |-> live[i].reset, count |-> live[i].count]
      BY <1>2, <3>1, PurgedShows
    <3>5. QED
      BY <2>1, <3>3, <3>4, NoneAssumption
  <2>2. CASE ~Has(live, c)
    BY <1>2, <2>2, PurgedShows
  <2>3. QED
    BY <2>1, <2>2
<1>4. {c \in Clients : windows[c] # None} = {live[i].client : i \in 1..Len(live)}
  <2>1. \A i \in 1..Len(live) : live[i].client \in Clients
    BY <1>1, EntryFields
  <2>2. QED
    BY <1>3, <2>1 DEF Has
<1>5. QED
  BY <1>1, <1>3, <1>4, ClientsOfEntries

-----------------------------------------------------------------------------
(* The actions of the promise *)

Attempted == IF everyone = None THEN 0 ELSE everyone.count

Counting(w) == IF w = None THEN [reset |-> now + Window, count |-> 1]
                           ELSE [w EXCEPT !.count = @ + 1]

Tried == everyone' = Counting(everyone)

Barred(c) ==
    \/ windows[c] # None /\ windows[c].count >= PerClient
    \/ windows[c] = None /\ Cardinality({d \in Clients : windows[d] # None}) >= MaxClients

LEMMA PromiseParts ==
  /\ Promise!Exhausted <=> Attempted >= GlobalLimit
  /\ \A c \in Clients : Promise!Limited(c) <=> Barred(c)
  /\ Promise!CountAttempt <=> Tried
<1>1. \A S : Promise!Cardinality(S) = Cardinality(S)
  BY DEF Promise!Cardinality, Cardinality, Promise!IsFiniteSet, IsFiniteSet
<1>2. Promise!Exhausted <=> Attempted >= GlobalLimit
  BY DEF Promise!Exhausted, Promise!Attempts, Promise!Closed, Attempted, everyone
<1>3. Promise!Open = {d \in Clients : windows[d] # None}
  BY DEF Promise!Open, Promise!Closed, windows
<1>4. ASSUME NEW c \in Clients
      PROVE  Promise!Limited(c) <=> Barred(c)
  <2>1. c \in Promise!Open <=> windows[c] # None
    BY <1>3
  <2>2. Promise!Limited(c)
          <=> \/ c \in Promise!Open /\ windows[c].count >= PerClient
              \/ c \notin Promise!Open /\ Cardinality(Promise!Open) >= MaxClients
    BY <1>1 DEF Promise!Limited, windows
  <2>3. QED
    BY <1>3, <2>1, <2>2 DEF Barred
<1>5. Promise!CountAttempt <=> Tried
  BY DEF Promise!CountAttempt, Promise!Counting, Promise!Closed, Tried, Counting, everyone
<1>6. QED
  BY <1>2, <1>4, <1>5

LEMMA PromiseAdmits ==
  ASSUME NEW c \in Clients, ~(Attempted >= GlobalLimit), ~Barred(c), Tried,
         windows' = [windows EXCEPT ![c] = Counting(windows[c])],
         answer' = [client |-> c, admitted |-> TRUE], now' = now
  PROVE  Promise!Next
<1>1. Promise!Admit(c)
  BY PromiseParts DEF Promise!Admit, Promise!Counting, Promise!Closed, Counting, windows
<1>2. QED
  BY <1>1 DEF Promise!Next

LEMMA PromiseDenies ==
  ASSUME NEW c \in Clients,
         \/ Attempted >= GlobalLimit /\ everyone' = everyone
         \/ ~(Attempted >= GlobalLimit) /\ Barred(c) /\ Tried,
         answer' = [client |-> c, admitted |-> FALSE], now' = now, windows' = windows
  PROVE  Promise!Next
<1>1. Promise!Deny(c)
  BY PromiseParts DEF Promise!Deny, windows, everyone
<1>2. QED
  BY <1>1 DEF Promise!Next

LEMMA PromiseTicks ==
  ASSUME now' = now + 1, answer' = answer,
         windows' = [c \in Clients |->
                       IF windows[c] # None /\ windows[c].reset <= now + 1
                         THEN None ELSE windows[c]],
         everyone' = IF everyone # None /\ everyone.reset <= now + 1
                       THEN None ELSE everyone
  PROVE  Promise!Next
<1>1. Promise!Tick
  BY DEF Promise!Tick, Promise!Closed, windows, everyone
<1>2. QED
  BY <1>1 DEF Promise!Next

-----------------------------------------------------------------------------
(* One lemma per outcome, as an action of the promise *)

LEMMA NotNone ==
  ASSUME NEW r \in Nat, NEW n \in Nat
  PROVE  [reset |-> r, count |-> n] # None
<1>1. [reset |-> r, count |-> n] \in [reset: Nat, count: Nat]
  OBVIOUS
<1>2. QED
  BY <1>1, NoneAssumption

LEMMA AttemptsAgree ==
  ASSUME Inv, WindowsSee
  PROVE  Attempted = CurrentCount
<1>1. /\ now \in Nat /\ globalReset \in Nat /\ globalCount \in Nat
  BY Limits DEF Inv, TypeOK
<1>2. [reset |-> globalReset, count |-> globalCount] # None
  BY <1>1, NotNone
<1>3. QED
  BY <1>1, <1>2 DEF Attempted, everyone, CurrentCount

LEMMA AttemptCounts ==
  ASSUME Inv, WindowsSee, now' = now,
         globalReset' = CurrentReset, globalCount' = CurrentCount + 1
  PROVE  Tried
<1>1. /\ now \in Nat /\ globalReset \in Nat /\ globalCount \in Nat
      /\ Window \in Nat /\ Window >= 1
  BY Limits DEF Inv, TypeOK
<1>2. everyone' = [reset |-> CurrentReset, count |-> CurrentCount + 1]
  BY <1>1 DEF everyone, CurrentReset, CurrentCount
<1>3. CASE globalReset > now /\ globalCount > 0
  <2>1. everyone = [reset |-> globalReset, count |-> globalCount]
    BY <1>3 DEF everyone
  <2>2. everyone # None
    BY <1>1, <2>1, NotNone
  <2>3. CurrentReset = globalReset /\ CurrentCount = globalCount
    BY <1>1, <1>3 DEF CurrentReset, CurrentCount
  <2>4. QED
    BY <1>2, <2>1, <2>2, <2>3 DEF Tried, Counting
<1>4. CASE ~(globalReset > now /\ globalCount > 0)
  <2>1. everyone = None
    BY <1>4 DEF everyone
  <2>2. globalCount = 0 => globalReset <= now
    BY DEF WindowsSee, EveryoneSees
  <2>3. CurrentReset = now + Window /\ CurrentCount + 1 = 1
    BY <1>1, <1>4, <2>2 DEF CurrentReset, CurrentCount
  <2>4. QED
    BY <1>2, <2>1, <2>3 DEF Tried, Counting
<1>5. QED
  BY <1>3, <1>4

LEMMA RefusalDenies ==
  ASSUME Inv, WindowsSee, NEW c \in Clients,
         RefuseGlobally(c) \/ RefuseNewcomer(c) \/ RefuseClient(c)
  PROVE  Promise!Next
<1>1. /\ table' \in Suffixes /\ Purged(table') /\ now' = now
      /\ answer' = [client |-> c, admitted |-> FALSE]
  BY DEF RefuseGlobally, RefuseNewcomer, RefuseClient, Refuse
<1>2. windows' = windows
  <2>1. \A d : WindowIn(table, now, d) = WindowIn(table', now, d)
    BY <1>1, PurgedShows
  <2>2. QED
    BY <1>1, <2>1, WindowsIn
<1>3. Attempted = CurrentCount /\ CurrentCount \in Nat /\ GlobalLimit \in Nat
  BY AttemptsAgree, GlobalWindow, Limits
<1>4. CASE RefuseGlobally(c)
  <2>1. CurrentCount >= GlobalLimit /\ CurrentCount # 0
    BY <1>3, <1>4, Limits DEF RefuseGlobally
  <2>2. globalReset' = globalReset /\ globalCount' = globalCount
    BY <1>4, <2>1 DEF RefuseGlobally, CurrentCount, CurrentReset
  <2>3. everyone' = everyone
    BY <1>1, <2>2 DEF everyone
  <2>4. QED
    BY <1>1, <1>2, <1>3, <2>1, <2>3, PromiseDenies
<1>5. CASE RefuseNewcomer(c) \/ RefuseClient(c)
  <2>1. ~(Attempted >= GlobalLimit)
    <3>1. CurrentCount < GlobalLimit
      BY <1>5 DEF RefuseNewcomer, RefuseClient
    <3>2. QED
      BY <1>3, <3>1
  <2>2. Tried
    BY <1>1, <1>5, AttemptCounts DEF RefuseNewcomer, RefuseClient, CountAttempt
  <2>3. Barred(c)
    <3>1. CASE RefuseNewcomer(c)
      <4>1. ~Has(table', c) /\ Len(table') >= MaxClients
        BY <3>1 DEF RefuseNewcomer, Full
      <4>2. QED
        BY <1>1, <4>1, OpenClients DEF Barred
    <3>2. CASE RefuseClient(c)
      <4>1. PICK i \in 1..Len(table') : /\ table'[i].client = c
                                         /\ table'[i].count >= PerClient
        BY <3>2 DEF RefuseClient, Spent
      <4>2. windows[c] # None
        BY <1>1, <4>1, OpenClients DEF Has
      <4>3. WindowIn(table', now, c)
              = [reset |-> table'[i].reset, count |-> table'[i].count]
        BY <1>1, <4>1, PurgedShows
      <4>4. windows[c] = [reset |-> table'[i].reset, count |-> table'[i].count]
        BY <1>1, <4>3, PurgedShows, WindowsIn
      <4>5. QED
        BY <4>1, <4>2, <4>4 DEF Barred
    <3>3. QED
      BY <1>5, <3>1, <3>2
  <2>4. QED
    BY <1>1, <1>2, <2>1, <2>2, <2>3, PromiseDenies
<1>6. QED
  BY <1>4, <1>5

\* A client with a window counts one more in it; the other windows stay.
LEMMA CountedShows ==
  ASSUME Inv, NEW live \in Suffixes, Purged(live), NEW c \in Clients, Has(live, c),
         ~Spent(live, c)
  PROVE  \A d \in Clients :
           WindowIn(Counted(live, c), now, d)
             = IF d = c THEN Counting(windows[c]) ELSE windows[d]
<1>1. live \in Seq(Entry) /\ InOrder(live)
  BY SuffixInOrder
<1>2. PICK s : s = Counted(live, c)
  OBVIOUS
<1>3. OneEntryEach(s)
  BY <1>1, <1>2, CountedInOrder, OneEntry
<1>4. /\ Len(s) = Len(live)
      /\ \A i \in 1..Len(s) :
           /\ s[i].client = live[i].client /\ s[i].reset = live[i].reset
           /\ live[i].client = c => s[i].count = live[i].count + 1
           /\ live[i].client # c => s[i].count = live[i].count
  BY <1>1, <1>2, CountedElements
<1>5. \A d \in Clients : windows[d] = WindowIn(live, now, d)
  BY PurgedShows, WindowsIn
<1>6. ASSUME NEW d \in Clients
      PROVE  WindowIn(s, now, d) = IF d = c THEN Counting(windows[c]) ELSE windows[d]
  <2>1. CASE Has(live, d)
    <3>1. PICK i \in 1..Len(live) : live[i].client = d
      BY <2>1 DEF Has
    <3>2. windows[d] = [reset |-> live[i].reset, count |-> live[i].count]
      BY <1>5, <3>1, PurgedShows
    <3>3. s[i].client = d /\ s[i].reset > now
      BY <1>1, <1>4, <3>1, PurgedIsOpen
    <3>4. WindowIn(s, now, d) = [reset |-> s[i].reset, count |-> s[i].count]
      BY <1>3, <1>4, <3>3, WindowEntry
    <3>5. CASE d = c
      <4>1. windows[c] # None
        BY <3>5, <2>1, OpenClients
      <4>2. Counting(windows[c]) = [reset |-> live[i].reset, count |-> live[i].count + 1]
        BY <3>2, <3>5, <4>1 DEF Counting
      <4>3. QED
        BY <1>4, <3>1, <3>4, <3>5, <4>2
    <3>6. CASE d # c
      BY <1>4, <3>1, <3>2, <3>4, <3>6
    <3>7. QED
      BY <3>5, <3>6
  <2>2. CASE ~Has(live, d)
    <3>1. d # c /\ windows[d] = None
      BY <1>5, <2>2, PurgedShows
    <3>2. WindowIn(s, now, d) = None
      BY <1>4, <2>2, NoWindow DEF Has
    <3>3. QED
      BY <3>1, <3>2
  <2>3. QED
    BY <2>1, <2>2
<1>7. QED
  BY <1>2, <1>6

LEMMA OpenedShows ==
  ASSUME Inv, NEW live \in Suffixes, Purged(live), NEW c \in Clients, ~Has(live, c),
         ~Full(live)
  PROVE  \A d \in Clients :
           WindowIn(Opened(live, c), now, d)
             = IF d = c THEN Counting(windows[c]) ELSE windows[d]
<1>1. live \in Seq(Entry) /\ InOrder(live) /\ Len(live) \in Nat
  BY SuffixInOrder, LenProperties
<1>2. PICK s, n : s = Opened(live, c) /\ n = Len(live)
  OBVIOUS
<1>3. OneEntryEach(s)
  BY <1>1, <1>2, OpenedInOrder, OneEntry
<1>4. /\ Len(s) = n + 1 /\ \A i \in 1..n : s[i] = live[i]
      /\ s[n + 1] = [client |-> c, reset |-> now + Window, count |-> 1]
  <2>1. /\ Len(s) = Len(live) + 1 /\ \A i \in 1..Len(live) : s[i] = live[i]
        /\ s[Len(live) + 1] = [client |-> c, reset |-> now + Window, count |-> 1]
    BY <1>1, <1>2, OpenedElements
  <2>2. QED
    BY <1>2, <2>1
<1>5. \A d \in Clients : windows[d] = WindowIn(live, now, d)
  BY PurgedShows, WindowsIn
<1>6. ASSUME NEW d \in Clients
      PROVE  WindowIn(s, now, d) = IF d = c THEN Counting(windows[c]) ELSE windows[d]
  <2>1. CASE d = c
    <3>1. Counting(windows[c]) = [reset |-> now + Window, count |-> 1]
      BY <1>5, PurgedShows DEF Counting
    <3>2. PICK k : k = n + 1
      OBVIOUS
    <3>3. /\ k \in 1..Len(s) /\ s[k].client = c /\ s[k].reset = now + Window
          /\ s[k].count = 1
      BY <1>1, <1>2, <1>4, <3>2
    <3>4. s[k].reset > now
      BY <3>3, Limits DEF Inv, TypeOK
    <3>5. WindowIn(s, now, c) = [reset |-> s[k].reset, count |-> s[k].count]
      BY <1>3, <3>3, <3>4, WindowEntry
    <3>6. QED
      BY <2>1, <3>1, <3>3, <3>5
  <2>2. CASE d # c /\ Has(live, d)
    <3>1. PICK i \in 1..n : live[i].client = d
      BY <1>2, <2>2 DEF Has
    <3>2. windows[d] = [reset |-> live[i].reset, count |-> live[i].count]
      BY <1>2, <1>5, <3>1, PurgedShows
    <3>3. i \in 1..Len(s) /\ s[i] = live[i] /\ s[i].reset > now
      BY <1>1, <1>2, <1>4, PurgedIsOpen
    <3>4. WindowIn(s, now, d) = [reset |-> s[i].reset, count |-> s[i].count]
      BY <1>3, <3>1, <3>3, WindowEntry
    <3>5. QED
      BY <2>2, <3>2, <3>3, <3>4
  <2>3. CASE d # c /\ ~Has(live, d)
    <3>1. windows[d] = None
      BY <1>5, <2>3, PurgedShows
    <3>2. ASSUME NEW i \in 1..Len(s)
          PROVE  s[i].client # d
      <4>1. CASE i \in 1..n
        BY <1>2, <1>4, <2>3, <4>1 DEF Has
      <4>2. CASE i = n + 1
        BY <1>4, <2>3, <4>2
      <4>3. QED
        BY <1>1, <1>2, <1>4, <4>1, <4>2
    <3>3. WindowIn(s, now, d) = None
      BY <3>2, NoWindow
    <3>4. QED
      BY <2>3, <3>1, <3>3
  <2>4. QED
    BY <2>1, <2>2, <2>3
<1>7. QED
  BY <1>2, <1>6

LEMMA AdmissionAdmits ==
  ASSUME Inv, WindowsSee, NEW c \in Clients, Admit(c)
  PROVE  Promise!Next
<1>1. /\ now' = now /\ answer' = [client |-> c, admitted |-> TRUE]
      /\ CurrentCount < GlobalLimit
      /\ globalReset' = CurrentReset /\ globalCount' = CurrentCount + 1
  BY DEF Admit, CountAttempt
<1>2. PICK live \in Suffixes :
           /\ Purged(live)
           /\ ~Spent(live, c)
           /\ \/ Has(live, c) /\ table' = Counted(live, c)
              \/ ~Has(live, c) /\ ~Full(live) /\ table' = Opened(live, c)
  BY DEF Admit
<1>3. ~(Attempted >= GlobalLimit)
  BY <1>1, AttemptsAgree, GlobalWindow, Limits
<1>4. Tried
  BY <1>1, AttemptCounts
<1>5. ~Barred(c)
  <2>1. live \in Seq(Entry) /\ Len(live) \in Nat
    BY SuffixInOrder, LenProperties
  <2>2. CASE Has(live, c)
    <3>1. PICK i \in 1..Len(live) : live[i].client = c
      BY <2>2 DEF Has
    <3>2. windows[c] = [reset |-> live[i].reset, count |-> live[i].count]
      BY <1>2, <3>1, PurgedShows, WindowsIn
    <3>3. live[i].count \in 1..PerClient /\ ~(live[i].count >= PerClient)
      BY <1>2, <2>1, <3>1, EntryFields DEF Spent
    <3>4. windows[c] # None
      BY <1>2, <2>2, OpenClients
    <3>5. QED
      BY <3>2, <3>3, <3>4 DEF Barred
  <2>3. CASE ~Has(live, c)
    <3>1. windows[c] = None
      BY <1>2, <2>3, OpenClients
    <3>2. Cardinality({d \in Clients : windows[d] # None}) = Len(live)
      BY <1>2, OpenClients
    <3>3. ~(Len(live) >= MaxClients)
      BY <1>2, <2>3 DEF Full
    <3>4. QED
      BY <3>1, <3>2, <3>3 DEF Barred
  <2>4. QED
    BY <2>2, <2>3
<1>6. windows' = [windows EXCEPT ![c] = Counting(windows[c])]
  <2>1. \A d \in Clients :
          WindowIn(table', now, d) = IF d = c THEN Counting(windows[c]) ELSE windows[d]
    BY <1>2, CountedShows, OpenedShows
  <2>2. PICK W : W = windows
    OBVIOUS
  <2>3. windows' = [d \in Clients |-> IF d = c THEN Counting(W[c]) ELSE W[d]]
    BY <1>1, <2>1, <2>2, WindowsIn
  <2>4. W = [d \in Clients |-> W[d]]
    BY <2>2 DEF windows
  <2>5. QED
    BY <2>2, <2>3, <2>4
<1>7. QED
  BY <1>1, <1>3, <1>4, <1>5, <1>6, PromiseAdmits

\* Time alone closes the windows that are over, popped or not.
LEMMA TickTicks ==
  ASSUME Inv, Tick
  PROVE  Promise!Next
<1>1. /\ now' = now + 1 /\ answer' = answer /\ table' = table
      /\ globalReset' = globalReset /\ globalCount' = globalCount
      /\ now \in Nat /\ globalReset \in Nat /\ globalCount \in Nat
  BY Limits DEF Tick, limiterVars, Inv, TypeOK
<1>2. table \in Seq(Entry) /\ OneEntryEach(table)
  <2>1. table \in Seq(Entry) /\ InOrder(table)
    BY DEF Inv, TypeOK, TableInOrder, InOrder
  <2>2. QED
    BY <2>1, OneEntry
<1>3. ASSUME NEW c \in Clients
      PROVE  WindowIn(table, now + 1, c)
               = IF windows[c] # None /\ windows[c].reset <= now + 1 THEN None ELSE windows[c]
  <2>1. windows[c] = WindowIn(table, now, c)
    BY WindowsIn
  <2>2. CASE \E i \in 1..Len(table) : table[i].client = c /\ table[i].reset > now
    <3>1. PICK i \in 1..Len(table) : table[i].client = c /\ table[i].reset > now
      BY <2>2
    <3>2. table[i].reset \in Nat /\ table[i].count \in 1..PerClient
      BY <1>2, EntryFields
    <3>3. windows[c] = [reset |-> table[i].reset, count |-> table[i].count]
      BY <1>2, <2>1, <3>1, WindowEntry
    <3>4. windows[c] # None
      BY <3>2, <3>3, NotNone
    <3>5. CASE table[i].reset > now + 1
      <4>1. WindowIn(table, now + 1, c) = windows[c]
        BY <1>2, <3>1, <3>3, <3>5, WindowEntry
      <4>2. ~(windows[c].reset <= now + 1)
        BY <1>1, <3>2, <3>3, <3>5
      <4>3. QED
        BY <4>1, <4>2
    <3>6. CASE ~(table[i].reset > now + 1)
      <4>1. \A k \in 1..Len(table) : table[k].client = c => k = i
        BY <1>2, <3>1 DEF OneEntryEach
      <4>2. WindowIn(table, now + 1, c) = None
        BY <3>6, <4>1, NoWindow
      <4>3. windows[c].reset <= now + 1
        BY <1>1, <3>2, <3>3, <3>6
      <4>4. QED
        BY <3>4, <4>2, <4>3
    <3>7. QED
      BY <3>5, <3>6
  <2>3. CASE ~(\E i \in 1..Len(table) : table[i].client = c /\ table[i].reset > now)
    <3>1. \A i \in 1..Len(table) : table[i].client = c => ~(table[i].reset > now)
      BY <2>3
    <3>2. \A i \in 1..Len(table) : table[i].client = c => ~(table[i].reset > now + 1)
      <4>1. \A i \in 1..Len(table) : table[i].reset \in Nat
        BY <1>2, EntryFields
      <4>2. QED
        BY <1>1, <3>1, <4>1
    <3>3. windows[c] = None /\ WindowIn(table, now + 1, c) = None
      BY <2>1, <3>1, <3>2, NoWindow
    <3>4. QED
      BY <3>3
  <2>4. QED
    BY <2>2, <2>3
<1>4. windows' = [c \in Clients |->
                    IF windows[c] # None /\ windows[c].reset <= now + 1
                      THEN None ELSE windows[c]]
  BY <1>1, <1>3, WindowsIn
<1>5. everyone' = IF everyone # None /\ everyone.reset <= now + 1 THEN None ELSE everyone
  <2>1. [reset |-> globalReset, count |-> globalCount] # None
    BY <1>1, NotNone
  <2>2. QED
    BY <1>1, <2>1 DEF everyone
<1>6. QED
  BY <1>1, <1>4, <1>5, PromiseTicks

\* admit, which closes a window only when somebody asks and only from the head of its
\* table, implements the limiter that closes every window on time and never early.
THEOREM Refinement == Spec => ImplementsQuota
<1>1. Init => Promise!Init
  <2>1. SUFFICES ASSUME Init
                 PROVE  Promise!Init
    OBVIOUS
  <2>2. now = 0 /\ table = <<>> /\ globalReset = 0 /\ globalCount = 0 /\ answer = None
    BY <2>1 DEF Init
  <2>3. \A c \in Clients : OpenWindow(c) = None
    <3>1. Len(<<>>) = 0
      BY EmptySeq
    <3>2. Unexpired = {}
      BY <2>2, <3>1 DEF Unexpired
    <3>3. QED
      BY <3>2 DEF OpenWindow
  <2>4. QED
    BY <2>2, <2>3 DEF Promise!Init
<1>2. Inv /\ WindowsSee /\ Next => Promise!Next
  BY RefusalDenies, AdmissionAdmits, TickTicks DEF Next
<1>3. UNCHANGED vars => UNCHANGED Promise!vars
  <2>1. SUFFICES ASSUME UNCHANGED vars
                 PROVE  UNCHANGED Promise!vars
    OBVIOUS
  <2>2. now' = now /\ answer' = answer /\ windows' = windows /\ everyone' = everyone
    <3>1. UNCHANGED <<now, table, globalReset, globalCount, answer>>
      BY <2>1 DEF vars, limiterVars
    <3>2. QED
      BY <3>1, WindowsIn DEF everyone
  <2>3. QED
    BY <2>2 DEF Promise!vars, windows, everyone
<1>4. Inv /\ WindowsSee /\ [Next]_vars => [Promise!Next]_(Promise!vars)
  BY <1>2, <1>3
<1>5. QED
  BY <1>1, <1>4, Invariance, WindowsInvariance, PTL DEF Spec, ImplementsQuota, Promise!Spec
=============================================================================

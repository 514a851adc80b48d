-------------------------------- MODULE Quota --------------------------------
(***************************************************************************)
(* What the agent rate limiter promises.  A client's first attempt opens a *)
(* window of fixed length; the client is admitted PerClient times before   *)
(* that window closes, which it does on time and not earlier or later.     *)
(* All attempts share one window of GlobalLimit attempts, counted whether  *)
(* or not the client was admitted.  At most MaxClients windows are open.   *)
(***************************************************************************)
EXTENDS Integers, FiniteSets

CONSTANTS Clients, PerClient, GlobalLimit, Window, MaxClients, None

VARIABLES now, window, total, answer

vars == <<now, window, total, answer>>

Closed(w) == w = None

Attempts == IF Closed(total) THEN 0 ELSE total.count

Open == {c \in Clients : ~Closed(window[c])}

Exhausted == Attempts >= GlobalLimit

Limited(c) ==
    \/ c \in Open /\ window[c].count >= PerClient
    \/ c \notin Open /\ Cardinality(Open) >= MaxClients

\* One attempt more in a window, which it opens if there is none.
Counting(w) == IF Closed(w) THEN [reset |-> now + Window, count |-> 1]
                            ELSE [w EXCEPT !.count = @ + 1]

CountAttempt == total' = Counting(total)

Admit(c) ==
    /\ ~Exhausted /\ ~Limited(c)
    /\ CountAttempt
    /\ window' = [window EXCEPT ![c] = Counting(@)]
    /\ answer' = [client |-> c, admitted |-> TRUE]
    /\ UNCHANGED now

Deny(c) ==
    /\ \/ Exhausted /\ UNCHANGED total
       \/ ~Exhausted /\ Limited(c) /\ CountAttempt
    /\ answer' = [client |-> c, admitted |-> FALSE]
    /\ UNCHANGED <<now, window>>

Tick ==
    LET expired(w) == ~Closed(w) /\ w.reset <= now + 1 IN
    /\ now' = now + 1
    /\ window' = [c \in Clients |-> IF expired(window[c]) THEN None ELSE window[c]]
    /\ total' = IF expired(total) THEN None ELSE total
    /\ UNCHANGED answer

Init ==
    /\ now = 0
    /\ window = [c \in Clients |-> None]
    /\ total = None
    /\ answer = None

Next == Tick \/ \E c \in Clients : Admit(c) \/ Deny(c)

Spec == Init /\ [][Next]_vars
=============================================================================

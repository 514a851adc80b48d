------------------------------ MODULE Mandate ------------------------------
(***************************************************************************)
(* What the firewall promises about a mandate, with no locks, sessions or  *)
(* messages: approvals stay within max_transactions, an order is placed    *)
(* once for an approved request of a mandate in force, and its status only *)
(* moves forward.                                                          *)
(***************************************************************************)
EXTENDS Naturals

CONSTANTS Auths, Nonces, MaxTx

VARIABLES
    signed, revoked,  \* mandates confirmed, and those taken back
    spent,            \* transactions used, by mandate
    approved,         \* requests (nonces) allowed, by mandate
    stage             \* of the order of each request

vars == <<signed, revoked, spent, approved, stage>>

Init ==
    /\ signed = {} /\ revoked = {}
    /\ spent = [a \in Auths |-> 0]
    /\ approved = [a \in Auths |-> {}]
    /\ stage = [a \in Auths |-> [n \in Nonces |-> "none"]]

Sign(a) ==
    /\ a \notin signed
    /\ signed' = signed \cup {a}
    /\ UNCHANGED <<revoked, spent, approved, stage>>

Revoke(a) ==
    /\ a \in signed
    /\ revoked' = revoked \cup {a}
    /\ UNCHANGED <<signed, spent, approved, stage>>

Approve(a, n) ==
    /\ a \in signed \ revoked
    /\ n \notin approved[a]
    /\ spent[a] < MaxTx[a]
    /\ spent' = [spent EXCEPT ![a] = @ + 1]
    /\ approved' = [approved EXCEPT ![a] = @ \cup {n}]
    /\ UNCHANGED <<signed, revoked, stage>>

Move(a, n, from, to) ==
    /\ stage[a][n] \in from
    /\ stage' = [stage EXCEPT ![a][n] = to]
    /\ UNCHANGED <<signed, revoked, spent, approved>>

Place(a, n) == /\ n \in approved[a]
               /\ a \notin revoked
               /\ Move(a, n, {"none"}, "CREATED")

MarkStale(a, n) == Move(a, n, {"CREATED"}, "STALE")

\* A later payment event of the same order may revise the outcome.
Settle(a, n) ==
    \E to \in {"CAPTURED", "AMOUNT_MISMATCH"} :
        Move(a, n, {"CREATED", "STALE", "CAPTURED", "AMOUNT_MISMATCH"}, to)

Next ==
    \E a \in Auths :
        \/ Sign(a)
        \/ Revoke(a)
        \/ \E n \in Nonces :
             Approve(a, n) \/ Place(a, n) \/ MarkStale(a, n) \/ Settle(a, n)

Spec == Init /\ [][Next]_vars
=============================================================================

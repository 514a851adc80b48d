---------------------------- MODULE MC_Firewall ----------------------------
(***************************************************************************)
(* Small instances of Firewall.  A cheap cart the policy allows, a dear    *)
(* one it allows too, and one it refuses; totals are distinct so that a    *)
(* swapped cart shows in the amount.                                       *)
(***************************************************************************)
EXTENDS Firewall, TLC

CONSTANTS a1, a2, w1, w2, cheap, dear, refused

MCTotal == [c \in Carts |-> CASE c = cheap -> 1 [] c = dear -> 2 [] OTHER -> 3]
MCCartVerdict == [c \in Carts |-> IF c = refused THEN "RECONSENT" ELSE "ALLOW"]
OneTx == [a \in Auths |-> 1]
TwoTx == [a \in Auths |-> 2]
MCAmounts == {1, 5, None}

Symmetric == Permutations(Workers) \cup Permutations(Nonces)
=============================================================================

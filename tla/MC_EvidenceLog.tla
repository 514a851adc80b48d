---------------------------- MODULE MC_EvidenceLog ----------------------------
(* Small instances of EvidenceLog: a clock that runs, and one that is set back. *)
EXTENDS EvidenceLog

CONSTANTS p1, p2

Forward == {1}
BackAndForth == {-1, 1}
=============================================================================

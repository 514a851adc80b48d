---------------------------- MODULE MC_Dashboard ----------------------------
(* Two mandates one after the other, two nonces, one timer fetch at a time. *)
EXTENDS Dashboard
=============================================================================

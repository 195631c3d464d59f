----------------------------- MODULE MCHeldCall -----------------------------
(* Model values for HeldCall: supervisors are interchangeable, no definition *)
(* tells one from another.                                                   *)
EXTENDS HeldCall, TLC

Interchangeable == Permutations(Supervisors)
=============================================================================

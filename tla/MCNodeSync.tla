----------------------------- MODULE MCNodeSync -----------------------------
(* Instances of NodeSync for TLC.                                           *)
EXTENDS NodeSync, TLC

\* Users are interchangeable; used where only safety is checked.
Symmetry == Permutations(Users)
=============================================================================

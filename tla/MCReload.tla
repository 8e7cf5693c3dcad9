------------------------------ MODULE MCReload ------------------------------
(* Instances of Reload for TLC.                                             *)
EXTENDS Reload, TLC

\* Nodes are interchangeable; used where only safety is checked.
Symmetry == Permutations(Nodes)
=============================================================================

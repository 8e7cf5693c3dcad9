----------------------------- MODULE MCTraffic -----------------------------
(* Instances of Traffic for TLC.                                            *)
EXTENDS Traffic, TLC
=============================================================================

----------------------------- MODULE MCLimiter -----------------------------
(***************************************************************************)
(* Both halves of the limiter for TLC.  They share no state, so a          *)
(* behaviour of one instance exercises one half and leaves the other where *)
(* it began.                                                               *)
(***************************************************************************)
EXTENDS DeviceLimit, SpeedLimit, TLC

VARIABLE half

MCInit ==
    /\ Init /\ SpeedInit
    /\ \/ half = "device" /\ \A u \in Users : info[u].speed = 0
       \/ half = "speed" /\ overlap /\ \A u \in Users : devLimit[u] = 0 /\ AliveList[u] = 0

MCNext ==
    \/ half = "device" /\ Next /\ UNCHANGED <<half, speedVars>>
    \/ half = "speed" /\ SpeedNext /\ UNCHANGED <<half, vars>>

MCSpec == MCInit /\ [][MCNext]_<<half, vars, speedVars>>

\* Connections are interchangeable, and so are addresses and users.
Symmetry == Permutations(Conns) \cup Permutations(Ips) \cup Permutations(Users)

\* The report periods are a history that only NoSpuriousReject mentions, which says
\* nothing of overlapping calls.
View == <<half, limVars, mapVars, connVars, repVars, accepted, speedVars,
          IF overlap THEN {} ELSE <<current, previous>> >>
=============================================================================

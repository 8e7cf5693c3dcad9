--------------------------- MODULE MCConnections ---------------------------
(***************************************************************************)
(* What a connection meets before it is dispatched, for TLC: the device    *)
(* and the speed half of the limiter, the runners of the protocols Xray    *)
(* does not speak, and the shaping of shadowflow.  The four share no state *)
(* here; each behaviour is one of one part, the others stay where they     *)
(* began.                                                                  *)
(***************************************************************************)
EXTENDS DeviceLimit, SpeedLimit, Runner, Camouflage, TLC

VARIABLE part

\* Two profiles, of records of 2 to 3 bytes and of 2 to 4: as in every profile of
\* the code the smallest record fits a buffer (of 2 bytes here) and the largest does not.
MCMinRecord == [p \in {"narrow", "wide"} |-> 2]
MCMaxRecord == [p \in {"narrow", "wide"} |-> IF p = "narrow" THEN 3 ELSE 4]

\* Intervals that are absent, out of order, and above the default maximum.
MCConfigs == {[mode |-> "random", interval |-> <<0, 0>>], [mode |-> "dynamic", interval |-> <<2, 1>>],
              [mode |-> "dynamic", interval |-> <<3, 0>>]}

ConnectionsInit ==
    /\ part \in {"device", "speed", "runner", "camouflage"}
    /\ Init /\ SpeedInit /\ RunnerInit /\ CamouflageInit
    /\ part # "device" => overlap /\ \A u \in Users : devLimit[u] = 0 /\ AliveList[u] = 0
    /\ part # "speed" => \A u \in Users : info[u].speed = 0
    /\ part # "runner" => proto = "ssr"

DeviceMoves ==
    part = "device" /\ Next /\ UNCHANGED <<part, speedVars, runnerVars, camouflageVars>>
SpeedMoves ==
    part = "speed" /\ SpeedNext /\ UNCHANGED <<part, vars, runnerVars, camouflageVars>>
RunnerMoves ==
    part = "runner" /\ RunnerNext /\ UNCHANGED <<part, vars, speedVars, camouflageVars>>
CamouflageMoves ==
    part = "camouflage" /\ CamouflageNext /\ UNCHANGED <<part, vars, speedVars, runnerVars>>

ConnectionsNext == DeviceMoves \/ SpeedMoves \/ RunnerMoves \/ CamouflageMoves

ConnectionsSpec ==
    ConnectionsInit /\ [][ConnectionsNext]_<<part, vars, speedVars, runnerVars, camouflageVars>>

\* Connections, runners and links are interchangeable, and so are addresses and callers.
\* Sets of different parts, which no formula compares, share their model values: one
\* small group of permutations serves them all.
Symmetry == Permutations(Conns) \cup Permutations(Ips)

\* The part that moves.  The report periods are a history that only NoSpuriousReject
\* mentions, which says nothing of overlapping calls; no property of this run mentions
\* the history `over`.  What a free object last held is never read again.
View ==
    CASE part = "device" ->
           <<limVars, UserOnlineIP, [m \in MapIds |-> IF Free(m) THEN {} ELSE ipMap[m]], OldUserOnline,
             connVars, repVars, accepted, IF overlap THEN {} ELSE <<current, previous>> >>
      [] part = "speed" ->
           <<info, SpeedLimiter, [b \in Buckets |-> IF b \in Unused THEN 0 ELSE rate[b]], stage, held, upd,
             speedWarn, now, changes, raced, split>>
      [] part = "runner" -> <<part, runnerVars>>
      [] part = "camouflage" -> <<part, camouflageVars>>
=============================================================================

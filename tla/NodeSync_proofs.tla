--------------------------- MODULE NodeSync_proofs ---------------------------
(***************************************************************************)
(* Proofs about NodeSync for every set of users, limits, configurations,   *)
(* faults and bounds.                                                      *)
(***************************************************************************)
EXTENDS NodeSync, TLAPS

LEMMA UpdateUserType ==
    ASSUME NEW lims \in UserLists, NEW list \in UserLists,
           NEW a \in SUBSET Users, NEW d \in SUBSET Users, NEW m \in SUBSET Users
    PROVE  UpdateUser(lims, a, d, m, list) \in UserLists
  BY DEF UpdateUser, UserLists

LEMMA CompareType ==
    ASSUME NEW old \in UserLists, NEW new \in UserLists
    PROVE  compareUserList(old, new) \in
              [deleted: SUBSET Users, added: SUBSET Users, modified: SUBSET Users]
  BY DEF compareUserList, Present, UserLists

\* What the diff of nodeInfoMonitor is for: applied to the old list it yields
\* the new one.
LEMMA UpdateIsExact ==
    ASSUME NEW old \in UserLists, NEW new \in UserLists
    PROVE  LET d == compareUserList(old, new)
           IN  UpdateUser(old, d.added, d.deleted, d.modified, new) = new
  BY DEF UpdateUser, compareUserList, Present, UserLists

\* The reconcile pass changes nothing in a limiter that mirrors the list.
LEMMA ReconcileIsNeutral ==
    ASSUME NEW list \in UserLists, NEW uids \in SUBSET Users
    PROVE  UpdateUser(list, Present(list) \ uids, uids \ Present(list), {}, list) = list
  BY DEF UpdateUser, Present, UserLists

\* The core operations keep the core's state well-typed.
CoreType ==
    /\ handler \in [reg: BOOLEAN, ln: {"none", "open", "dead"}, cfg: Cfgs]
    /\ regUsers \in SUBSET Users
    /\ uidMap \in SUBSET Users
    /\ faults \in Nat

LEMMA NewHandlerType ==
    ASSUME NEW n \in Cfgs, NEW l \in {"none", "open", "dead"}
    PROVE  [reg |-> TRUE, ln |-> l, cfg |-> n] \in
              [reg: BOOLEAN, ln: {"none", "open", "dead"}, cfg: Cfgs]
  <1>1. TRUE \in BOOLEAN
    BY Zenon
  <1>. QED BY <1>1, Zenon

LEMMA CoreOps ==
    ASSUME CoreType, NEW us \in SUBSET Users, NEW n \in Cfgs
    PROVE  /\ DelNodeOk /\ UNCHANGED faults => CoreType'
           /\ DelNodeErr /\ UNCHANGED faults => CoreType'
           /\ AddNodeOk(n) => CoreType'
           /\ AddNodeErr(n) => CoreType'
           /\ AddUsersOk(us) => CoreType'
           /\ AddUsersErr(us) => CoreType'
           /\ DelUsersOk(us) /\ UNCHANGED faults => CoreType'
           /\ DelUsersErr /\ UNCHANGED faults => CoreType'
  <1>1. DelNodeOk /\ UNCHANGED faults => CoreType'
    BY DEF CoreType, DelNodeOk
  <1>2. DelNodeErr /\ UNCHANGED faults => CoreType'
    BY DEF CoreType, DelNodeErr, coreVars
  <1>3. AddNodeOk(n) => CoreType'
    <2>1. (IF Lazy THEN "none" ELSE "open") \in {"none", "open", "dead"}
      BY Zenon
    <2>2. [reg |-> TRUE, ln |-> IF Lazy THEN "none" ELSE "open", cfg |-> n] \in
              [reg: BOOLEAN, ln: {"none", "open", "dead"}, cfg: Cfgs]
      BY <2>1, NewHandlerType
    <2>. QED BY <2>2, Zenon DEF CoreType, AddNodeOk, NoFault
  <1>4. AddNodeErr(n) => CoreType'
    <2>1. [reg |-> TRUE, ln |-> "dead", cfg |-> n] \in
              [reg: BOOLEAN, ln: {"none", "open", "dead"}, cfg: Cfgs]
      BY NewHandlerType
    <2>2. faults > 0 /\ faults' = faults - 1 => faults' \in Nat
      BY DEF CoreType
    <2>. QED BY <2>1, <2>2, Zenon DEF CoreType, AddNodeErr, NoFault, Fault
  <1>5. AddUsersOk(us) => CoreType'
    BY DEF CoreType, AddUsersOk, NoFault, Fault
  <1>6. AddUsersErr(us) => CoreType'
    BY DEF CoreType, AddUsersErr, NoFault, Fault
  <1>7. DelUsersOk(us) /\ UNCHANGED faults => CoreType'
    BY DEF CoreType, DelUsersOk
  <1>8. DelUsersErr /\ UNCHANGED faults => CoreType'
    BY DEF CoreType, DelUsersErr, coreVars
  <1>. QED BY <1>1, <1>2, <1>3, <1>4, <1>5, <1>6, <1>7, <1>8

LEMMA ReconcileCore ==
    ASSUME CoreType, userList \in UserLists, reconcileUsers
    PROVE  CoreType'
  <1>. DEFINE missing == Present(userList) \ uidMap
              extra   == uidMap \ Present(userList)
  <1>1. missing \in SUBSET Users /\ extra \in SUBSET Users /\ Present(userList) \in SUBSET Users
    BY DEF Present, CoreType
  <1>2. uidMap' \in SUBSET Users
    BY <1>1 DEF reconcileUsers, CoreType
  <1>3. CASE handler.reg
    <2>1. regUsers' \in SUBSET Users
      BY <1>1, <1>3 DEF reconcileUsers, CoreType
    <2>2. faults' \in Nat
      BY <1>3 DEF reconcileUsers, CoreType, NoFault, Fault
    <2>3. handler' = handler \/ \E l \in {"none", "open", "dead"} :
                handler' = [handler EXCEPT !.ln = l]
      BY <1>3 DEF reconcileUsers, CoreType
    <2>4. handler' \in [reg: BOOLEAN, ln: {"none", "open", "dead"}, cfg: Cfgs]
      BY <2>3 DEF CoreType
    <2>. QED BY <1>2, <2>1, <2>2, <2>4 DEF CoreType
  <1>4. CASE ~handler.reg
    BY <1>2, <1>4 DEF reconcileUsers, CoreType
  <1>. QED BY <1>3, <1>4

-----------------------------------------------------------------------------
(* Type correctness.                                                        *)

\* The part of TypeOK that belongs to a cycle's locals.
CycleType ==
    /\ pc \in [Cycles -> Labels]
    /\ newN \in [Cycles -> Cfgs]
    /\ newU \in [Cycles -> UserLists]
    /\ diff \in [Cycles -> [deleted: SUBSET Users, added: SUBSET Users,
                            modified: SUBSET Users]]

LEMMA GotoType ==
    ASSUME NEW c \in Cycles, NEW l \in Labels, pc \in [Cycles -> Labels], Goto(c, l)
    PROVE  pc' \in [Cycles -> Labels]
  BY DEF Goto

LEMMA StepType ==
    ASSUME TypeOK, [Next]_vars
    PROVE  TypeOK'
  <1>. USE DEF TypeOK
  <1>0. CoreType /\ CycleType
    BY DEF CoreType, CycleType
  <1>p. Present(userList) \in SUBSET Users
    BY DEF Present
  <1>1. CASE StartFetch
    BY <1>1 DEF StartFetch, NoFault, Fault, panelVars, coreVars, cycleVars
  <1>2. CASE StartAddNode
    <2>1. CoreType'
      BY <1>0, <1>2, CoreOps DEF StartAddNode
    <2>. QED BY <1>2, <2>1 DEF StartAddNode, CoreType, panelVars, cycleVars
  <1>3. CASE StartAddUsers
    <2>1. CoreType'
      BY <1>0, <1>p, <1>3, CoreOps DEF StartAddUsers, CoreType, coreVars
    <2>. QED BY <1>3, <2>1 DEF StartAddUsers, CoreType, panelVars, cycleVars
  <1>4. ASSUME NEW c \in Cycles, nodeInfoMonitor(c)
        PROVE  TypeOK'
    <2>1. CASE GetNodeInfo(c)
      BY <2>1, GotoType DEF GetNodeInfo, NoFault, Fault, Goto, Labels, panelVars, coreVars
    <2>2. CASE RebuildDelNode(c)
      <3>1. CoreType'
        BY <1>0, <2>2, CoreOps DEF RebuildDelNode
      <3>. QED BY <2>2, <3>1 DEF RebuildDelNode, Goto, Labels, CoreType, panelVars, ctlVars
    <2>3. CASE RebuildAddNode(c)
      <3>1. CoreType'
        BY <1>0, <2>3, CoreOps DEF RebuildAddNode
      <3>. QED BY <2>3, <3>1 DEF RebuildAddNode, Goto, Labels, CoreType, panelVars, ctlVars
    <2>4. CASE RebuildReAddUsers(c)
      <3>1. CoreType'
        BY <1>0, <1>p, <2>4, CoreOps DEF RebuildReAddUsers, CoreType, coreVars
      <3>. QED BY <2>4, <3>1 DEF RebuildReAddUsers, Goto, Labels, CoreType, panelVars
    <2>5. CASE GetUserList(c)
      BY <2>5 DEF GetUserList, NoFault, Fault, Goto, Labels, panelVars, ctlVars, coreVars
    <2>6. CASE Sync(c)
      <3>1. diff' \in [Cycles -> [deleted: SUBSET Users, added: SUBSET Users,
                                  modified: SUBSET Users]]
        <4>. DEFINE D == [deleted: SUBSET Users, added: SUBSET Users,
                          modified: SUBSET Users]
        <4>1. compareUserList(userList, newU[c]) \in D
          BY CompareType
        <4>2. diff' = diff \/ diff' = [diff EXCEPT ![c] = compareUserList(userList, newU[c])]
          BY <2>6 DEF Sync
        <4>3. diff \in [Cycles -> D]
          OBVIOUS
        <4>. HIDE DEF D
        <4>4. diff' \in [Cycles -> D]
          BY <4>1, <4>2, <4>3
        <4>. QED BY <4>4 DEF D
      <3>2. pc' \in [Cycles -> Labels]
        BY <2>6 DEF Sync, Goto, Labels
      <3>. QED BY <2>6, <3>1, <3>2 DEF Sync, panelVars, ctlVars, coreVars
    <2>7. CASE SyncDelUsers(c)
      <3>1. CoreType'
        BY <1>0, <2>7, CoreOps DEF SyncDelUsers
      <3>. QED BY <2>7, <3>1 DEF SyncDelUsers, Goto, Labels, CoreType, panelVars, ctlVars
    <2>8. CASE SyncAddUsers(c)
      <3>1. CoreType'
        BY <1>0, <2>8, CoreOps DEF SyncAddUsers
      <3>. QED BY <2>8, <3>1 DEF SyncAddUsers, Goto, Labels, CoreType, panelVars, ctlVars
    <2>9. CASE SyncCommit(c)
      <3>1. limInfo' \in UserLists
        BY <2>9, UpdateUserType DEF SyncCommit
      <3>. QED BY <2>9, <3>1 DEF SyncCommit, Goto, Labels, panelVars, coreVars
    <2>10. CASE Reconcile(c)
      <3>1. CASE reconcileCounter + 1 < userReconcileEvery
        BY <2>10, <3>1, BoundsAssumption DEF Reconcile, Goto, Labels, panelVars, coreVars
      <3>2. CASE ~(reconcileCounter + 1 < userReconcileEvery)
        <4>1. reconcileCounter' = 0 /\ reconcileUsers
          BY <2>10, <3>2, BoundsAssumption DEF Reconcile
        <4>2. CoreType'
          BY <1>0, <4>1, ReconcileCore
        <4>3. limInfo' \in UserLists
          BY <1>p, <4>1, UpdateUserType DEF reconcileUsers
        <4>. QED BY <2>10, <4>1, <4>2, <4>3, BoundsAssumption
                 DEF Reconcile, Goto, Labels, CoreType, panelVars
      <3>. QED BY <3>1, <3>2
    <2>11. CASE PortCheck(c)
      BY <2>11 DEF PortCheck, NoFault, Fault, Goto, Labels, panelVars, coreVars
    <2>12. CASE PortDelNode(c)
      <3>1. CoreType'
        BY <1>0, <2>12, CoreOps DEF PortDelNode
      <3>. QED BY <2>12, <3>1 DEF PortDelNode, Goto, Labels, CoreType, panelVars, ctlVars
    <2>13. CASE PortAddNode(c)
      <3>1. CoreType'
        BY <1>0, <2>13, CoreOps DEF PortAddNode
      <3>. QED BY <2>13, <3>1 DEF PortAddNode, Goto, Labels, CoreType, panelVars
    <2>14. CASE PortReAddUsers(c)
      <3>1. CoreType'
        BY <1>0, <1>p, <2>14, CoreOps DEF PortReAddUsers, CoreType, coreVars
      <3>. QED BY <2>14, <3>1 DEF PortReAddUsers, Goto, Labels, CoreType, panelVars
    <2>. QED BY <1>4, <2>1, <2>2, <2>3, <2>4, <2>5, <2>6, <2>7, <2>8, <2>9, <2>10,
                <2>11, <2>12, <2>13, <2>14 DEF nodeInfoMonitor
  <1>5. CASE PanelChange
    BY <1>5 DEF PanelChange, ctlVars, coreVars, cycleVars
  <1>6. CASE ListenerDies
    BY <1>6 DEF ListenerDies, Fault, panelVars, ctlVars, cycleVars
  <1>7. CASE UNCHANGED vars
    BY <1>7 DEF vars, panelVars, ctlVars, coreVars, cycleVars
  <1>. QED BY <1>1, <1>2, <1>3, <1>4, <1>5, <1>6, <1>7 DEF Next, Start

LEMMA InitType == Init => TypeOK
  BY BoundsAssumption
     DEF Init, TypeOK, Empty, NoDiff, UserLists, Cfgs, Labels

\* The state stays well-typed; in particular the reconcile counter stays below
\* its threshold, so the drift repair is reached every userReconcileEvery cycles.
THEOREM TypeCorrect == Spec => []TypeOK
  <1>1. Init => TypeOK
    BY InitType
  <1>2. TypeOK /\ [Next]_vars => TypeOK'
    BY StepType
  <1>. QED BY <1>1, <1>2, PTL DEF Spec

-----------------------------------------------------------------------------
(* Whoever is authenticated can be billed.                                  *)

\* The watchdog of the task never gave up on a cycle that was still running.
OneCycle == \A c, d \in Cycles : c = d

LEMMA CoreAccounted ==
    ASSUME RegisteredIsAccounted, NEW us, NEW n
    PROVE  /\ DelNodeOk => RegisteredIsAccounted'
           /\ DelNodeErr => RegisteredIsAccounted'
           /\ AddNodeOk(n) => RegisteredIsAccounted'
           /\ AddNodeErr(n) => RegisteredIsAccounted'
           /\ AddUsersOk(us) => RegisteredIsAccounted'
           /\ AddUsersErr(us) => RegisteredIsAccounted'
           /\ DelUsersOk(us) => RegisteredIsAccounted'
           /\ DelUsersErr => RegisteredIsAccounted'
           /\ UNCHANGED coreVars => RegisteredIsAccounted'
           /\ reconcileUsers => RegisteredIsAccounted'
  <1>. USE DEF RegisteredIsAccounted
  <1>1. DelNodeOk \/ DelNodeErr \/ UNCHANGED coreVars => RegisteredIsAccounted'
    BY DEF DelNodeOk, DelNodeErr, coreVars
  <1>2. AddNodeOk(n) \/ AddNodeErr(n) => RegisteredIsAccounted'
    BY DEF AddNodeOk, AddNodeErr
  <1>3. AddUsersOk(us) => RegisteredIsAccounted'
    BY DEF AddUsersOk
  <1>4. AddUsersErr(us) => RegisteredIsAccounted'
    BY DEF AddUsersErr
  <1>5. DelUsersOk(us) \/ DelUsersErr => RegisteredIsAccounted'
    BY DEF DelUsersOk, DelUsersErr, coreVars
  <1>6. reconcileUsers => RegisteredIsAccounted'
    BY DEF reconcileUsers
  <1>. QED BY <1>1, <1>2, <1>3, <1>4, <1>5, <1>6

\* When cycles do not overlap, every user the handler authenticates is in uidMap at every
\* moment, whichever core calls of a cycle fail, so its traffic can be reported.
THEOREM Accounted ==
    ASSUME OneCycle
    PROVE  Spec => []RegisteredIsAccounted
  <1>1. Init => RegisteredIsAccounted
    BY DEF Init, RegisteredIsAccounted
  <1>2. RegisteredIsAccounted /\ [Next]_vars => RegisteredIsAccounted'
    <2>. SUFFICES ASSUME RegisteredIsAccounted, [Next]_vars
                  PROVE  RegisteredIsAccounted'
      OBVIOUS
    <2>1. CASE Start
      BY <2>1, CoreAccounted DEF Start, StartFetch, StartAddNode, StartAddUsers
    <2>2. ASSUME NEW c \in Cycles, nodeInfoMonitor(c)
          PROVE  RegisteredIsAccounted'
      <3>1. CASE GetNodeInfo(c) \/ GetUserList(c) \/ Sync(c) \/ SyncCommit(c) \/ PortCheck(c)
        BY <3>1, CoreAccounted DEF GetNodeInfo, GetUserList, Sync, SyncCommit, PortCheck
      <3>2. CASE RebuildDelNode(c) \/ PortDelNode(c) \/ SyncDelUsers(c)
        BY <3>2, CoreAccounted DEF RebuildDelNode, PortDelNode, SyncDelUsers
      <3>3. CASE RebuildAddNode(c) \/ PortAddNode(c)
        BY <3>3, CoreAccounted DEF RebuildAddNode, PortAddNode
      <3>4. CASE RebuildReAddUsers(c) \/ SyncAddUsers(c) \/ PortReAddUsers(c)
        BY <3>4, CoreAccounted DEF RebuildReAddUsers, SyncAddUsers, PortReAddUsers
      <3>5. CASE Reconcile(c)
        BY <3>5, CoreAccounted DEF Reconcile
      <3>. QED BY <2>2, <3>1, <3>2, <3>3, <3>4, <3>5 DEF nodeInfoMonitor
    <2>3. CASE PanelChange \/ UNCHANGED vars
      BY <2>3, CoreAccounted DEF PanelChange, vars
    <2>4. CASE ListenerDies
      BY <2>4 DEF ListenerDies, RegisteredIsAccounted
    <2>. QED BY <2>1, <2>2, <2>3, <2>4 DEF Next
  <1>. QED BY <1>1, <1>2, PTL DEF Spec

-----------------------------------------------------------------------------
(* Without overlapping cycles the limiter mirrors the user list.            *)

\* Between Sync and SyncCommit the diff still is the difference between the list
\* and the answer being applied, because nobody else can change the list.
PendingDiff ==
    \A c \in Cycles : pc[c] \in {"delUsers", "addUsers", "updateUser"} =>
        /\ diff[c] = compareUserList(userList, newU[c])
        /\ ~SkipEmpty(c)

\* No cycle runs before Start is over, and Start fills the list only once.
StartedOnce ==
    /\ life # "running" => Idle
    /\ life = "new" => userList = Empty

MirrorInv == TypeOK /\ LimiterMirrorsUserList /\ PendingDiff /\ StartedOnce

\* A core operation of the only cycle leaves the mirror alone.
LEMMA OtherSteps ==
    ASSUME OneCycle, MirrorInv, NEW c \in Cycles, NEW l \in Labels,
           pc[c] # "idle", Goto(c, l), l \notin {"delUsers", "addUsers", "updateUser"},
           UNCHANGED <<userList, limInfo, life>>
    PROVE  (LimiterMirrorsUserList /\ PendingDiff /\ StartedOnce)'
  <1>1. \A d \in Cycles : pc'[d] = l
    BY DEF OneCycle, Goto, MirrorInv, TypeOK
  <1>2. life = "running"
    BY DEF MirrorInv, StartedOnce, Idle
  <1>. QED BY <1>1, <1>2 DEF MirrorInv, LimiterMirrorsUserList, PendingDiff, StartedOnce

LEMMA MirrorStep ==
    ASSUME OneCycle, MirrorInv, [Next]_vars
    PROVE  MirrorInv'
  <1>0. TypeOK /\ TypeOK'
    BY StepType DEF MirrorInv
  <1>. DEFINE Rest == LimiterMirrorsUserList /\ PendingDiff /\ StartedOnce
  <1>r. Rest
    BY DEF MirrorInv
  <1>. SUFFICES Rest'
    BY <1>0 DEF MirrorInv
  <1>. USE DEF Labels
  <1>1. CASE StartFetch
    <2>1. \A c \in Cycles : pc'[c] = "idle"
      BY <1>1, <1>r DEF StartFetch, StartedOnce, Idle, cycleVars
    <2>2. limInfo' = userList' /\ life' # "new"
      BY <1>1, <1>r DEF StartFetch, LimiterMirrorsUserList
    <2>. QED BY <2>1, <2>2 DEF LimiterMirrorsUserList, PendingDiff, StartedOnce, Idle
  <1>2. CASE StartAddNode \/ StartAddUsers
    <2>1. UNCHANGED <<userList, limInfo, pc, newU, diff>> /\ life' # "new" /\ life # "running"
      BY <1>2 DEF StartAddNode, StartAddUsers, cycleVars
    <2>. QED BY <1>r, <2>1 DEF LimiterMirrorsUserList, PendingDiff, StartedOnce, Idle, SkipEmpty
  <1>3. ASSUME NEW c \in Cycles, nodeInfoMonitor(c)
        PROVE  Rest'
    <2>1. CASE GetNodeInfo(c)
      <3>1. UNCHANGED <<userList, limInfo, newU, diff, life>> /\ life = "running"
        BY <2>1 DEF GetNodeInfo
      <3>2. \A d \in Cycles : pc'[d] \notin {"delUsers", "addUsers", "updateUser"}
        BY <1>0, <2>1 DEF GetNodeInfo, Goto, OneCycle, TypeOK
      <3>. QED BY <1>r, <3>1, <3>2 DEF LimiterMirrorsUserList, PendingDiff, StartedOnce
    <2>2. CASE RebuildDelNode(c) \/ RebuildAddNode(c) \/ RebuildReAddUsers(c)
      <3>1. UNCHANGED <<userList, limInfo, life>> /\ pc[c] # "idle"
        BY <2>2 DEF RebuildDelNode, RebuildAddNode, RebuildReAddUsers, ctlVars
      <3>2. \E l \in Labels : l \notin {"delUsers", "addUsers", "updateUser"} /\ Goto(c, l)
        BY <2>2 DEF RebuildDelNode, RebuildAddNode, RebuildReAddUsers
      <3>. QED BY <3>1, <3>2, OtherSteps
    <2>3. CASE GetUserList(c)
      <3>1. UNCHANGED <<userList, limInfo, life>> /\ pc[c] # "idle"
        BY <2>3 DEF GetUserList, ctlVars
      <3>2. \E l \in Labels : l \notin {"delUsers", "addUsers", "updateUser"} /\ Goto(c, l)
        BY <2>3 DEF GetUserList
      <3>. QED BY <3>1, <3>2, OtherSteps
    <2>4. CASE Sync(c)
      <3>1. CASE SkipEmpty(c)
        <4>1. UNCHANGED <<userList, limInfo, life>> /\ pc[c] # "idle"
          BY <2>4 DEF Sync, ctlVars
        <4>2. Goto(c, "reconcile")
          BY <2>4, <3>1 DEF Sync
        <4>. QED BY <4>1, <4>2, OtherSteps
      <3>2. CASE ~SkipEmpty(c)
        <4>1. /\ UNCHANGED <<userList, limInfo, life, newU>> /\ life = "running"
              /\ diff'[c] = compareUserList(userList, newU[c])
          BY <1>0, <1>r, <2>4, <3>2 DEF Sync, ctlVars, StartedOnce, Idle, TypeOK
        <4>. QED BY <1>r, <3>2, <4>1
                 DEF OneCycle, LimiterMirrorsUserList, PendingDiff, StartedOnce, SkipEmpty
      <3>. QED BY <3>1, <3>2
    <2>5. CASE SyncDelUsers(c) \/ SyncAddUsers(c)
      <3>1. /\ UNCHANGED <<userList, limInfo, life, newU, diff>>
            /\ pc[c] \in {"delUsers", "addUsers"}
        BY <2>5 DEF SyncDelUsers, SyncAddUsers, ctlVars
      <3>2. life = "running"
        BY <1>r, <3>1 DEF StartedOnce, Idle
      <3>3. diff[c] = compareUserList(userList, newU[c]) /\ ~SkipEmpty(c)
        BY <1>r, <3>1 DEF PendingDiff
      <3>. QED BY <1>r, <3>1, <3>2, <3>3
               DEF OneCycle, LimiterMirrorsUserList, PendingDiff, StartedOnce, SkipEmpty
    <2>6. CASE SyncCommit(c)
      <3>1. diff[c] = compareUserList(userList, newU[c])
        BY <1>r, <2>6 DEF SyncCommit, PendingDiff
      <3>2. userList \in UserLists /\ newU[c] \in UserLists /\ limInfo = userList
        BY <1>0, <1>r DEF TypeOK, LimiterMirrorsUserList
      <3>3. limInfo' = newU[c] /\ userList' = newU[c]
        BY <2>6, <3>1, <3>2, UpdateIsExact DEF SyncCommit
      <3>4. life' = life /\ life = "running"
        BY <1>r, <2>6 DEF SyncCommit, StartedOnce, Idle
      <3>5. \A d \in Cycles : pc'[d] = "reconcile"
        BY <1>0, <2>6 DEF SyncCommit, Goto, OneCycle, TypeOK
      <3>. QED BY <3>3, <3>4, <3>5 DEF LimiterMirrorsUserList, PendingDiff, StartedOnce
    <2>7. CASE Reconcile(c)
      <3>1. UNCHANGED <<userList, life>> /\ pc[c] # "idle" /\ Goto(c, "portCheck")
        BY <2>7 DEF Reconcile
      <3>2. userList \in UserLists /\ uidMap \in SUBSET Users /\ limInfo = userList
        BY <1>0, <1>r DEF TypeOK, LimiterMirrorsUserList
      <3>3. limInfo' = limInfo
        BY <2>7, <3>2, ReconcileIsNeutral DEF Reconcile, reconcileUsers
      <3>. QED BY <3>1, <3>3, OtherSteps
    <2>8. CASE PortCheck(c) \/ PortDelNode(c) \/ PortAddNode(c) \/ PortReAddUsers(c)
      <3>1. UNCHANGED <<userList, limInfo, life>> /\ pc[c] # "idle"
        BY <2>8 DEF PortCheck, PortDelNode, PortAddNode, PortReAddUsers, ctlVars
      <3>2. \E l \in Labels : l \notin {"delUsers", "addUsers", "updateUser"} /\ Goto(c, l)
        BY <2>8 DEF PortCheck, PortDelNode, PortAddNode, PortReAddUsers
      <3>. QED BY <3>1, <3>2, OtherSteps
    <2>. QED BY <1>3, <2>1, <2>2, <2>3, <2>4, <2>5, <2>6, <2>7, <2>8 DEF nodeInfoMonitor
  <1>4. CASE PanelChange \/ ListenerDies \/ UNCHANGED vars
    <2>1. UNCHANGED <<userList, limInfo, life, pc, newU, diff>>
      BY <1>4 DEF PanelChange, ListenerDies, vars, ctlVars, cycleVars
    <2>. QED BY <1>r, <2>1 DEF LimiterMirrorsUserList, PendingDiff, StartedOnce, Idle, SkipEmpty
  <1>. QED BY <1>1, <1>2, <1>3, <1>4 DEF Next, Start

LEMMA MirrorInit == Init => MirrorInv
  BY InitType DEF Init, MirrorInv, LimiterMirrorsUserList, PendingDiff, StartedOnce, Idle

\* When cycles do not overlap, the limiter's entries and c.userList agree at all
\* times, whatever calls to the panel and the core fail.
THEOREM LimiterMirrors ==
    ASSUME OneCycle
    PROVE  Spec => []LimiterMirrorsUserList
  <1>1. Init => MirrorInv
    BY MirrorInit
  <1>2. MirrorInv /\ [Next]_vars => MirrorInv'
    BY MirrorStep
  <1>3. MirrorInv => LimiterMirrorsUserList
    BY DEF MirrorInv
  <1>. QED BY <1>1, <1>2, <1>3, PTL DEF Spec

\* When cycles do not overlap, no step empties the list of served users.
THEOREM NoMassKickHolds ==
    ASSUME OneCycle
    PROVE  Spec => NoMassKick
  <1>1. Init => MirrorInv
    BY MirrorInit
  <1>2. MirrorInv /\ [Next]_vars => MirrorInv'
    BY MirrorStep
  <1>3. MirrorInv /\ [Next]_vars => [Present(userList) # {} => Present(userList') # {}]_vars
    <2>. SUFFICES ASSUME MirrorInv, Next, Present(userList) # {}
                  PROVE  Present(userList') # {}
      OBVIOUS
    <2>1. CASE StartFetch
      BY <2>1 DEF StartFetch, MirrorInv, StartedOnce, Present, Empty
    <2>2. CASE StartAddNode \/ StartAddUsers \/ PanelChange \/ ListenerDies
      BY <2>2 DEF StartAddNode, StartAddUsers, PanelChange, ListenerDies, ctlVars
    <2>3. ASSUME NEW c \in Cycles, nodeInfoMonitor(c)
          PROVE  Present(userList') # {}
      <3>1. CASE SyncCommit(c)
        BY <3>1 DEF SyncCommit, MirrorInv, PendingDiff, SkipEmpty
      <3>2. CASE ~SyncCommit(c)
        <4>1. userList' = userList
          BY <2>3, <3>2 DEF nodeInfoMonitor, GetNodeInfo, RebuildDelNode, RebuildAddNode,
                RebuildReAddUsers, GetUserList, Sync, SyncDelUsers, SyncAddUsers,
                Reconcile, PortCheck, PortDelNode, PortAddNode, PortReAddUsers, ctlVars
        <4>. QED BY <4>1
      <3>. QED BY <3>1, <3>2
    <2>. QED BY <2>1, <2>2, <2>3 DEF Next, Start
  <1>. QED BY <1>1, <1>2, <1>3, PTL DEF Spec, NoMassKick

-----------------------------------------------------------------------------
(* An Xray inbound authenticates nobody outside the applied list.           *)

\* Users added by a cycle that has not committed its list yet.
Pending == UNION {diff[c].added : c \in {d \in Cycles : pc[d] = "updateUser"}}

ServedInv ==
    /\ MirrorInv
    /\ regUsers \subseteq Present(userList) \cup Pending
    /\ \A c \in Cycles : pc[c] \in {"addUsers", "updateUser"} =>
            regUsers \cap diff[c].deleted = {}

\* Outside of the span from Sync to SyncCommit only the list itself counts.
LEMMA ServedOutside ==
    ASSUME OneCycle, ServedInv, NEW c \in Cycles, NEW l \in Labels, Goto(c, l),
           pc[c] # "updateUser", l \notin {"addUsers", "updateUser"},
           userList' = userList,
           regUsers' \subseteq regUsers \cup Present(userList),
           MirrorInv'
    PROVE  ServedInv'
  <1>1. \A d \in Cycles : pc'[d] = l /\ pc[d] # "updateUser"
    BY DEF OneCycle, Goto, ServedInv, MirrorInv, TypeOK
  <1>2. Pending = {} /\ Pending' = {}
    BY <1>1 DEF Pending
  <1>. QED BY <1>1, <1>2 DEF ServedInv

LEMMA ServedStep ==
    ASSUME OneCycle, ~Lazy, ServedInv, [Next]_vars
    PROVE  ServedInv'
  <1>0. MirrorInv /\ MirrorInv'
    BY MirrorStep DEF ServedInv
  <1>. USE DEF Labels
  <1>1. CASE Start
    <2>1. /\ UNCHANGED <<pc, diff>>
          /\ \A c \in Cycles : pc[c] = "idle"
      BY <1>0, <1>1 DEF Start, StartFetch, StartAddNode, StartAddUsers, cycleVars,
                        MirrorInv, StartedOnce, Idle
    <2>2. Pending = {} /\ Pending' = {}
      BY <2>1 DEF Pending
    <2>3. CASE StartFetch
      <3>1. regUsers = {} /\ regUsers' = regUsers
        BY <1>0, <2>2, <2>3 DEF StartFetch, coreVars, ServedInv, MirrorInv, StartedOnce,
                                Present, Empty
      <3>. QED BY <1>0, <2>1, <2>2, <3>1 DEF ServedInv
    <2>4. CASE StartAddNode \/ StartAddUsers
      <3>1. userList' = userList /\ regUsers' \subseteq regUsers \cup Present(userList)
        BY <2>4 DEF StartAddNode, StartAddUsers, AddNodeOk, AddNodeErr, AddUsersOk,
                    AddUsersErr, coreVars
      <3>. QED BY <1>0, <2>1, <2>2, <3>1 DEF ServedInv
    <2>. QED BY <1>1, <2>3, <2>4 DEF Start
  <1>2. ASSUME NEW c \in Cycles, nodeInfoMonitor(c)
        PROVE  ServedInv'
    <2>t. diff[c] \in [deleted: SUBSET Users, added: SUBSET Users, modified: SUBSET Users]
      BY <1>0 DEF MirrorInv, TypeOK
    <2>1. CASE GetNodeInfo(c)
      <3>1. CASE pc' = pc
        <4>1. UNCHANGED <<userList, regUsers, diff, pc>>
          BY <2>1, <3>1 DEF GetNodeInfo, coreVars
        <4>. QED BY <1>0, <4>1 DEF ServedInv, Pending
      <3>2. CASE pc' # pc
        <4>1. \E l \in Labels : l \notin {"addUsers", "updateUser"} /\ Goto(c, l)
          BY <2>1, <3>2 DEF GetNodeInfo
        <4>. QED BY <1>0, <2>1, <4>1, ServedOutside DEF GetNodeInfo, coreVars
      <3>. QED BY <3>1, <3>2
    <2>2. CASE RebuildDelNode(c) \/ RebuildAddNode(c) \/ RebuildReAddUsers(c)
      <3>1. \E l \in Labels : l \notin {"addUsers", "updateUser"} /\ Goto(c, l)
        BY <2>2 DEF RebuildDelNode, RebuildAddNode, RebuildReAddUsers
      <3>2. pc[c] # "updateUser" /\ userList' = userList
        BY <2>2 DEF RebuildDelNode, RebuildAddNode, RebuildReAddUsers, ctlVars
      <3>3. regUsers' \subseteq regUsers \cup Present(userList)
        BY <2>2 DEF RebuildDelNode, RebuildAddNode, RebuildReAddUsers, DelNodeOk, DelNodeErr,
                    AddNodeOk, AddNodeErr, AddUsersOk, AddUsersErr, coreVars
      <3>. QED BY <1>0, <3>1, <3>2, <3>3, ServedOutside
    <2>3. CASE GetUserList(c) \/ PortCheck(c)
      <3>1. \E l \in Labels : l \notin {"addUsers", "updateUser"} /\ Goto(c, l)
        BY <2>3 DEF GetUserList, PortCheck
      <3>2. pc[c] # "updateUser" /\ UNCHANGED <<userList, regUsers>>
        BY <2>3 DEF GetUserList, PortCheck, ctlVars, coreVars
      <3>. QED BY <1>0, <3>1, <3>2, ServedOutside
    <2>4. CASE Sync(c)
      <3>1. pc[c] = "sync" /\ UNCHANGED <<userList, regUsers>>
        BY <2>4 DEF Sync, ctlVars, coreVars
      <3>2. CASE SkipEmpty(c)
        BY <1>0, <2>4, <3>1, <3>2, ServedOutside DEF Sync
      <3>3. CASE ~SkipEmpty(c)
        <4>1. Pending = {}
          BY <3>1 DEF OneCycle, Pending
        <4>2. regUsers' \subseteq Present(userList)
          BY <3>1, <4>1 DEF ServedInv
        <4>3. pc'[c] \in {"addUsers", "updateUser"} => diff'[c].deleted = {}
          BY <1>0, <2>4, <3>3 DEF Sync, Goto, MirrorInv, TypeOK
        <4>. QED BY <1>0, <3>1, <4>2, <4>3 DEF ServedInv, OneCycle
      <3>. QED BY <3>2, <3>3
    <2>5. CASE SyncDelUsers(c)
      <3>1. pc[c] = "delUsers" /\ UNCHANGED <<userList, diff>>
        BY <2>5 DEF SyncDelUsers, ctlVars
      <3>2. regUsers \subseteq Present(userList)
        BY <3>1 DEF ServedInv, Pending, OneCycle
      <3>3. CASE DelUsersOk(diff[c].deleted)
        BY <1>0, <3>1, <3>2, <3>3 DEF DelUsersOk, ServedInv, OneCycle
      <3>4. CASE DelUsersErr /\ Goto(c, "idle")
        BY <1>0, <3>1, <3>4, ServedOutside DEF DelUsersErr, coreVars
      <3>. QED BY <2>5, <3>3, <3>4 DEF SyncDelUsers
    <2>6. CASE SyncAddUsers(c)
      <3>1. pc[c] = "addUsers" /\ UNCHANGED <<userList, diff>>
        BY <2>6 DEF SyncAddUsers, ctlVars
      <3>2. regUsers \subseteq Present(userList) /\ regUsers \cap diff[c].deleted = {}
        BY <3>1 DEF ServedInv, Pending, OneCycle
      <3>3. diff[c].added \cap diff[c].deleted = {}
        <4>1. diff[c] = compareUserList(userList, newU[c])
          BY <1>0, <3>1 DEF MirrorInv, PendingDiff
        <4>2. /\ diff[c].added = Present(newU[c]) \ Present(userList)
              /\ diff[c].deleted = Present(userList) \ Present(newU[c])
          BY <4>1 DEF compareUserList
        <4>. QED BY <4>2
      <3>4. CASE AddUsersOk(diff[c].added) /\ Goto(c, "updateUser")
        <4>1. regUsers' \subseteq regUsers \cup diff[c].added
          BY <3>4 DEF AddUsersOk
        <4>2. pc'[c] = "updateUser"
          BY <1>0, <3>4 DEF Goto, MirrorInv, TypeOK
        <4>3. diff[c].added \subseteq Pending'
          BY <3>1, <4>2 DEF Pending
        <4>4. \A d \in Cycles : regUsers' \cap diff'[d].deleted = {}
          BY <3>1, <3>2, <3>3, <4>1 DEF OneCycle
        <4>. QED BY <1>0, <3>1, <3>2, <4>1, <4>3, <4>4 DEF ServedInv
      <3>5. CASE AddUsersErr(diff[c].added) /\ Goto(c, "idle")
        <4>1. regUsers' = regUsers
          BY <3>5 DEF AddUsersErr
        <4>. QED BY <1>0, <3>1, <3>5, <4>1, ServedOutside
      <3>. QED BY <2>6, <3>4, <3>5 DEF SyncAddUsers
    <2>7. CASE SyncCommit(c)
      <3>1. /\ pc[c] = "updateUser" /\ userList' = newU[c] /\ regUsers' = regUsers
            /\ diff' = diff
        BY <2>7 DEF SyncCommit, coreVars
      <3>2. \A d \in Cycles : pc'[d] = "reconcile"
        BY <1>0, <2>7 DEF SyncCommit, Goto, OneCycle, MirrorInv, TypeOK
      <3>3. Pending \subseteq diff[c].added
        BY DEF Pending, OneCycle
      <3>4. diff[c] = compareUserList(userList, newU[c]) /\ regUsers \cap diff[c].deleted = {}
        BY <1>0, <3>1 DEF MirrorInv, PendingDiff, ServedInv
      <3>5. regUsers' \subseteq Present(newU[c])
        BY <3>1, <3>3, <3>4 DEF ServedInv, compareUserList
      <3>. QED BY <1>0, <3>1, <3>2, <3>5 DEF ServedInv
    <2>8. CASE Reconcile(c)
      <3>1. pc[c] = "reconcile" /\ userList' = userList /\ Goto(c, "portCheck")
        BY <2>8 DEF Reconcile
      <3>2. regUsers' \subseteq regUsers \cup Present(userList)
        BY <2>8 DEF Reconcile, reconcileUsers, coreVars
      <3>. QED BY <1>0, <3>1, <3>2, ServedOutside
    <2>9. CASE PortDelNode(c) \/ PortAddNode(c) \/ PortReAddUsers(c)
      <3>1. \E l \in Labels : l \notin {"addUsers", "updateUser"} /\ Goto(c, l)
        BY <2>9 DEF PortDelNode, PortAddNode, PortReAddUsers
      <3>2. pc[c] # "updateUser" /\ userList' = userList
        BY <2>9 DEF PortDelNode, PortAddNode, PortReAddUsers, ctlVars
      <3>3. regUsers' \subseteq regUsers \cup Present(userList)
        BY <2>9 DEF PortDelNode, PortAddNode, PortReAddUsers, DelNodeOk, DelNodeErr,
                    AddNodeOk, AddNodeErr, AddUsersOk, AddUsersErr, coreVars
      <3>. QED BY <1>0, <3>1, <3>2, <3>3, ServedOutside
    <2>. QED BY <1>2, <2>1, <2>2, <2>3, <2>4, <2>5, <2>6, <2>7, <2>8, <2>9 DEF nodeInfoMonitor
  <1>3. CASE PanelChange \/ ListenerDies \/ UNCHANGED vars
    <2>1. UNCHANGED <<userList, regUsers, pc, diff>>
      BY <1>3 DEF PanelChange, ListenerDies, vars, ctlVars, coreVars, cycleVars
    <2>. QED BY <1>0, <2>1 DEF ServedInv, Pending
  <1>. QED BY <1>1, <1>2, <1>3 DEF Next

\* When cycles do not overlap and the node is an Xray inbound, between cycles it
\* authenticates only users of the list last applied, after any failures.
THEOREM OnlyListedUsers ==
    ASSUME OneCycle, ~Lazy
    PROVE  Spec => []OnlyListedUsersServed
  <1>1. Init => ServedInv
    BY MirrorInit DEF Init, ServedInv
  <1>2. ServedInv /\ [Next]_vars => ServedInv'
    BY ServedStep
  <1>3. ServedInv => OnlyListedUsersServed
    BY DEF ServedInv, OnlyListedUsersServed, Idle, Pending
  <1>. QED BY <1>1, <1>2, <1>3, PTL DEF Spec

-----------------------------------------------------------------------------
(* An open Xray inbound is the one c.info describes.                        *)

\* Only between AddNode and the end of a rebuild does the inbound run ahead of c.info.
OpenInv ==
    /\ MirrorInv
    /\ \A c \in Cycles : pc[c] = "addNode" => handler.ln # "open"
    /\ \A c \in Cycles : pc[c] = "reAddUsers" =>
            handler.reg /\ ~nodeNeedsRebuild(handler.cfg, newN[c])
    /\ (\A c \in Cycles : pc[c] # "reAddUsers") /\ handler.ln = "open" =>
            ~nodeNeedsRebuild(handler.cfg, info)

\* What the core operations do to an Xray inbound.
LEMMA CoreInbound ==
    ASSUME ~Lazy, TypeOK, NEW us, NEW n
    PROVE  /\ DelNodeOk => handler'.ln = "none"
           /\ DelNodeErr => handler' = handler
           /\ AddNodeOk(n) => handler'.reg /\ handler'.cfg = n
           /\ AddNodeErr(n) => handler' = handler \/ handler'.ln = "dead"
           /\ AddUsersOk(us) => handler' = handler
           /\ AddUsersErr(us) => handler' = handler /\ ~handler.reg
           /\ DelUsersOk(us) => handler' = handler
           /\ DelUsersErr => handler' = handler
           /\ reconcileUsers => handler' = handler
  <1>1. DelNodeOk => handler'.ln = "none"
    BY DEF DelNodeOk, TypeOK
  <1>2. DelNodeErr \/ DelUsersOk(us) \/ DelUsersErr \/ AddUsersOk(us) => handler' = handler
    BY DEF DelNodeErr, DelUsersOk, DelUsersErr, AddUsersOk, coreVars
  <1>3. AddNodeOk(n) => handler'.reg /\ handler'.cfg = n
    <2>. SUFFICES ASSUME AddNodeOk(n) PROVE handler'.reg /\ handler'.cfg = n
      OBVIOUS
    <2>1. \E l \in {"none", "open"} : handler' = [reg |-> TRUE, ln |-> l, cfg |-> n]
      BY DEF AddNodeOk
    <2>2. handler'.cfg = n
      BY <2>1
    <2>3. handler'.reg = TRUE
      BY <2>1
    <2>. QED BY <2>2, <2>3, Zenon
  <1>4. AddNodeErr(n) => handler' = handler \/ handler'.ln = "dead"
    BY DEF AddNodeErr
  <1>5. AddUsersErr(us) => handler' = handler /\ ~handler.reg
    BY DEF AddUsersErr
  <1>6. reconcileUsers => handler' = handler
    BY DEF reconcileUsers, TypeOK
  <1>. QED BY <1>1, <1>2, <1>3, <1>4, <1>5, <1>6

\* A step of the only cycle that ends outside the rebuild.
LEMMA OpenOutside ==
    ASSUME OneCycle, OpenInv, MirrorInv', NEW c \in Cycles, NEW l \in Labels, Goto(c, l),
           l \notin {"addNode", "reAddUsers"},
           handler'.ln = "open" => ~nodeNeedsRebuild(handler'.cfg, info')
    PROVE  OpenInv'
  <1>1. \A d \in Cycles : pc'[d] = l
    BY DEF OneCycle, Goto, OpenInv, MirrorInv, TypeOK
  <1>. QED BY <1>1 DEF OpenInv

LEMMA OpenStep ==
    ASSUME OneCycle, ~Lazy, OpenInv, [Next]_vars
    PROVE  OpenInv'
  <1>0. MirrorInv /\ MirrorInv' /\ TypeOK
    BY MirrorStep DEF OpenInv, MirrorInv
  <1>. USE DEF Labels
  <1>1. CASE Start
    <2>1. UNCHANGED <<pc, newN, info>> /\ \A c \in Cycles : pc[c] = "idle"
      BY <1>0, <1>1 DEF Start, StartFetch, StartAddNode, StartAddUsers, cycleVars,
                        MirrorInv, StartedOnce, Idle
    <2>2. handler' = handler \/ handler'.ln = "dead" \/ handler'.cfg = info
      BY <1>0, <1>1, CoreInbound DEF Start, StartFetch, StartAddNode, StartAddUsers, coreVars
    <2>3. handler'.ln = "open" => ~nodeNeedsRebuild(handler'.cfg, info)
      BY <2>1, <2>2 DEF OpenInv, nodeNeedsRebuild
    <2>. QED BY <1>0, <2>1, <2>3 DEF OpenInv
  <1>2. ASSUME NEW c \in Cycles, nodeInfoMonitor(c)
        PROVE  OpenInv'
    <2>0. pc[c] \notin {"reAddUsers"} /\ handler.ln = "open" => ~nodeNeedsRebuild(handler.cfg, info)
      BY DEF OpenInv, OneCycle
    <2>1. CASE GetNodeInfo(c)
      <3>1. pc[c] = "idle" /\ handler' = handler
        BY <2>1 DEF GetNodeInfo, coreVars
      <3>2. CASE pc' = pc
        <4>1. UNCHANGED <<newN, info>>
          BY <1>0, <2>1, <3>1, <3>2 DEF GetNodeInfo, Goto, TypeOK
        <4>. QED BY <1>0, <3>1, <3>2, <4>1 DEF OpenInv
      <3>3. CASE pc' # pc
        <4>1. \E l \in Labels : l \notin {"addNode", "reAddUsers"} /\ Goto(c, l)
          BY <2>1, <3>3 DEF GetNodeInfo
        <4>2. info' = info \/ ~nodeNeedsRebuild(info, info')
          BY <2>1 DEF GetNodeInfo
        <4>3. handler'.ln = "open" => ~nodeNeedsRebuild(handler'.cfg, info')
          BY <2>0, <3>1, <4>2 DEF nodeNeedsRebuild
        <4>. QED BY <1>0, <4>1, <4>3, OpenOutside
      <3>. QED BY <3>2, <3>3
    <2>2. CASE RebuildDelNode(c)
      <3>1. pc[c] = "delNode" /\ info' = info
        BY <2>2 DEF RebuildDelNode, ctlVars
      <3>2. CASE DelNodeOk /\ Goto(c, "addNode")
        <4>1. handler'.ln = "none"
          BY <1>0, <3>2, CoreInbound
        <4>2. \A d \in Cycles : pc'[d] = "addNode"
          BY <1>0, <3>2 DEF Goto, OneCycle, TypeOK
        <4>. QED BY <1>0, <4>1, <4>2 DEF OpenInv
      <3>3. CASE DelNodeErr /\ Goto(c, "idle")
        BY <1>0, <2>0, <3>1, <3>3, CoreInbound, OpenOutside
      <3>. QED BY <2>2, <3>2, <3>3 DEF RebuildDelNode
    <2>3. CASE RebuildAddNode(c)
      <3>1. pc[c] = "addNode" /\ UNCHANGED <<info, newN>> /\ handler.ln # "open"
        BY <2>3 DEF RebuildAddNode, ctlVars, OpenInv
      <3>2. CASE AddNodeOk(newN[c]) /\ Goto(c, "reAddUsers")
        <4>1. handler'.reg /\ ~nodeNeedsRebuild(handler'.cfg, newN'[c])
          BY <1>0, <3>1, <3>2, CoreInbound DEF nodeNeedsRebuild
        <4>2. \A d \in Cycles : d = c /\ pc'[d] = "reAddUsers"
          BY <1>0, <3>2 DEF Goto, OneCycle, TypeOK
        <4>. QED BY <1>0, <4>1, <4>2 DEF OpenInv
      <3>3. CASE AddNodeErr(newN[c]) /\ Goto(c, "idle")
        <4>1. handler'.ln # "open"
          BY <1>0, <3>1, <3>3, CoreInbound
        <4>. QED BY <1>0, <3>3, <4>1, OpenOutside
      <3>. QED BY <2>3, <3>2, <3>3 DEF RebuildAddNode
    <2>4. CASE RebuildReAddUsers(c)
      <3>1. handler.reg /\ ~nodeNeedsRebuild(handler.cfg, newN[c])
        BY <2>4 DEF RebuildReAddUsers, OpenInv
      <3>2. handler' = handler /\ info' = newN[c] /\ Goto(c, "getUserList")
        BY <1>0, <2>4, <3>1, CoreInbound DEF RebuildReAddUsers, coreVars
      <3>. QED BY <1>0, <3>1, <3>2, OpenOutside
    <2>5. CASE \/ GetUserList(c) \/ Sync(c) \/ SyncDelUsers(c) \/ SyncAddUsers(c) \/ SyncCommit(c)
               \/ Reconcile(c) \/ PortCheck(c)
      <3>1. /\ info' = info /\ pc[c] # "reAddUsers"
            /\ \E l \in Labels : l \notin {"addNode", "reAddUsers"} /\ Goto(c, l)
        BY <2>5 DEF GetUserList, Sync, SyncDelUsers, SyncAddUsers, SyncCommit, Reconcile, PortCheck,
                    ctlVars
      <3>2. handler' = handler
        BY <1>0, <2>5, CoreInbound DEF GetUserList, Sync, SyncDelUsers, SyncAddUsers, SyncCommit,
           Reconcile, PortCheck, coreVars
      <3>. QED BY <1>0, <2>0, <3>1, <3>2, OpenOutside
    <2>6. CASE PortDelNode(c) \/ PortAddNode(c) \/ PortReAddUsers(c)
      <3>1. /\ info' = info /\ pc[c] # "reAddUsers"
            /\ \E l \in Labels : l \notin {"addNode", "reAddUsers"} /\ Goto(c, l)
        BY <2>6 DEF PortDelNode, PortAddNode, PortReAddUsers, ctlVars
      <3>2. handler' = handler \/ handler'.ln \in {"none", "dead"} \/ handler'.cfg = info
        BY <1>0, <2>6, CoreInbound DEF PortDelNode, PortAddNode, PortReAddUsers, coreVars
      <3>3. handler'.ln = "open" => ~nodeNeedsRebuild(handler'.cfg, info')
        BY <2>0, <3>1, <3>2 DEF nodeNeedsRebuild
      <3>. QED BY <1>0, <3>1, <3>3, OpenOutside
    <2>. QED BY <1>2, <2>1, <2>2, <2>3, <2>4, <2>5, <2>6 DEF nodeInfoMonitor
  <1>3. CASE PanelChange \/ UNCHANGED vars
    <2>1. UNCHANGED <<pc, newN, handler, info>>
      BY <1>3 DEF PanelChange, vars, ctlVars, coreVars, cycleVars
    <2>. QED BY <1>0, <2>1 DEF OpenInv
  <1>4. CASE ListenerDies
    <2>1. UNCHANGED <<pc, newN, info>> /\ handler' = [handler EXCEPT !.ln = "dead"]
      BY <1>4 DEF ListenerDies, ctlVars, cycleVars
    <2>2. handler'.ln = "dead" /\ handler'.reg = handler.reg /\ handler'.cfg = handler.cfg
      BY <1>0, <2>1 DEF TypeOK
    <2>. QED BY <1>0, <2>1, <2>2 DEF OpenInv
  <1>. QED BY <1>1, <1>2, <1>3, <1>4 DEF Next

\* When cycles do not overlap, an Xray inbound that listens between cycles is the one
\* c.info describes, whatever rebuilds and port repairs failed before: neither
\* nodeNeedsRebuild nor the port probe is ever blind to it.
THEOREM OpenInboundIsInfo ==
    ASSUME OneCycle, ~Lazy
    PROVE  Spec => []OpenListenerServesInfo
  <1>1. Init => OpenInv
    BY MirrorInit DEF Init, OpenInv
  <1>2. OpenInv /\ [Next]_vars => OpenInv'
    BY OpenStep
  <1>3. OpenInv => OpenListenerServesInfo
    BY DEF OpenInv, OpenListenerServesInfo, Idle
  <1>. QED BY <1>1, <1>2, <1>3, PTL DEF Spec

-----------------------------------------------------------------------------
(* A runner that is bound serves the users of the list.                     *)

Rebuilding == {"addNode", "reAddUsers", "portAddNode", "portReAddUsers"}

\* A runner is there whenever nobody replaces it; a listed user in uidMap with a key is one
\* of its users; it is bound for a list, applied or about to be, that is not empty.
RunnerKept ==
    /\ life \in {"addUsers", "running"} /\ (\A c \in Cycles : pc[c] \notin {"addNode", "portAddNode"})
            => handler.reg
    /\ life \in {"new", "addNode", "addUsers"} => uidMap = {}
    /\ (\A c \in Cycles : pc[c] \notin Rebuilding)
            => (Present(userList) \cap uidMap) \ Keyless \subseteq regUsers
    /\ \A c \in Cycles : pc[c] = "addUsers" => diff[c].added # {}
    /\ \A c \in Cycles : pc[c] = "updateUser" => diff[c].added \ Keyless \subseteq regUsers
    /\ handler.ln = "open" =>
            Present(userList) # {} \/ \E c \in Cycles : pc[c] = "updateUser" /\ Present(newU[c]) # {}

BoundInv == MirrorInv /\ (Lazy => RunnerKept)

\* What the core operations do to a runner that is there.
LEMMA CoreRunner ==
    ASSUME Lazy, TypeOK, NEW us, NEW n
    PROVE  /\ DelNodeOk => handler'.ln = "none" /\ uidMap' = uidMap
           /\ DelNodeErr => ~handler.reg /\ UNCHANGED <<handler, regUsers, uidMap>>
           /\ AddNodeOk(n) => /\ handler'.reg /\ (handler'.ln = "open" => handler.ln = "open")
                              /\ UNCHANGED <<regUsers, uidMap>>
           /\ ~AddNodeErr(n)
           /\ handler.reg /\ (AddUsersOk(us) \/ AddUsersErr(us)) =>
                  handler'.reg /\ regUsers' = regUsers \cup (us \ Keyless) /\ uidMap' = uidMap \cup us
           /\ AddUsersErr(us) => handler' = handler
           /\ DelUsersOk(us) => /\ handler' = handler
                                /\ regUsers' = regUsers \ us /\ uidMap' = uidMap \ us
           /\ DelUsersErr => ~handler.reg
           /\ handler.reg /\ reconcileUsers =>
                  /\ handler'.reg
                  /\ handler'.ln = "open" => handler.ln = "open" \/ Present(userList) # {}
                  /\ (Present(userList) \cap uidMap) \ Keyless \subseteq regUsers
                        => Present(userList) \ Keyless \subseteq regUsers'
  <1>1. DelNodeOk => handler'.ln = "none" /\ uidMap' = uidMap
    BY DEF DelNodeOk, TypeOK
  <1>2. DelNodeErr => ~handler.reg /\ UNCHANGED <<handler, regUsers, uidMap>>
    BY DEF DelNodeErr, coreVars
  <1>3. AddNodeOk(n) => /\ handler'.reg /\ (handler'.ln = "open" => handler.ln = "open")
                        /\ UNCHANGED <<regUsers, uidMap>>
    <2>. SUFFICES ASSUME AddNodeOk(n)
                  PROVE  /\ handler'.reg /\ (handler'.ln = "open" => handler.ln = "open")
                         /\ UNCHANGED <<regUsers, uidMap>>
      OBVIOUS
    <2>1. CASE handler' = handler /\ handler.reg
      BY <2>1 DEF AddNodeOk
    <2>2. CASE handler' = [reg |-> TRUE, ln |-> "none", cfg |-> n]
      <3>1. handler'.reg = TRUE /\ handler'.ln = "none"
        BY <2>2
      <3>2. handler'.reg
        BY <3>1, Zenon
      <3>. QED BY <3>1, <3>2 DEF AddNodeOk
    <2>. QED BY <2>1, <2>2 DEF AddNodeOk
  <1>4. ~AddNodeErr(n)
    BY DEF AddNodeErr
  <1>5. handler.reg /\ (AddUsersOk(us) \/ AddUsersErr(us)) =>
            handler'.reg /\ regUsers' = regUsers \cup (us \ Keyless) /\ uidMap' = uidMap \cup us
    <2>. SUFFICES ASSUME handler.reg, AddUsersOk(us) \/ AddUsersErr(us)
                  PROVE  handler'.reg /\ regUsers' = regUsers \cup (us \ Keyless) /\ uidMap' = uidMap \cup us
      OBVIOUS
    <2>1. handler' = handler \/ \E l \in {"none", "open", "dead"} : handler' = [handler EXCEPT !.ln = l]
      BY DEF AddUsersOk, AddUsersErr, TypeOK
    <2>2. handler'.reg = handler.reg
      BY <2>1 DEF TypeOK
    <2>. QED BY <2>2 DEF AddUsersOk, AddUsersErr
  <1>6. AddUsersErr(us) => handler' = handler
    BY DEF AddUsersErr
  <1>7. DelUsersOk(us) => handler' = handler /\ regUsers' = regUsers \ us /\ uidMap' = uidMap \ us
    BY DEF DelUsersOk
  <1>8. DelUsersErr => ~handler.reg
    BY DEF DelUsersErr
  <1>9. handler.reg /\ reconcileUsers =>
            /\ handler'.reg
            /\ handler'.ln = "open" => handler.ln = "open" \/ Present(userList) # {}
            /\ (Present(userList) \cap uidMap) \ Keyless \subseteq regUsers
                  => Present(userList) \ Keyless \subseteq regUsers'
    <2>. SUFFICES ASSUME handler.reg, reconcileUsers
                  PROVE  /\ handler'.reg
                         /\ handler'.ln = "open" => handler.ln = "open" \/ Present(userList) # {}
                         /\ (Present(userList) \cap uidMap) \ Keyless \subseteq regUsers
                                => Present(userList) \ Keyless \subseteq regUsers'
      OBVIOUS
    <2>. DEFINE missing == Present(userList) \ uidMap
    <2>1. \/ handler' = handler
          \/ missing # {} /\ handler' = [handler EXCEPT !.ln = "open"]
      BY DEF reconcileUsers, TypeOK
    <2>2. /\ handler'.reg = handler.reg
          /\ handler'.ln = "open" => handler.ln = "open" \/ missing # {}
      BY <2>1 DEF TypeOK
    <2>3. regUsers' = (regUsers \ (uidMap \ Present(userList))) \cup (missing \ Keyless)
      BY DEF reconcileUsers
    <2>. QED BY <2>2, <2>3
  <1>. QED BY <1>1, <1>2, <1>3, <1>4, <1>5, <1>6, <1>7, <1>8, <1>9

\* A step of the only cycle that ends where nothing is under way.
LEMMA RunnerOutside ==
    ASSUME OneCycle, TypeOK, NEW c \in Cycles, NEW l \in Labels, Goto(c, l),
           l \notin Rebuilding \cup {"addUsers", "updateUser"}, life' = "running",
           handler'.reg, (Present(userList') \cap uidMap') \ Keyless \subseteq regUsers',
           handler'.ln = "open" => Present(userList') # {}
    PROVE  RunnerKept'
  <1>1. \A d \in Cycles : pc'[d] = l
    BY DEF OneCycle, Goto, TypeOK
  <1>. QED BY <1>1 DEF RunnerKept

LEMMA RunnerStep ==
    ASSUME OneCycle, Lazy, MirrorInv, MirrorInv', RunnerKept, [Next]_vars
    PROVE  RunnerKept'
  <1>0. TypeOK /\ Present(userList) \in SUBSET Users
    BY DEF MirrorInv, Present
  <1>. USE DEF Labels, Rebuilding
  <1>1. CASE Start
    <2>1. UNCHANGED <<pc, diff, newU>> /\ \A c \in Cycles : pc[c] = "idle"
      BY <1>1 DEF Start, StartFetch, StartAddNode, StartAddUsers, cycleVars,
                  MirrorInv, StartedOnce, Idle
    <2>2. CASE StartFetch
      <3>1. /\ UNCHANGED <<handler, regUsers, uidMap>> /\ uidMap = {}
            /\ life' \in {"addNode", "failed"} /\ handler.ln # "open"
        BY <2>1, <2>2 DEF StartFetch, coreVars, RunnerKept, MirrorInv, StartedOnce, Present, Empty
      <3>. QED BY <2>1, <3>1 DEF RunnerKept
    <2>3. CASE StartAddNode
      <3>1. /\ life = "addNode" /\ life' = "addUsers" /\ UNCHANGED <<regUsers, uidMap, userList>>
            /\ handler'.reg /\ (handler'.ln = "open" => handler.ln = "open")
        BY <1>0, <2>3, CoreRunner DEF StartAddNode
      <3>. QED BY <2>1, <3>1 DEF RunnerKept
    <2>4. CASE StartAddUsers
      <3>1. life = "addUsers" /\ userList' = userList /\ handler.reg
        BY <2>1, <2>4 DEF StartAddUsers, RunnerKept
      <3>2. CASE Present(userList) = {}
        <4>1. UNCHANGED <<handler, regUsers, uidMap>> /\ life' = "running"
          BY <2>4, <3>2 DEF StartAddUsers, coreVars
        <4>. QED BY <2>1, <3>1, <3>2, <4>1 DEF RunnerKept
      <3>3. CASE Present(userList) # {}
        <4>1. /\ life' \in {"running", "failed"} /\ handler'.reg
              /\ regUsers' = regUsers \cup (Present(userList) \ Keyless)
          BY <1>0, <2>4, <3>1, <3>3, CoreRunner DEF StartAddUsers
        <4>. QED BY <2>1, <3>1, <3>3, <4>1 DEF RunnerKept
      <3>. QED BY <3>2, <3>3
    <2>. QED BY <1>1, <2>2, <2>3, <2>4 DEF Start
  <1>2. ASSUME NEW c \in Cycles, nodeInfoMonitor(c)
        PROVE  RunnerKept'
    <2>0. \A d \in Cycles : d = c
      BY DEF OneCycle
    <2>l. life = "running" /\ life' = "running"
      BY <1>2 DEF nodeInfoMonitor, GetNodeInfo, RebuildDelNode, RebuildAddNode, RebuildReAddUsers,
         GetUserList, Sync, SyncDelUsers, SyncAddUsers, SyncCommit, Reconcile, PortCheck,
         PortDelNode, PortAddNode, PortReAddUsers, ctlVars, MirrorInv, StartedOnce, Idle
    <2>r. pc[c] \notin {"addNode", "portAddNode"} => handler.reg
      BY <2>0, <2>l DEF RunnerKept
    <2>k. pc[c] \notin Rebuilding => (Present(userList) \cap uidMap) \ Keyless \subseteq regUsers
      BY <2>0 DEF RunnerKept
    <2>o. pc[c] # "updateUser" /\ handler.ln = "open" => Present(userList) # {}
      BY <2>0 DEF RunnerKept
    <2>1. CASE GetNodeInfo(c)
      <3>1. pc[c] = "idle" /\ UNCHANGED <<handler, regUsers, uidMap, userList, diff, newU>>
        BY <2>1 DEF GetNodeInfo, coreVars
      <3>2. CASE pc' = pc
        BY <2>l, <3>1, <3>2 DEF RunnerKept
      <3>3. CASE pc' # pc
        <4>1. \E l \in Labels : l \notin Rebuilding \cup {"addUsers", "updateUser"} /\ Goto(c, l)
          BY <2>1, <3>3 DEF GetNodeInfo
        <4>. QED BY <1>0, <2>l, <2>r, <2>k, <2>o, <3>1, <4>1, RunnerOutside
      <3>. QED BY <3>2, <3>3
    <2>2. CASE RebuildDelNode(c) \/ PortDelNode(c)
      <3>1. pc[c] \in {"delNode", "portDelNode"}
        BY <2>2 DEF RebuildDelNode, PortDelNode
      <3>2. DelNodeOk /\ \E l \in {"addNode", "portAddNode"} : Goto(c, l)
        BY <1>0, <2>2, <2>r, <3>1, CoreRunner DEF RebuildDelNode, PortDelNode
      <3>3. handler'.ln = "none" /\ \A d \in Cycles : pc'[d] \in {"addNode", "portAddNode"}
        BY <1>0, <2>0, <3>2, CoreRunner DEF Goto, TypeOK
      <3>. QED BY <2>0, <2>l, <3>3 DEF RunnerKept
    <2>3. CASE RebuildAddNode(c) \/ PortAddNode(c)
      <3>1. userList' = userList /\ pc[c] # "updateUser"
        BY <2>3 DEF RebuildAddNode, PortAddNode, ctlVars
      <3>2. \E n : AddNodeOk(n) /\ \E l \in {"reAddUsers", "portReAddUsers"} : Goto(c, l)
        BY <1>0, <2>3, CoreRunner DEF RebuildAddNode, PortAddNode
      <3>3. /\ handler'.reg /\ (handler'.ln = "open" => handler.ln = "open")
            /\ \A d \in Cycles : pc'[d] \in {"reAddUsers", "portReAddUsers"}
        BY <1>0, <2>0, <3>2, CoreRunner DEF Goto, TypeOK
      <3>. QED BY <2>0, <2>l, <2>o, <3>1, <3>3 DEF RunnerKept
    <2>4. CASE RebuildReAddUsers(c) \/ PortReAddUsers(c)
      <3>1. userList' = userList /\ pc[c] \in {"reAddUsers", "portReAddUsers"} /\ handler.reg
        BY <2>4, <2>r DEF RebuildReAddUsers, PortReAddUsers
      <3>2. \E l \in {"getUserList", "idle"} : Goto(c, l)
        BY <2>4 DEF RebuildReAddUsers, PortReAddUsers
      <3>3. CASE Present(userList) = {}
        <4>1. UNCHANGED <<handler, regUsers, uidMap>>
          BY <2>4, <3>3 DEF RebuildReAddUsers, PortReAddUsers, coreVars
        <4>. QED BY <1>0, <2>l, <2>o, <3>1, <3>2, <3>3, <4>1, RunnerOutside
      <3>4. CASE Present(userList) # {}
        <4>1. handler'.reg /\ regUsers' = regUsers \cup (Present(userList) \ Keyless)
          BY <1>0, <2>4, <3>1, <3>4, CoreRunner DEF RebuildReAddUsers, PortReAddUsers
        <4>. QED BY <1>0, <2>l, <3>1, <3>2, <3>4, <4>1, RunnerOutside
      <3>. QED BY <3>3, <3>4
    <2>5. CASE GetUserList(c) \/ PortCheck(c)
      <3>1. UNCHANGED <<handler, regUsers, uidMap, userList>> /\ pc[c] \in {"getUserList", "portCheck"}
        BY <2>5 DEF GetUserList, PortCheck, coreVars, ctlVars
      <3>2. \E l \in {"sync", "idle", "portDelNode"} : Goto(c, l)
        BY <2>5 DEF GetUserList, PortCheck
      <3>. QED BY <1>0, <2>l, <2>r, <2>k, <2>o, <3>1, <3>2, RunnerOutside
    <2>6. CASE Sync(c)
      <3>1. UNCHANGED <<handler, regUsers, uidMap, userList, newU>> /\ pc[c] = "sync"
        BY <2>6 DEF Sync, coreVars, ctlVars
      <3>2. CASE SkipEmpty(c)
        BY <1>0, <2>6, <2>l, <2>r, <2>k, <2>o, <3>1, <3>2, RunnerOutside DEF Sync
      <3>3. CASE ~SkipEmpty(c)
        <4>1. /\ pc'[c] \in {"delUsers", "addUsers", "updateUser"}
              /\ pc'[c] = "addUsers" => diff'[c].added # {}
              /\ pc'[c] = "updateUser" => diff'[c].added = {}
          BY <1>0, <2>6, <3>3 DEF Sync, Goto, TypeOK
        <4>. QED BY <2>0, <2>l, <2>r, <2>k, <2>o, <3>1, <4>1 DEF RunnerKept
      <3>. QED BY <3>2, <3>3
    <2>7. CASE SyncDelUsers(c)
      <3>1. pc[c] = "delUsers" /\ UNCHANGED <<userList, newU, diff>> /\ handler.reg
        BY <2>7, <2>r DEF SyncDelUsers, ctlVars
      <3>2. /\ DelUsersOk(diff[c].deleted)
            /\ Goto(c, IF diff[c].added # {} THEN "addUsers" ELSE "updateUser")
        BY <1>0, <2>7, <3>1, CoreRunner DEF SyncDelUsers
      <3>3. /\ handler' = handler
            /\ regUsers' = regUsers \ diff[c].deleted /\ uidMap' = uidMap \ diff[c].deleted
        BY <1>0, <3>2, CoreRunner
      <3>4. pc'[c] = IF diff[c].added # {} THEN "addUsers" ELSE "updateUser"
        BY <1>0, <3>2 DEF Goto, TypeOK
      <3>5. (Present(userList') \cap uidMap') \ Keyless \subseteq regUsers'
        BY <2>k, <3>1, <3>3
      <3>. QED BY <2>0, <2>l, <2>o, <3>1, <3>3, <3>4, <3>5 DEF RunnerKept
    <2>8. CASE SyncAddUsers(c)
      <3>1. pc[c] = "addUsers" /\ UNCHANGED <<userList, newU, diff>> /\ handler.reg
        BY <2>8, <2>r DEF SyncAddUsers, ctlVars
      <3>2. /\ handler'.reg /\ regUsers' = regUsers \cup (diff[c].added \ Keyless)
            /\ uidMap' = uidMap \cup diff[c].added
        BY <1>0, <2>8, <3>1, CoreRunner DEF SyncAddUsers
      <3>3. (Present(userList') \cap uidMap') \ Keyless \subseteq regUsers'
        BY <2>k, <3>1, <3>2
      <3>4. CASE AddUsersErr(diff[c].added) /\ Goto(c, "idle")
        <4>1. handler' = handler
          BY <1>0, <3>4, CoreRunner
        <4>. QED BY <1>0, <2>l, <2>o, <3>1, <3>2, <3>3, <3>4, <4>1, RunnerOutside
      <3>5. CASE Goto(c, "updateUser")
        <4>1. pc'[c] = "updateUser"
          BY <1>0, <3>5 DEF Goto, TypeOK
        <4>2. diff[c].added # {} /\ diff[c] = compareUserList(userList, newU[c])
          BY <3>1 DEF RunnerKept, MirrorInv, PendingDiff
        <4>3. diff[c].added \subseteq Present(newU[c])
          BY <4>2 DEF compareUserList
        <4>. QED BY <2>0, <2>l, <3>1, <3>2, <3>3, <4>1, <4>2, <4>3 DEF RunnerKept
      <3>. QED BY <2>8, <3>4, <3>5 DEF SyncAddUsers
    <2>9. CASE SyncCommit(c)
      <3>1. /\ pc[c] = "updateUser" /\ userList' = newU[c] /\ Goto(c, "reconcile")
            /\ UNCHANGED <<handler, regUsers, uidMap>>
        BY <2>9 DEF SyncCommit, coreVars
      <3>2. /\ diff[c] = compareUserList(userList, newU[c]) /\ ~SkipEmpty(c)
            /\ diff[c].added \ Keyless \subseteq regUsers
        BY <3>1 DEF MirrorInv, PendingDiff, RunnerKept
      <3>3. diff[c].added = Present(newU[c]) \ Present(userList)
        BY <3>2 DEF compareUserList
      <3>4. (Present(userList') \cap uidMap') \ Keyless \subseteq regUsers'
        BY <2>k, <3>1, <3>2, <3>3
      <3>5. handler'.ln = "open" => Present(userList') # {}
        BY <2>0, <3>1, <3>2 DEF RunnerKept, SkipEmpty
      <3>. QED BY <1>0, <2>l, <2>r, <3>1, <3>4, <3>5, RunnerOutside
    <2>10. CASE Reconcile(c)
      <3>1. pc[c] = "reconcile" /\ userList' = userList /\ Goto(c, "portCheck") /\ handler.reg
        BY <2>10, <2>r DEF Reconcile
      <3>2. CASE UNCHANGED coreVars
        BY <1>0, <2>l, <2>r, <2>k, <2>o, <3>1, <3>2, RunnerOutside DEF coreVars
      <3>3. CASE reconcileUsers
        <4>1. /\ handler'.reg
              /\ handler'.ln = "open" => handler.ln = "open" \/ Present(userList) # {}
              /\ Present(userList) \ Keyless \subseteq regUsers'
          BY <1>0, <2>k, <3>1, <3>3, CoreRunner
        <4>. QED BY <1>0, <2>l, <2>o, <3>1, <4>1, RunnerOutside
      <3>. QED BY <2>10, <3>2, <3>3 DEF Reconcile
    <2>. QED BY <1>2, <2>1, <2>2, <2>3, <2>4, <2>5, <2>6, <2>7, <2>8, <2>9, <2>10 DEF nodeInfoMonitor
  <1>3. CASE PanelChange \/ UNCHANGED vars
    <2>1. UNCHANGED <<pc, diff, newU, life, handler, regUsers, uidMap, userList>>
      BY <1>3 DEF PanelChange, vars, ctlVars, coreVars, cycleVars
    <2>. QED BY <2>1 DEF RunnerKept
  <1>4. CASE ListenerDies
    <2>1. /\ UNCHANGED <<pc, diff, newU, life, regUsers, uidMap, userList>>
          /\ handler' = [handler EXCEPT !.ln = "dead"]
      BY <1>4 DEF ListenerDies, ctlVars, cycleVars
    <2>2. handler'.ln = "dead" /\ handler'.reg = handler.reg
      BY <1>0, <2>1 DEF TypeOK
    <2>. QED BY <2>1, <2>2 DEF RunnerKept
  <1>. QED BY <1>1, <1>2, <1>3, <1>4 DEF Next

\* When cycles do not overlap, a runner whose port is bound between cycles belongs to a
\* node with users, and lacks a listed one with a key only if reconcileUsers will find it missing,
\* however often listeners, deletions and additions failed before.
THEOREM BoundRunner ==
    ASSUME OneCycle
    PROVE  Spec => []BoundRunnerHasUsers
  <1>1. Init => BoundInv
    BY MirrorInit DEF Init, BoundInv, RunnerKept
  <1>2. BoundInv /\ [Next]_vars => BoundInv'
    BY MirrorStep, RunnerStep DEF BoundInv
  <1>3. BoundInv => BoundRunnerHasUsers
    BY DEF BoundInv, RunnerKept, BoundRunnerHasUsers, Idle, Rebuilding
  <1>. QED BY <1>1, <1>2, <1>3, PTL DEF Spec
=============================================================================

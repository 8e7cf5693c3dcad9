------------------------------ MODULE NodeSync ------------------------------
(***************************************************************************)
(* One node controller of v2node (node/controller.go, node/task.go,        *)
(* node/user.go) together with the part of the core it drives              *)
(* (core/node.go, core/user.go) and the panel it follows.                  *)
(*                                                                         *)
(* The controller mirrors the panel: nodeInfoMonitor, run by a periodic    *)
(* task, fetches the node's configuration and user list and brings the     *)
(* inbound, the registered users and the rate limiter in line.  The cycle  *)
(* is split where it blocks (a panel call, the one second sleep of a       *)
(* rebuild) and where it calls into the core, so that a cycle the task     *)
(* watchdog has given up on can overlap the next one.                      *)
(***************************************************************************)
EXTENDS Naturals, FiniteSets

CONSTANTS
    Users,          \* user uuids the panel may list
    Limits,         \* (speed limit, device limit) pairs a user may carry
    None,           \* "not in the list"
    Ports,          \* values of ServerPort
    Keys,           \* values of the other fields nodeNeedsRebuild compares
    Auxes,          \* values of inbound fields it does not compare
    Cycles,         \* goroutines that may be executing nodeInfoMonitor
    Lazy,           \* the protocol binds its port on the first user (snell, mieru...)
    Keyless,        \* users without a key, whom a runner of sudoku skips
    Faults,         \* kinds of failure the environment may inject
    MaxFaults,      \* how many of them
    MaxChanges,     \* how many times the panel's data may change
    userReconcileEvery

ASSUME LimitsAssumption == None \notin Limits
ASSUME LazyAssumption == Lazy \in BOOLEAN /\ (Keyless # {} => Lazy)
ASSUME BoundsAssumption ==
    /\ MaxFaults \in Nat
    /\ MaxChanges \in Nat
    /\ userReconcileEvery \in Nat \ {0}

VARIABLES
    panel,              \* what the panel answers now: [cfg, users]
    life,               \* progress of Controller.Start
    info,               \* c.info
    userList,           \* c.userList
    reconcileCounter,   \* c.reconcileCounter
    portFailCount,      \* c.portFailCount
    limInfo,            \* the limiter's UserLimitInfo
    handler,            \* the inbound (or runner) of the tag: [reg, ln, cfg]
    regUsers,           \* users the handler authenticates
    uidMap,             \* V2Core.users.uidMap
    pc, newN, newU, diff,   \* program counter and locals of each cycle
    faults, changes     \* remaining failures and panel changes

panelVars == <<panel, changes>>
ctlVars   == <<life, info, userList, reconcileCounter, portFailCount, limInfo>>
coreVars  == <<handler, regUsers, uidMap>>
cycleVars == <<pc, newN, newU, diff>>
vars      == <<panelVars, ctlVars, coreVars, cycleVars, faults>>

-----------------------------------------------------------------------------
Cfgs      == [port: Ports, key: Keys, aux: Auxes]
UserLists == [Users -> Limits \cup {None}]
Empty     == [u \in Users |-> None]
Present(list) == {u \in Users : list[u] # None}

NoDiff == [deleted |-> {}, added |-> {}, modified |-> {}]

Labels == {"idle", "delNode", "addNode", "reAddUsers", "getUserList", "sync",
           "delUsers", "addUsers", "updateUser", "reconcile", "portCheck",
           "portDelNode", "portAddNode", "portReAddUsers"}

TypeOK ==
    /\ panel \in [cfg: Cfgs, users: UserLists]
    /\ life \in {"new", "addNode", "addUsers", "running", "failed"}
    /\ info \in Cfgs
    /\ userList \in UserLists
    /\ reconcileCounter \in 0 .. userReconcileEvery - 1
    /\ portFailCount \in Nat
    /\ limInfo \in UserLists
    /\ handler \in [reg: BOOLEAN, ln: {"none", "open", "dead"}, cfg: Cfgs]
    /\ regUsers \in SUBSET Users
    /\ uidMap \in SUBSET Users
    /\ pc \in [Cycles -> Labels]
    /\ newN \in [Cycles -> Cfgs]
    /\ newU \in [Cycles -> UserLists]
    /\ diff \in [Cycles -> [deleted: SUBSET Users, added: SUBSET Users,
                            modified: SUBSET Users]]
    /\ faults \in Nat
    /\ changes \in Nat

\* A failure of kind f happens in this step / no failure happens in it.
Fault(f) == f \in Faults /\ faults > 0 /\ faults' = faults - 1
NoFault  == UNCHANGED faults

-----------------------------------------------------------------------------
(* The core's operations on the node's tag (core/node.go, core/user.go).   *)

\* Removing the handler closes its listener and forgets its users; uidMap is
\* left alone.  A tag without handler is an error of removeInbound.
DelNodeOk ==
    /\ handler.reg
    /\ handler' = [handler EXCEPT !.reg = FALSE, !.ln = "none"]
    /\ regUsers' = {}
    /\ UNCHANGED uidMap

DelNodeErr ==
    /\ ~handler.reg
    /\ UNCHANGED coreVars

\* Mutant: a runner binds its port as soon as the node is added.
AddNodeBindsAtOnce(n) ==
    /\ \/ /\ ~handler.reg
          /\ handler' = [reg |-> TRUE, ln |-> "open", cfg |-> n]
       \/ /\ handler.reg /\ Lazy
          /\ UNCHANGED handler
    /\ UNCHANGED <<regUsers, uidMap>>
    /\ NoFault

\* A runner manager keeps the runner it already has for the tag.
AddNodeOk(n) ==
    /\ \/ /\ ~handler.reg
          /\ handler' = [reg |-> TRUE, ln |-> IF Lazy THEN "none" ELSE "open", cfg |-> n]
       \/ /\ handler.reg /\ Lazy
          /\ UNCHANGED handler
    /\ UNCHANGED <<regUsers, uidMap>>
    /\ NoFault

\* An Xray inbound fails to be added because the tag exists; because it cannot
\* be built (or its front cannot start and it is rolled back); or because its
\* listener does not start, which leaves the handler registered.
AddNodeErr(n) ==
    /\ ~Lazy
    /\ \/ /\ handler.reg
          /\ NoFault
          /\ UNCHANGED handler
       \/ /\ ~handler.reg
          /\ Fault("unregistered")
          /\ UNCHANGED handler
       \/ /\ ~handler.reg
          /\ Fault("dead")
          /\ handler' = [reg |-> TRUE, ln |-> "dead", cfg |-> n]
    /\ UNCHANGED <<regUsers, uidMap>>

\* uidMap is filled before the users reach the handler.  The Xray user manager
\* may refuse a user, which is logged and skipped.  A runner binds its port
\* with the first users it keeps; a manager without runner for the tag does nothing.
\* (One step: two cycles that overlap inside AddUsers, which fills uidMap and registers
\* user by user without a lock, are not covered.)
AddUsersOk(us) ==
    /\ uidMap' = uidMap \cup us
    /\ \/ /\ ~Lazy /\ handler.reg
          /\ UNCHANGED handler
          /\ \/ regUsers' = regUsers \cup us /\ NoFault
             \/ \E u \in us \ regUsers : regUsers' = regUsers \cup (us \ {u}) /\ Fault("skip")
       \/ /\ Lazy /\ handler.reg
          /\ regUsers' = regUsers \cup (us \ Keyless)
          /\ handler' = [handler EXCEPT !.ln = IF @ = "none" /\ regUsers' # {} THEN "open" ELSE @]
          /\ NoFault
       \/ /\ Lazy /\ ~handler.reg
          /\ UNCHANGED <<handler, regUsers>>
          /\ NoFault

AddUsersErr(us) ==
    /\ uidMap' = uidMap \cup us
    /\ \/ /\ ~Lazy /\ ~handler.reg
          /\ UNCHANGED <<handler, regUsers>>
          /\ NoFault
       \/ /\ Lazy /\ handler.reg /\ handler.ln = "none"
          /\ regUsers' = regUsers \cup (us \ Keyless) /\ regUsers' # {}
          /\ UNCHANGED handler
          /\ Fault("listen")

\* Mutant: RemoveUser is not called on the handler.
DelUsersForgetsHandler(us) ==
    /\ handler.reg
    /\ uidMap' = uidMap \ us
    /\ UNCHANGED <<handler, regUsers>>

DelUsersOk(us) ==
    /\ handler.reg
    /\ regUsers' = regUsers \ us
    /\ uidMap' = uidMap \ us
    /\ UNCHANGED handler

DelUsersErr ==
    /\ ~handler.reg
    /\ UNCHANGED coreVars

-----------------------------------------------------------------------------
(* Controller.Start: fetch the users, add the limiter, the node, the users. *)

StartFetch ==
    /\ life = "new"
    /\ \/ /\ NoFault
          /\ userList' = panel.users
          /\ limInfo' = panel.users
          /\ life' = "addNode"
       \/ /\ Fault("api")
          /\ life' = "failed"
          /\ UNCHANGED <<userList, limInfo>>
    /\ UNCHANGED <<panelVars, info, reconcileCounter, portFailCount, coreVars, cycleVars>>

StartAddNode ==
    /\ life = "addNode"
    /\ \/ AddNodeOk(info) /\ life' = "addUsers"
       \/ AddNodeErr(info) /\ life' = "failed"
    /\ UNCHANGED <<panelVars, info, userList, reconcileCounter, portFailCount,
                   limInfo, cycleVars>>

StartAddUsers ==
    /\ life = "addUsers"
    /\ \/ /\ Present(userList) = {}
          /\ life' = "running"
          /\ UNCHANGED <<coreVars, faults>>
       \/ /\ Present(userList) # {}
          /\ \/ AddUsersOk(Present(userList)) /\ life' = "running"
             \/ AddUsersErr(Present(userList)) /\ life' = "failed"
    /\ UNCHANGED <<panelVars, info, userList, reconcileCounter, portFailCount,
                   limInfo, cycleVars>>

-----------------------------------------------------------------------------
(* nodeInfoMonitor, one cycle.                                              *)

Goto(c, l) == pc' = [pc EXCEPT ![c] = l]

\* Only the compared fields decide whether the inbound is rebuilt.
nodeNeedsRebuild(old, new) == old.port # new.port \/ old.key # new.key

\* compareUserList: users are matched by uuid.
compareUserList(old, new) ==
    [deleted  |-> Present(old) \ Present(new),
     added    |-> Present(new) \ Present(old),
     modified |-> {u \in Present(old) \cap Present(new) : old[u] # new[u]}]

\* Mutant: the limits of a user already known are not refreshed.
UpdateUserKeepsLimits(lims, added, deleted, modified, list) ==
    [u \in Users |->
        IF u \in added THEN list[u] ELSE IF u \in deleted THEN None ELSE lims[u]]

\* Limiter.UpdateUser on UserLimitInfo: deletions, then modifications of the
\* entries that exist, then additions.
UpdateUser(lims, added, deleted, modified, list) ==
    [u \in Users |->
        IF u \in added THEN list[u]
        ELSE IF u \in deleted THEN None
        ELSE IF u \in modified /\ lims[u] # None THEN list[u]
        ELSE lims[u]]

GetNodeInfo(c) ==
    /\ life = "running"
    /\ pc[c] = "idle"
    /\ \/ /\ NoFault
          /\ newN' = [newN EXCEPT ![c] = panel.cfg]
          /\ IF nodeNeedsRebuild(info, panel.cfg)
             THEN Goto(c, "delNode") /\ UNCHANGED info
             ELSE Goto(c, "getUserList") /\ info' = panel.cfg
       \/ /\ Fault("api")
          /\ UNCHANGED <<pc, newN, info>>
    /\ UNCHANGED <<panelVars, life, userList, reconcileCounter, portFailCount,
                   limInfo, coreVars, newU, diff>>

RebuildDelNode(c) ==
    /\ pc[c] = "delNode"
    /\ \/ DelNodeOk /\ Goto(c, "addNode")
       \/ DelNodeErr /\ Goto(c, "idle")
    /\ UNCHANGED <<panelVars, ctlVars, newN, newU, diff, faults>>

RebuildAddNode(c) ==
    /\ pc[c] = "addNode"
    /\ \/ AddNodeOk(newN[c]) /\ Goto(c, "reAddUsers")
       \/ AddNodeErr(newN[c]) /\ Goto(c, "idle")
    /\ UNCHANGED <<panelVars, ctlVars, newN, newU, diff>>

\* Mutant: c.info is not updated after a successful rebuild.
RebuildForgetsInfo(c) ==
    /\ pc[c] = "reAddUsers"
    /\ \/ Present(userList) = {} /\ UNCHANGED <<coreVars, faults>>
       \/ Present(userList) # {} /\ AddUsersOk(Present(userList))
    /\ Goto(c, "getUserList")
    /\ UNCHANGED <<panelVars, ctlVars, newN, newU, diff>>

RebuildReAddUsers(c) ==
    /\ pc[c] = "reAddUsers"
    /\ \/ /\ Present(userList) = {}
          /\ UNCHANGED <<coreVars, faults>>
          /\ info' = newN[c] /\ Goto(c, "getUserList")
       \/ /\ Present(userList) # {}
          /\ AddUsersOk(Present(userList))
          /\ info' = newN[c] /\ Goto(c, "getUserList")
       \/ /\ Present(userList) # {}
          /\ AddUsersErr(Present(userList))
          /\ UNCHANGED info /\ Goto(c, "idle")
    /\ UNCHANGED <<panelVars, life, userList, reconcileCounter, portFailCount,
                   limInfo, newN, newU, diff>>

\* GetUserList always returns the full list; GetUserAlive never fails.
GetUserList(c) ==
    /\ pc[c] = "getUserList"
    /\ \/ /\ NoFault
          /\ newU' = [newU EXCEPT ![c] = panel.users]
          /\ Goto(c, "sync")
       \/ /\ Fault("api")
          /\ Goto(c, "idle")
          /\ UNCHANGED newU
    /\ UNCHANGED <<panelVars, ctlVars, coreVars, newN, diff>>

\* Mutant: an empty list is applied like any other.
NeverSkipEmpty(c) == FALSE

\* An empty answer while users are being served is not applied.
SkipEmpty(c) == Present(newU[c]) = {} /\ Present(userList) # {}

\* Mutant: deletions are left out of a cycle that also adds users.
SyncAddsInsteadOfDeleting(c) ==
    /\ pc[c] = "sync"
    /\ ~SkipEmpty(c)
    /\ diff' = [diff EXCEPT ![c] = compareUserList(userList, newU[c])]
    /\ Goto(c, IF diff'[c].added # {} THEN "addUsers"
               ELSE IF diff'[c].deleted # {} THEN "delUsers" ELSE "updateUser")
    /\ UNCHANGED <<panelVars, ctlVars, coreVars, newN, newU, faults>>

Sync(c) ==
    /\ pc[c] = "sync"
    /\ \/ /\ SkipEmpty(c)
          /\ Goto(c, "reconcile")
          /\ UNCHANGED diff
       \/ /\ ~SkipEmpty(c)
          /\ diff' = [diff EXCEPT ![c] = compareUserList(userList, newU[c])]
          /\ Goto(c, IF diff'[c].deleted # {} THEN "delUsers"
                     ELSE IF diff'[c].added # {} THEN "addUsers" ELSE "updateUser")
    /\ UNCHANGED <<panelVars, ctlVars, coreVars, newN, newU, faults>>

SyncDelUsers(c) ==
    /\ pc[c] = "delUsers"
    /\ \/ /\ DelUsersOk(diff[c].deleted)
          /\ Goto(c, IF diff[c].added # {} THEN "addUsers" ELSE "updateUser")
       \/ DelUsersErr /\ Goto(c, "idle")
    /\ UNCHANGED <<panelVars, ctlVars, newN, newU, diff, faults>>

SyncAddUsers(c) ==
    /\ pc[c] = "addUsers"
    /\ \/ AddUsersOk(diff[c].added) /\ Goto(c, "updateUser")
       \/ AddUsersErr(diff[c].added) /\ Goto(c, "idle")
    /\ UNCHANGED <<panelVars, ctlVars, newN, newU, diff>>

SyncCommit(c) ==
    /\ pc[c] = "updateUser"
    /\ limInfo' = UpdateUser(limInfo, diff[c].added, diff[c].deleted,
                             diff[c].modified, newU[c])
    /\ userList' = newU[c]
    /\ Goto(c, "reconcile")
    /\ UNCHANGED <<panelVars, life, info, reconcileCounter, portFailCount,
                   coreVars, newN, newU, diff, faults>>

\* reconcileUsers compares the list with GetUserUUIDs, that is with uidMap;
\* errors of the core are logged only.
reconcileUsers ==
    LET missing == Present(userList) \ uidMap
        extra   == uidMap \ Present(userList)
    IN  /\ limInfo' = UpdateUser(limInfo, missing, extra, {}, userList)
        /\ uidMap' = IF handler.reg THEN Present(userList) ELSE uidMap \cup missing
        /\ IF handler.reg
           THEN /\ \/ /\ regUsers' = (regUsers \ extra) \cup (missing \ Keyless)
                      /\ handler' = [handler EXCEPT
                            !.ln = IF Lazy /\ @ = "none" /\ missing # {} /\ regUsers' # {}
                                   THEN "open" ELSE @]
                      /\ NoFault
                   \/ /\ Lazy /\ handler.ln = "none" /\ missing # {}
                      /\ regUsers' = (regUsers \ extra) \cup (missing \ Keyless) /\ regUsers' # {}
                      /\ UNCHANGED handler
                      /\ Fault("listen")
                   \/ /\ ~Lazy
                      /\ \E u \in missing \ regUsers :
                            regUsers' = (regUsers \ extra) \cup (missing \ {u})
                      /\ UNCHANGED handler
                      /\ Fault("skip")
           ELSE UNCHANGED <<handler, regUsers, faults>>

Reconcile(c) ==
    /\ pc[c] = "reconcile"
    /\ Goto(c, "portCheck")
    /\ \/ /\ reconcileCounter + 1 < userReconcileEvery
          /\ reconcileCounter' = reconcileCounter + 1
          /\ UNCHANGED <<limInfo, coreVars, faults>>
       \/ /\ reconcileCounter + 1 >= userReconcileEvery
          /\ reconcileCounter' = 0
          /\ reconcileUsers
    /\ UNCHANGED <<panelVars, life, info, userList, portFailCount, newN, newU, diff>>

\* The bind probe: the port of c.info is held iff our listener is open on it;
\* any other error of the probe also counts as held.
portBound == handler.reg /\ handler.ln = "open" /\ handler.cfg.port = info.port

\* Mutant: misses are not accumulated, so two in a row are never seen.
PortCheckForgetsMiss(c) ==
    /\ pc[c] = "portCheck"
    /\ portFailCount' = 0
    /\ Goto(c, "idle")
    /\ UNCHANGED <<panelVars, life, info, userList, reconcileCounter, limInfo,
                   coreVars, newN, newU, diff, faults>>

PortCheck(c) ==
    /\ pc[c] = "portCheck"
    /\ \/ /\ Present(userList) = {}
          /\ Goto(c, "idle")
          /\ UNCHANGED <<portFailCount, faults>>
       \/ /\ Present(userList) # {}
          /\ (portBound /\ NoFault) \/ (~portBound /\ Fault("probe"))
          /\ portFailCount' = 0
          /\ Goto(c, "idle")
       \/ /\ Present(userList) # {}
          /\ ~portBound /\ NoFault
          /\ portFailCount' = portFailCount + 1
          /\ Goto(c, IF portFailCount' < 2 THEN "idle" ELSE "portDelNode")
    /\ UNCHANGED <<panelVars, life, info, userList, reconcileCounter, limInfo,
                   coreVars, newN, newU, diff>>

PortDelNode(c) ==
    /\ pc[c] = "portDelNode"
    /\ DelNodeOk \/ DelNodeErr
    /\ Goto(c, "portAddNode")
    /\ UNCHANGED <<panelVars, ctlVars, newN, newU, diff, faults>>

PortAddNode(c) ==
    /\ pc[c] = "portAddNode"
    /\ \/ /\ AddNodeOk(info)
          /\ Goto(c, "portReAddUsers")
          /\ UNCHANGED portFailCount
       \/ /\ AddNodeErr(info)
          /\ portFailCount' = 0
          /\ Goto(c, "idle")
    /\ UNCHANGED <<panelVars, life, info, userList, reconcileCounter, limInfo,
                   newN, newU, diff>>

PortReAddUsers(c) ==
    /\ pc[c] = "portReAddUsers"
    /\ \/ Present(userList) # {} /\ (AddUsersOk(Present(userList)) \/ AddUsersErr(Present(userList)))
       \/ Present(userList) = {} /\ UNCHANGED <<coreVars, faults>>
    /\ portFailCount' = 0
    /\ Goto(c, "idle")
    /\ UNCHANGED <<panelVars, life, info, userList, reconcileCounter, limInfo,
                   newN, newU, diff>>

-----------------------------------------------------------------------------
(* The environment.                                                         *)

PanelChange ==
    /\ changes > 0
    /\ changes' = changes - 1
    /\ \E cfg \in Cfgs, us \in UserLists : panel' = [cfg |-> cfg, users |-> us]
    /\ panel' # panel
    /\ UNCHANGED <<ctlVars, coreVars, cycleVars, faults>>

\* Our own listener silently goes away.
ListenerDies ==
    /\ handler.reg /\ handler.ln = "open"
    /\ Fault("die")
    /\ handler' = [handler EXCEPT !.ln = "dead"]
    /\ UNCHANGED <<panelVars, ctlVars, regUsers, uidMap, cycleVars>>

-----------------------------------------------------------------------------
Init ==
    /\ panel \in [cfg: Cfgs, users: UserLists]
    /\ life = "new"
    /\ info = panel.cfg
    /\ userList = Empty
    /\ reconcileCounter = 0
    /\ portFailCount = 0
    /\ limInfo = Empty
    /\ handler = [reg |-> FALSE, ln |-> "none", cfg |-> panel.cfg]
    /\ regUsers = {}
    /\ uidMap = {}
    /\ pc = [c \in Cycles |-> "idle"]
    /\ newN = [c \in Cycles |-> panel.cfg]
    /\ newU = [c \in Cycles |-> Empty]
    /\ diff = [c \in Cycles |-> NoDiff]
    /\ faults = MaxFaults
    /\ changes = MaxChanges

Start == StartFetch \/ StartAddNode \/ StartAddUsers

nodeInfoMonitor(c) ==
    \/ GetNodeInfo(c)
    \/ RebuildDelNode(c) \/ RebuildAddNode(c) \/ RebuildReAddUsers(c)
    \/ GetUserList(c)
    \/ Sync(c) \/ SyncDelUsers(c) \/ SyncAddUsers(c) \/ SyncCommit(c)
    \/ Reconcile(c)
    \/ PortCheck(c) \/ PortDelNode(c) \/ PortAddNode(c) \/ PortReAddUsers(c)

Next ==
    \/ Start
    \/ \E c \in Cycles : nodeInfoMonitor(c)
    \/ PanelChange
    \/ ListenerDies

Spec == Init /\ [][Next]_vars

\* The periodic task keeps running cycles and a cycle keeps going (every call
\* it makes is bounded by a timeout); the panel and failures owe nothing.
Fairness == WF_vars(Start) /\ \A c \in Cycles : WF_vars(nodeInfoMonitor(c))
FairSpec == Spec /\ Fairness

-----------------------------------------------------------------------------
(* Properties.                                                              *)

Idle == \A c \in Cycles : pc[c] = "idle"

\* The limiter knows exactly the users of c.userList, each with the limits the
\* list gives it, through every partial failure of a cycle: CheckLimit rejects a
\* user without entry and enforces whatever limits the entry carries.
LimiterMirrorsUserList == limInfo = userList

\* Whoever the handler authenticates is in uidMap, so the report task can turn
\* the traffic into a UID (GetUserTrafficSlice drops the counters of others).
RegisteredIsAccounted == regUsers \subseteq uidMap

\* Between cycles the handler authenticates nobody outside the list that was
\* last applied: no error path leaves a removed user, or one whose addition was
\* abandoned, on the node.
OnlyListedUsersServed == Idle => regUsers \subseteq Present(userList)

\* Between cycles a listener that is open serves the configuration c.info
\* records, in every compared field, whatever rebuilds failed before: otherwise
\* nodeNeedsRebuild, which compares with c.info, and the port probe would both stay
\* silent.  (Fields it does not compare may differ: c.info follows the panel alone.)
OpenListenerServesInfo ==
    Idle /\ handler.ln = "open" => ~nodeNeedsRebuild(handler.cfg, info)

\* Between cycles a runner (mieru, snell, ...) whose port is bound belongs to a node
\* with users: nodeInfoMonitor skips the port probe of a node without them because such
\* a node "legitimately holds no listener".  And it lacks none that has a key but those
\* that uidMap lacks too: a cycle that fails between its deletions and its additions may lose
\* a listed user, even the last one, and reconcileUsers, which is to bring it back,
\* looks into uidMap and not into the runner.
BoundRunnerHasUsers ==
    Idle /\ Lazy /\ handler.ln = "open" =>
        Present(userList) # {} /\ (Present(userList) \cap uidMap) \ Keyless \subseteq regUsers

\* The list of served users never drops to nothing at once: an empty answer of
\* the panel is taken for a glitch (the "mass-kick" guard of nodeInfoMonitor).
NoMassKick == [][Present(userList) # {} => Present(userList') # {}]_vars

\* The node serves what the panel says: inbound (in the compared fields), users
\* and limits.
Converged ==
    /\ info = panel.cfg
    /\ portBound
    /\ ~nodeNeedsRebuild(handler.cfg, panel.cfg)
    /\ userList = panel.users
    /\ regUsers = Present(panel.users) \ Keyless
    /\ limInfo = panel.users

\* Once the panel's data is stable and failures stop, a running node settles on
\* it for good (a user list that is empty is deliberately not followed; and for users
\* who all lack a key a runner binds no port, which the port probe takes for a listener
\* that died, and rebuilds for ever).
Converges == <>[](life = "running" => Present(panel.users) \subseteq Keyless \/ Converged)

\* A rebuild that failed is retried: nodeInfoMonitor says of a failed AddNode
\* "next cycle retries automatically", so an inbound that is gone comes back.
FailedRebuildRetried ==
    []<>(life = "running" /\ Present(userList) # {} => handler.reg)
=============================================================================

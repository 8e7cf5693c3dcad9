----------------------------- MODULE DeviceLimit -----------------------------
(***************************************************************************)
(* The device side of a node's limiter (limiter/limiter.go): the           *)
(* connections' CheckLimit, the report task's GetOnlineDevice and the      *)
(* monitor's UpdateUser and UpdateAliveList, which share UserOnlineIP (per *)
(* user, the set of source addresses seen in this report period),          *)
(* OldUserOnline (address -> user of the previous period) and AliveList    *)
(* (the panel's device count) without a common lock.                       *)
(*                                                                         *)
(* One step is one operation on a sync.Map.  The per-user sets are heap    *)
(* objects: a connection may hold one that has left UserOnlineIP.          *)
(***************************************************************************)
EXTENDS LimiterNames, Naturals, FiniteSets

CONSTANTS
    Ips,        \* source addresses
    MaxLimit,   \* device limits are 0 .. MaxLimit, 0 meaning unlimited
    MaxAlive,   \* device counts the panel may send
    MaxUpdates  \* how many times the monitor may update the limiter

ASSUME BoundsAssumption ==
    /\ MaxLimit \in Nat /\ MaxAlive \in Nat /\ MaxUpdates \in Nat
    /\ IsFiniteSet(Users) /\ IsFiniteSet(Conns)

VARIABLES
    devLimit,       \* UserLimitInfo: the device limit of a known user, or None
    AliveList,      \* the panel's device counts
    UserOnlineIP,   \* user -> the object that holds its addresses, or None
    ipMap,          \* contents of the objects
    OldUserOnline,  \* address -> user, or None
    pc, conn,       \* where each CheckLimit is, and its locals
    rpc, todo, newOld,  \* GetOnlineDevice: where it is, keys left, map it builds
    accepted,       \* history: devices CheckLimit ever let in
    current, previous,  \* history: devices let in during this period / the one before
    updates,
    overlap     \* do calls, reports and deletions overlap, or run one at a time?

limVars  == <<devLimit, AliveList, updates, overlap>>
mapVars  == <<UserOnlineIP, ipMap, OldUserOnline>>
connVars == <<pc, conn>>
repVars  == <<rpc, todo, newOld>>
history  == <<accepted, current, previous>>
vars     == <<limVars, mapVars, connVars, repVars, history>>

\* Enough objects: those in UserOnlineIP and those held by connections.
MapIds == 1 .. Cardinality(Users) + Cardinality(Conns)

ASSUME NoneAssumption == None \notin Users \cup MapIds \cup (0 .. MaxLimit)

Devices == Users \X Ips
NoOld   == [ip \in Ips |-> None]

Locals == [user: Users \cup {None}, ip: Ips \cup {None}, limit: 0 .. MaxLimit,
           alive: 0 .. MaxAlive, map: MapIds \cup {None}]
NoLocals == [user |-> None, ip |-> None, limit |-> 0, alive |-> 0, map |-> None]

TypeOK ==
    /\ devLimit \in [Users -> (0 .. MaxLimit) \cup {None}]
    /\ AliveList \in [Users -> 0 .. MaxAlive]
    /\ UserOnlineIP \in [Users -> MapIds \cup {None}]
    /\ ipMap \in [MapIds -> SUBSET Ips]
    /\ OldUserOnline \in [Ips -> Users \cup {None}]
    /\ pc \in [Conns -> {"idle", "load", "store", "oldFirst", "rejectFirst", "delOld",
                         "inMap", "oldNext", "rejectNext"}]
    /\ conn \in [Conns -> Locals]
    /\ rpc \in {"idle", "range", "clear"}
    /\ todo \in SUBSET Users
    /\ newOld \in [Ips -> Users \cup {None}]
    /\ accepted \in SUBSET Devices
    /\ current \in SUBSET Devices
    /\ previous \in SUBSET Devices
    /\ updates \in Nat /\ overlap \in BOOLEAN

-----------------------------------------------------------------------------
(* CheckLimit.                                                              *)

InFlight == {c \in Conns : pc[c] # "idle"}
Goto(c, l) == pc' = [pc EXCEPT ![c] = l]
Device(c)  == <<conn[c].user, conn[c].ip>>

\* Return of CheckLimit.
Accept(c) ==
    /\ Goto(c, "idle")
    /\ conn' = [conn EXCEPT ![c] = NoLocals]
    /\ accepted' = accepted \cup {Device(c)}
    /\ current' = current \cup {Device(c)}
    /\ UNCHANGED previous

Reject(c) ==
    /\ Goto(c, "idle")
    /\ conn' = [conn EXCEPT ![c] = NoLocals]
    /\ UNCHANGED history

\* The user's limits are read; a user without entry is rejected at once.
CheckLimit(c, u, ip) ==
    /\ pc[c] = "idle"
    /\ overlap \/ (rpc = "idle" /\ InFlight = {})
    /\ devLimit[u] # None
    /\ conn' = [conn EXCEPT ![c] = [NoLocals EXCEPT !.user = u, !.ip = ip,
                                                    !.limit = devLimit[u]]]
    /\ Goto(c, "load")
    /\ UNCHANGED <<limVars, mapVars, repVars, history>>

\* getAliveIp and the fast path: an address set of this period is reused.
LoadOnline(c) ==
    /\ pc[c] = "load"
    /\ conn' = [conn EXCEPT ![c].alive = AliveList[conn[c].user],
                            ![c].map = UserOnlineIP[conn[c].user]]
    /\ Goto(c, IF UserOnlineIP[conn[c].user] = None THEN "store" ELSE "inMap")
    /\ UNCHANGED <<limVars, mapVars, repVars, history>>

Free(m) == (\A u \in Users : UserOnlineIP[u] # m) /\ (\A c \in Conns : conn[c].map # m)

\* LoadOrStore of a fresh set that already holds the address.
LoadOrStoreMap(c) ==
    LET u == conn[c].user IN
    /\ pc[c] = "store"
    /\ \/ /\ UserOnlineIP[u] # None
          /\ conn' = [conn EXCEPT ![c].map = UserOnlineIP[u]]
          /\ Goto(c, "inMap")
          /\ UNCHANGED mapVars
       \/ /\ UserOnlineIP[u] = None
          /\ \E m \in MapIds :
                /\ Free(m)
                /\ \A k \in MapIds : Free(k) => m <= k
                /\ UserOnlineIP' = [UserOnlineIP EXCEPT ![u] = m]
                /\ ipMap' = [ipMap EXCEPT ![m] = {conn[c].ip}]
                /\ conn' = [conn EXCEPT ![c].map = m]
          /\ Goto(c, "oldFirst")
          /\ UNCHANGED OldUserOnline
    /\ UNCHANGED <<limVars, repVars, history>>

\* An address of the previous period is let in (and moved, when it is the same
\* user's); any other counts against the panel's number of devices.
OverLimit(c) == conn[c].limit > 0 /\ conn[c].limit <= conn[c].alive

LookupOld(c, reject) ==
    LET owner == OldUserOnline[conn[c].ip] IN
    \/ /\ owner = conn[c].user
       /\ Goto(c, "delOld")
       /\ UNCHANGED <<conn, history>>
    \/ /\ owner = None /\ OverLimit(c)
       /\ Goto(c, reject)
       /\ UNCHANGED <<conn, history>>
    \/ /\ owner # conn[c].user
       /\ owner # None \/ ~OverLimit(c)
       /\ Accept(c)

OldFirst(c) ==
    /\ pc[c] = "oldFirst"
    /\ LookupOld(c, "rejectFirst")
    /\ UNCHANGED <<limVars, mapVars, repVars>>

DeleteOld(c) ==
    /\ pc[c] = "delOld"
    /\ OldUserOnline' = [OldUserOnline EXCEPT ![conn[c].ip] = None]
    /\ Accept(c)
    /\ UNCHANGED <<limVars, UserOnlineIP, ipMap, repVars>>

\* The whole entry of the user is dropped, whoever put it there.
RejectFirst(c) ==
    /\ pc[c] = "rejectFirst"
    /\ UserOnlineIP' = [UserOnlineIP EXCEPT ![conn[c].user] = None]
    /\ Reject(c)
    /\ UNCHANGED <<limVars, ipMap, OldUserOnline, repVars>>

\* LoadOrStore of the address in the user's set.
LoadOrStoreIp(c) ==
    /\ pc[c] = "inMap"
    /\ \/ /\ conn[c].ip \in ipMap[conn[c].map]
          /\ Accept(c)
          /\ UNCHANGED ipMap
       \/ /\ conn[c].ip \notin ipMap[conn[c].map]
          /\ ipMap' = [ipMap EXCEPT ![conn[c].map] = @ \cup {conn[c].ip}]
          /\ Goto(c, "oldNext")
          /\ UNCHANGED <<conn, history>>
    /\ UNCHANGED <<limVars, UserOnlineIP, OldUserOnline, repVars>>

OldNext(c) ==
    /\ pc[c] = "oldNext"
    /\ LookupOld(c, "rejectNext")
    /\ UNCHANGED <<limVars, mapVars, repVars>>

\* Mutant: the refused address stays in the set.
RejectKeepsIp(c) ==
    /\ pc[c] = "rejectNext"
    /\ Reject(c)
    /\ UNCHANGED <<limVars, mapVars, repVars>>

RejectNext(c) ==
    /\ pc[c] = "rejectNext"
    /\ ipMap' = [ipMap EXCEPT ![conn[c].map] = @ \ {conn[c].ip}]
    /\ Reject(c)
    /\ UNCHANGED <<limVars, UserOnlineIP, OldUserOnline, repVars>>

-----------------------------------------------------------------------------
(* GetOnlineDevice, run by the report task.                                 *)

GetOnlineDevice ==
    /\ rpc = "idle"
    /\ overlap \/ InFlight = {}
    /\ rpc' = "range"
    /\ todo' = Users
    /\ newOld' = NoOld
    /\ UNCHANGED <<limVars, mapVars, connVars, history>>

\* First Range: collect the addresses of one more user.
RangeUser(u) ==
    /\ rpc = "range" /\ u \in todo
    /\ todo' = todo \ {u}
    /\ newOld' = [ip \in Ips |->
            IF UserOnlineIP[u] # None /\ ip \in ipMap[UserOnlineIP[u]] THEN u ELSE newOld[ip]]
    /\ UNCHANGED <<limVars, mapVars, connVars, rpc, history>>

\* Mutant: the map of the previous period is never replaced.
SwapForgotten ==
    /\ rpc = "range" /\ todo = {}
    /\ rpc' = "clear"
    /\ todo' = Users
    /\ previous' = current
    /\ current' = {}
    /\ UNCHANGED <<limVars, mapVars, newOld, connVars, accepted>>

SwapOld ==
    /\ rpc = "range" /\ todo = {}
    /\ OldUserOnline' = newOld
    /\ rpc' = "clear"
    /\ todo' = Users
    /\ previous' = current
    /\ current' = {}
    /\ UNCHANGED <<limVars, UserOnlineIP, ipMap, newOld, connVars, accepted>>

\* Second Range: drop one more user's set; the last one ends the report.
ClearUser(u) ==
    /\ rpc = "clear" /\ u \in todo
    /\ UserOnlineIP' = [UserOnlineIP EXCEPT ![u] = None]
    /\ todo' = todo \ {u}
    /\ rpc' = IF todo' = {} THEN "idle" ELSE rpc
    /\ newOld' = IF todo' = {} THEN NoOld ELSE newOld
    /\ UNCHANGED <<limVars, ipMap, OldUserOnline, connVars, history>>

-----------------------------------------------------------------------------
(* The monitor task.                                                        *)

\* UpdateUser with one deleted user, its map operations as one step.  The history
\* forgets the user too: what it connected before says nothing about it afterwards.
UpdateUserDeleted(u) ==
    /\ updates > 0 /\ updates' = updates - 1
    /\ overlap \/ InFlight = {}
    /\ devLimit[u] # None
    /\ devLimit' = [devLimit EXCEPT ![u] = None]
    /\ UserOnlineIP' = [UserOnlineIP EXCEPT ![u] = None]
    /\ AliveList' = [AliveList EXCEPT ![u] = 0]
    /\ current' = {d \in current : d[1] # u}
    /\ previous' = {d \in previous : d[1] # u}
    /\ UNCHANGED <<ipMap, OldUserOnline, connVars, repVars, accepted, overlap>>

\* UpdateUser with one added or modified user.
UpdateUserLimit(u, limit) ==
    /\ updates > 0 /\ updates' = updates - 1
    /\ devLimit[u] # limit
    /\ devLimit' = [devLimit EXCEPT ![u] = limit]
    /\ UNCHANGED <<AliveList, mapVars, connVars, repVars, history, overlap>>

UpdateAliveList(alive) ==
    /\ updates > 0 /\ updates' = updates - 1
    /\ alive # AliveList
    /\ AliveList' = alive
    /\ UNCHANGED <<devLimit, mapVars, connVars, repVars, history, overlap>>

-----------------------------------------------------------------------------
\* AddLimiter: every user has its limit, the panel's counts are loaded.
Init ==
    /\ devLimit \in [Users -> 0 .. MaxLimit]
    /\ AliveList \in [Users -> 0 .. MaxAlive]
    /\ UserOnlineIP = [u \in Users |-> None]
    /\ ipMap = [m \in MapIds |-> {}]
    /\ OldUserOnline = NoOld
    /\ pc = [c \in Conns |-> "idle"]
    /\ conn = [c \in Conns |-> NoLocals]
    /\ rpc = "idle" /\ todo = {} /\ newOld = NoOld
    /\ accepted = {} /\ current = {} /\ previous = {}
    /\ updates = MaxUpdates
    /\ overlap \in BOOLEAN

CheckLimitStep(c) ==
    \/ \E u \in Users, ip \in Ips : CheckLimit(c, u, ip)
    \/ LoadOnline(c) \/ LoadOrStoreMap(c)
    \/ OldFirst(c) \/ RejectFirst(c)
    \/ LoadOrStoreIp(c) \/ OldNext(c) \/ RejectNext(c)
    \/ DeleteOld(c)

Report == GetOnlineDevice \/ SwapOld \/ \E u \in Users : RangeUser(u) \/ ClearUser(u)

Monitor ==
    \/ \E u \in Users : UpdateUserDeleted(u) \/ \E l \in 0 .. MaxLimit : UpdateUserLimit(u, l)
    \/ \E alive \in [Users -> 0 .. MaxAlive] : UpdateAliveList(alive)

Next == (\E c \in Conns : CheckLimitStep(c)) \/ Report \/ Monitor

Spec == Init /\ [][Next]_vars

-----------------------------------------------------------------------------
(* Properties.                                                              *)

\* A connection that has put its address in a set and not decided yet.
Tentative(u, m, ip) ==
    \E c \in Conns : /\ pc[c] \in {"oldFirst", "rejectFirst", "delOld", "oldNext", "rejectNext"}
                     /\ conn[c].user = u /\ conn[c].map = m /\ conn[c].ip = ip

\* No address of a refused device is left in UserOnlineIP: each one belongs to a
\* device that was let in or to a CheckLimit still in progress.  Otherwise the
\* device would be reported to the panel as online and let in next time.
OnlineIsJustified ==
    \A u \in Users : UserOnlineIP[u] # None =>
        \A ip \in ipMap[UserOnlineIP[u]] :
            <<u, ip>> \in accepted \/ Tentative(u, UserOnlineIP[u], ip)

\* Another user was let in from the address: OldUserOnline has one owner per address.
SharedAddress(u, ip) == \E v \in Users \ {u} : <<v, ip>> \in accepted

\* Of calls that do not overlap, none refuses a device that was let in during this
\* report period or the previous one, unless some other user came from its address:
\* OldUserOnline has one user per address, and that one's return deletes the entry.
\* (GetOnlineDevice is written so that "CheckLimit will always find the IP in
\* OldUserOnline even if UserOnlineIP was just cleared".  Overlapping calls may refuse
\* one: an address that is stored after GetOnlineDevice's first Range and before the
\* clearing one is in neither map.)
NoSpuriousReject ==
    ~overlap => \A c \in Conns : pc[c] \in {"rejectFirst", "rejectNext"} =>
        Device(c) \notin current \cup previous \/ SharedAddress(conn[c].user, conn[c].ip)
=============================================================================

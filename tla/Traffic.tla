------------------------------- MODULE Traffic -------------------------------
(***************************************************************************)
(* Traffic accounting of one node: the dispatcher attaches a counter to    *)
(* every connection (core/app/dispatcher/default.go, common/counter), the  *)
(* report task collects, prunes and sends (core/user.go, node/user.go),    *)
(* and the monitor removes users and rebuilds the node under both.         *)
(*                                                                         *)
(* One step is one operation on a sync.Map or an atomic counter.  Upload   *)
(* and download are one amount; a TrafficCounter and a TrafficStorage are  *)
(* named after the connection that allocated them, which may keep using    *)
(* one that is no longer in any map.                                       *)
(***************************************************************************)
EXTENDS Naturals, FiniteSets

CONSTANTS
    Users,          \* user tags; a user stands for its UID as well
    Conns,          \* connections, each opened at most once
    NoCounter,
    MaxBytes,       \* amount each user may transfer
    MinTraffic,     \* NodeReportMinTraffic, in the same unit
    MaxDeletes,     \* how often a user is removed
    MaxRebuilds,    \* how often the node is rebuilt
    MaxLostReports       \* how many reports fail

ASSUME TrafficNone == NoCounter \notin Conns \cup Users
ASSUME TrafficBounds ==
    /\ MaxBytes \in Nat /\ MinTraffic \in Nat /\ MaxDeletes \in Nat
    /\ MaxRebuilds \in Nat /\ MaxLostReports \in Nat
    /\ IsFiniteSet(Conns)

VARIABLES
    Counter,        \* dispatcher.Counter of the tag: a TrafficCounter or NoCounter
    Counters,       \* TrafficCounter -> user -> TrafficStorage or NoCounter
    value,          \* TrafficStorage -> amount counted and not collected
    uidMap,
    linkPc, conn,       \* each connection: progress and its locals
    rpc, rc, uncollected, ru, amount, slice,   \* the report task and its locals
    mpc, mu,        \* the monitor: progress of DelUsers, and its user
    counted, billed,    \* history: amount per user transferred / received by the panel
    received,       \* the panel has the push that is being tried (again)
    repeated,       \* history: amount per user received once more by a retry
    excused,        \* history: users whose traffic may legitimately get lost
    deletes, rebuilds, lostReports

counterVars == <<Counter, Counters, value>>
connVars    == <<linkPc, conn, counted>>
billVars    == <<billed, repeated, received>>
reportVars  == <<rpc, rc, uncollected, ru, amount, slice, billVars>>
monVars     == <<uidMap, mpc, mu, deletes, rebuilds>>
trafficVars == <<counterVars, connVars, reportVars, monVars, excused, lostReports>>

NoLocals == [user |-> NoCounter, tc |-> NoCounter, ts |-> NoCounter]
NoSlice  == [u \in Users |-> 0]

TrafficTypeOK ==
    /\ Counter \in Conns \cup {NoCounter}
    /\ Counters \in [Conns -> [Users -> Conns \cup {NoCounter}]]
    /\ value \in [Conns -> 0 .. MaxBytes]
    /\ uidMap \subseteq Users
    /\ linkPc \in [Conns -> {"new", "load", "store", "get", "loadOrStore", "open", "closed"}]
    /\ conn \in [Conns -> [user: Users \cup {NoCounter}, tc: Conns \cup {NoCounter},
                           ts: Conns \cup {NoCounter}]]
    /\ rpc \in {"idle", "range", "judge", "prune", "send"}
    /\ rc \in Conns \cup {NoCounter} /\ uncollected \subseteq Users /\ ru \in Users \cup {NoCounter}
    /\ amount \in 0 .. MaxBytes
    /\ slice \in [Users -> 0 .. MaxBytes]
    /\ mpc \in {"idle", "counter"} /\ mu \in Users \cup {NoCounter}
    /\ counted \in [Users -> 0 .. MaxBytes] /\ received \in BOOLEAN
    /\ {billed, repeated} \subseteq [Users -> 0 .. (MaxLostReports + 1) * MaxBytes]
    /\ excused \subseteq Users
    /\ deletes \in Nat /\ rebuilds \in Nat /\ lostReports \in Nat

-----------------------------------------------------------------------------
(* A connection: getLink, then data.                                        *)

Goto(c, l) == linkPc' = [linkPc EXCEPT ![c] = l]

\* An authenticated user that CheckLimit let in.
OpenLink(c, u) ==
    /\ linkPc[c] = "new" /\ u \in uidMap
    /\ conn' = [conn EXCEPT ![c].user = u]
    /\ Goto(c, "load")
    /\ UNCHANGED <<counterVars, counted, reportVars, monVars, excused, lostReports>>

\* d.Counter.Load(tag)
LoadCounter(c) ==
    /\ linkPc[c] = "load"
    /\ IF Counter = NoCounter
       THEN Goto(c, "store") /\ UNCHANGED conn
       ELSE Goto(c, "get") /\ conn' = [conn EXCEPT ![c].tc = Counter]
    /\ UNCHANGED <<counterVars, counted, reportVars, monVars, excused, lostReports>>

\* A new TrafficCounter replaces whatever another connection stored meanwhile.
StoreCounter(c) ==
    /\ linkPc[c] = "store"
    /\ Counter' = c
    /\ conn' = [conn EXCEPT ![c].tc = c]
    /\ Goto(c, "get")
    /\ UNCHANGED <<Counters, value, counted, reportVars, monVars, excused, lostReports>>

\* TrafficCounter.GetCounter: Load, then LoadOrStore of a new storage.
LoadStorage(c) ==
    LET ts == Counters[conn[c].tc][conn[c].user] IN
    /\ linkPc[c] = "get"
    /\ IF ts = NoCounter
       THEN Goto(c, "loadOrStore") /\ UNCHANGED conn
       ELSE Goto(c, "open") /\ conn' = [conn EXCEPT ![c].ts = ts]
    /\ UNCHANGED <<counterVars, counted, reportVars, monVars, excused, lostReports>>

\* Mutant: Store instead of LoadOrStore.
StoreStorage(c) ==
    /\ linkPc[c] = "loadOrStore"
    /\ Counters' = [Counters EXCEPT ![conn[c].tc][conn[c].user] = c]
    /\ conn' = [conn EXCEPT ![c].ts = c]
    /\ Goto(c, "open")
    /\ UNCHANGED <<Counter, value, counted, reportVars, monVars, excused, lostReports>>

LoadOrStoreStorage(c) ==
    LET ts == Counters[conn[c].tc][conn[c].user] IN
    /\ linkPc[c] = "loadOrStore"
    /\ \/ /\ ts # NoCounter
          /\ conn' = [conn EXCEPT ![c].ts = ts]
          /\ UNCHANGED Counters
       \/ /\ ts = NoCounter
          /\ conn' = [conn EXCEPT ![c].ts = c]
          /\ Counters' = [Counters EXCEPT ![conn[c].tc][conn[c].user] = c]
    /\ Goto(c, "open")
    /\ UNCHANGED <<Counter, value, counted, reportVars, monVars, excused, lostReports>>

\* Data passes the SizeStatWriter or the CounterReader.
Transfer(c) ==
    LET u == conn[c].user IN
    /\ linkPc[c] = "open" /\ counted[u] < MaxBytes
    /\ value' = [value EXCEPT ![conn[c].ts] = @ + 1]
    /\ counted' = [counted EXCEPT ![u] = @ + 1]
    /\ UNCHANGED <<Counter, Counters, linkPc, conn, reportVars, monVars, excused, lostReports>>

LinkCloses(c) ==
    /\ linkPc[c] = "open"
    /\ Goto(c, "closed")
    /\ conn' = [conn EXCEPT ![c] = NoLocals]
    /\ UNCHANGED <<counterVars, counted, reportVars, monVars, excused, lostReports>>

-----------------------------------------------------------------------------
(* reportUserTrafficTask.                                                   *)

GetUserTrafficSlice ==
    /\ rpc = "idle" /\ Counter # NoCounter
    /\ rc' = Counter
    /\ uncollected' = Users
    /\ rpc' = "range"
    /\ UNCHANGED <<counterVars, connVars, ru, amount, slice, billVars, monVars, excused, lostReports>>

\* Mutant: the counter is read but not zeroed.
LoadInsteadOfSwap(u) ==
    LET ts == Counters[rc][u] IN
    /\ rpc = "range" /\ u \in uncollected
    /\ uncollected' = uncollected \ {u}
    /\ IF ts = NoCounter
       THEN UNCHANGED <<rpc, ru, amount>>
       ELSE rpc' = "judge" /\ ru' = u /\ amount' = value[ts]
    /\ UNCHANGED <<counterVars, connVars, rc, slice, billVars, monVars, excused, lostReports>>

\* Range visits one more entry: Swap(0) of its counters.
SwapStorage(u) ==
    LET ts == Counters[rc][u] IN
    /\ rpc = "range" /\ u \in uncollected
    /\ uncollected' = uncollected \ {u}
    /\ IF ts = NoCounter
       THEN UNCHANGED <<rpc, ru, amount, value>>
       ELSE /\ rpc' = "judge" /\ ru' = u /\ amount' = value[ts]
            /\ value' = [value EXCEPT ![ts] = 0]
    /\ UNCHANGED <<Counter, Counters, connVars, rc, slice, billVars, monVars, excused, lostReports>>

\* Mutant: an entry is pruned only if it carried enough traffic.
JudgeByAmount ==
    /\ rpc = "judge"
    /\ IF amount <= MinTraffic
       THEN rpc' = "range" /\ UNCHANGED slice
       ELSE IF ru \in uidMap
       THEN rpc' = "range" /\ slice' = [slice EXCEPT ![ru] = amount]
       ELSE rpc' = "prune" /\ UNCHANGED slice
    /\ excused' = IF amount \in 1 .. MinTraffic THEN excused \cup {ru} ELSE excused
    /\ UNCHANGED <<counterVars, connVars, rc, uncollected, ru, amount, billVars, monVars, lostReports>>

\* An entry without uid is pruned whatever it carried; of the others only those
\* above the minimum are reported, the rest is dropped.
Judge ==
    /\ rpc = "judge"
    /\ \/ /\ ru \notin uidMap
          /\ rpc' = "prune"
          /\ UNCHANGED <<slice, excused>>
       \/ /\ ru \in uidMap
          /\ rpc' = "range"
          /\ slice' = IF amount > MinTraffic THEN [slice EXCEPT ![ru] = amount] ELSE slice
          /\ excused' = IF amount \in 1 .. MinTraffic THEN excused \cup {ru} ELSE excused
    /\ UNCHANGED <<counterVars, connVars, rc, uncollected, ru, amount, billVars, monVars, lostReports>>

PruneCounter ==
    /\ rpc = "prune"
    /\ Counters' = [Counters EXCEPT ![rc][ru] = NoCounter]
    /\ rpc' = "range"
    /\ UNCHANGED <<Counter, value, connVars, rc, uncollected, ru, amount, slice, billVars, monVars,
                   excused, lostReports>>

SliceReady ==
    /\ rpc = "range" /\ uncollected = {}
    /\ rpc' = "send"
    /\ UNCHANGED <<counterVars, connVars, rc, uncollected, ru, amount, slice, billVars, monVars,
                   excused, lostReports>>

PushDone ==
    /\ rpc' = "idle" /\ received' = FALSE
    /\ rc' = NoCounter /\ ru' = NoCounter /\ amount' = 0 /\ slice' = NoSlice
PushRetried(arrived) ==
    /\ received' = (received \/ arrived)
    /\ UNCHANGED <<rpc, rc, ru, amount, slice>>

\* ReportUserTraffic: a push whose answer does not come in time is sent again (the
\* client's SetRetryCount; MaxLostReports does not exceed it), although the panel may have
\* it.  When the call fails for good, or with an error status, that is logged: nothing
\* goes back to the counters.
ReportUserTraffic ==
    /\ rpc = "send"
    /\ \E arrives \in BOOLEAN :
        /\ billed' = [u \in Users |-> billed[u] + IF arrives THEN slice[u] ELSE 0]
        /\ repeated' = [u \in Users |-> repeated[u] + IF arrives /\ received THEN slice[u] ELSE 0]
        /\ \/ arrives /\ PushDone /\ UNCHANGED lostReports
           \/ /\ slice # NoSlice /\ lostReports > 0 /\ lostReports' = lostReports - 1
              /\ PushDone \/ PushRetried(arrives)
    /\ UNCHANGED <<counterVars, connVars, uncollected, monVars, excused>>

-----------------------------------------------------------------------------
(* The monitor.                                                             *)

AddUsers(u) ==
    /\ mpc = "idle" /\ u \notin uidMap
    /\ uidMap' = uidMap \cup {u}
    /\ UNCHANGED <<counterVars, connVars, reportVars, mpc, mu, deletes, rebuilds, excused, lostReports>>

\* DelUsers forgets the uid first and the counter entry afterwards.
DelUsers(u) ==
    /\ mpc = "idle" /\ u \in uidMap
    /\ deletes > 0 /\ deletes' = deletes - 1
    /\ uidMap' = uidMap \ {u}
    /\ mpc' = "counter" /\ mu' = u
    /\ excused' = excused \cup {u}
    /\ UNCHANGED <<counterVars, connVars, reportVars, rebuilds, lostReports>>

DelUserCounter ==
    /\ mpc = "counter"
    /\ Counters' = IF Counter = NoCounter THEN Counters
                   ELSE [Counters EXCEPT ![Counter][mu] = NoCounter]
    /\ mpc' = "idle" /\ mu' = NoCounter
    /\ UNCHANGED <<Counter, value, connVars, reportVars, uidMap, deletes, rebuilds, excused, lostReports>>

\* DelNode of a rebuild ends in cleanupNodeState, which drops the tag's counter.
cleanupNodeState ==
    /\ mpc = "idle"
    /\ rebuilds > 0 /\ rebuilds' = rebuilds - 1
    /\ Counter' = NoCounter
    /\ excused' = excused \cup {u \in Users : \E c \in Conns : conn[c].user = u}
                          \cup {u \in Users : counted[u] + repeated[u] > billed[u]}
    /\ UNCHANGED <<Counters, value, connVars, reportVars, uidMap, mpc, mu, deletes, lostReports>>

-----------------------------------------------------------------------------
TrafficInit ==
    /\ Counter = NoCounter
    /\ Counters = [t \in Conns |-> [u \in Users |-> NoCounter]]
    /\ value = [s \in Conns |-> 0]
    /\ uidMap = Users
    /\ linkPc = [c \in Conns |-> "new"]
    /\ conn = [c \in Conns |-> NoLocals]
    /\ rpc = "idle" /\ rc = NoCounter /\ uncollected = {} /\ ru = NoCounter /\ amount = 0 /\ slice = NoSlice
    /\ mpc = "idle" /\ mu = NoCounter
    /\ counted = NoSlice /\ billed = NoSlice /\ repeated = NoSlice /\ received = FALSE
    /\ excused = {}
    /\ deletes = MaxDeletes /\ rebuilds = MaxRebuilds /\ lostReports = MaxLostReports

getLink(c) ==
    LoadCounter(c) \/ StoreCounter(c) \/ LoadStorage(c) \/ LoadOrStoreStorage(c)

reportUserTrafficTask ==
    \/ GetUserTrafficSlice
    \/ \E u \in Users : SwapStorage(u)
    \/ Judge \/ PruneCounter \/ SliceReady \/ ReportUserTraffic

TrafficNext ==
    \/ \E c \in Conns : \/ \E u \in Users : OpenLink(c, u)
                        \/ getLink(c) \/ Transfer(c) \/ LinkCloses(c)
    \/ reportUserTrafficTask
    \/ \E u \in Users : AddUsers(u) \/ DelUsers(u)
    \/ DelUserCounter \/ cleanupNodeState

\* The report task runs for ever, a getLink and a DelUsers in progress end.
TrafficSpec ==
    /\ TrafficInit /\ [][TrafficNext]_trafficVars
    /\ WF_trafficVars(reportUserTrafficTask) /\ WF_trafficVars(DelUserCounter)
    /\ \A c \in Conns : WF_trafficVars(getLink(c))

-----------------------------------------------------------------------------
(* Properties.                                                              *)

StoragesOf(u) == {Counters[t][u] : t \in Conns} \ {NoCounter}

\* The sum of what the storages have: as many as there are units to point at.
Units(ss)  == {p \in ss \X (1 .. MaxBytes) : p[2] <= value[p[1]]}
Amount(ss) == Cardinality(Units(ss))

\* Storages of u in a TrafficCounter that another first connection replaced.
Stray(u) == StoragesOf(u) \ (IF Counter = NoCounter THEN {} ELSE {Counters[Counter][u]})

\* Nothing is billed that was not transferred, and nothing twice but by a retry of a
\* push the panel already had: what the panel received otherwise, what is on its way
\* and what can still be collected never exceed the traffic of the user, although
\* counting goes on during the collection.
NeverOverBilled ==
    \A u \in Users :
        LET held == IF rpc \in {"judge", "prune"} /\ ru = u THEN amount ELSE 0
            due  == IF received THEN 0 ELSE slice[u]
        IN  billed[u] + due + held + Amount(StoragesOf(u)) <= counted[u] + repeated[u]

\* All traffic of a user that stays on the node is billed in the end (unless it is
\* below the reporting minimum, the report failed or the node was rebuilt), whatever
\* order counting, collecting and opening connections happen in; only what a first
\* connection counted in a TrafficCounter that another one replaced is not.
CountedIsBilled ==
    \A u \in Users :
        <>[](\/ u \in excused \/ lostReports < MaxLostReports
             \/ billed[u] + Amount(Stray(u)) = counted[u] + repeated[u])

\* The counter of a removed user goes away even if a connection that was being
\* opened created it after the removal: GetUserTrafficSlice prunes it "regardless
\* of how much traffic" it carried.
OrphansPruned ==
    \A u \in Users :
        <>[](u \in uidMap \/ Counter = NoCounter \/ Counters[Counter][u] = NoCounter)

\* Traffic whose report failed is billed by a later one: AddBackTraffic "is called
\* when ReportUserTraffic fails (e.g. panel offline) so the traffic data is not lost
\* and will be reported in the next cycle".
FailedReportIsRetried ==
    \A u \in Users : <>[](u \in excused \/ billed[u] + Amount(Stray(u)) = counted[u] + repeated[u])
=============================================================================

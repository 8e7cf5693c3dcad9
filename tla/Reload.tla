------------------------------- MODULE Reload -------------------------------
(***************************************************************************)
(* The process around the nodes: serverHandle and reload (cmd/server.go),  *)
(* the set of controllers (node/node.go), the file watcher (conf/watch.go) *)
(* and the global map of rate limiters, which outlives every core.         *)
(*                                                                         *)
(* The main goroutine boots, then serves reload requests one at a time: it *)
(* reads the file and fetches every node's configuration, closes the old   *)
(* controllers and the old core, starts a new core and the new controllers *)
(* concurrently, and prunes the limiters of nodes that are gone.           *)
(***************************************************************************)
EXTENDS Naturals, FiniteSets

CONSTANTS
    Nodes,      \* node entries of the config file; a node stands for its tag
    Faults,     \* kinds of failure that may be injected
    MaxFaults,  \* how many of them
    MaxEdits    \* how often the file is edited

ASSUME BoundsAssumption == MaxFaults \in Nat /\ MaxEdits \in Nat /\ IsFiniteSet(Nodes)

VARIABLES
    file, ver,          \* the config file, and how often it was edited
    events, recent,     \* watcher: undelivered events; one was taken < 10 s ago
    sleeping,           \* watcher goroutines in their 5 s sleep
    accepted,           \* version of the file the last taken event was about
    reloadCh,           \* signals in the channel, whose capacity is 1
    pc, booted,         \* the main goroutine; it got past the boot
    loaded, loadedVer,  \* the configuration read last, and its version
    cur, new,           \* controllers of *nodes and of newNodes, by progress
    oldTags, todo,      \* locals of reload: old tags, controllers left to close
    inb, newInb, leaked,    \* inbounds of *v2core, of newCore, of cores nobody refers to
    limiters,           \* keys of the limiter map
    links,              \* tags with connections that outlive inbound removal
    faulted,            \* a failure hit the current or last (re)load
    faults

watchVars == <<file, ver, events, recent, sleeping, accepted>>
mainVars  == <<pc, booted, loaded, loadedVer, oldTags, todo>>
coreVars  == <<cur, new, inb, newInb, leaked, limiters>>
faultVars == <<faulted, faults>>
vars      == <<watchVars, reloadCh, mainVars, coreVars, links, faultVars>>

\* The config file: can it be read, and which nodes does it list?
Files == [ok: BOOLEAN, nodes: SUBSET Nodes]

\* Progress of a controller: created; tag and limiter set; inbound added; users
\* added and tasks started; or failed before or after it got its tag.
Progress == {"none", "new", "tagged", "inbound", "started", "failNoTag", "failTag"}

DataOK ==
    /\ file \in Files
    /\ ver \in 0 .. MaxEdits /\ accepted \in 0 .. MaxEdits /\ loadedVer \in 0 .. MaxEdits
    /\ events \in Nat /\ sleeping \in Nat /\ faults \in Nat
    /\ reloadCh \in 0 .. 1
    /\ pc \in {"load", "fetch", "close", "closeCore", "startCore", "startNodes",
               "select", "exited"}
    /\ cur \in [Nodes -> Progress] /\ new \in [Nodes -> Progress]
    /\ loaded \subseteq Nodes /\ oldTags \subseteq Nodes /\ todo \subseteq Nodes
    /\ inb \subseteq Nodes /\ newInb \subseteq Nodes /\ leaked \subseteq Nodes
    /\ limiters \subseteq Nodes /\ links \subseteq Nodes

FlagsOK == recent \in BOOLEAN /\ booted \in BOOLEAN /\ faulted \in BOOLEAN

TypeOK == DataOK /\ FlagsOK

NoNodes == [n \in Nodes |-> "none"]
Controllers(s) == {n \in Nodes : s[n] # "none"}
Tags(s)        == {n \in Nodes : s[n] \notin {"none", "new", "failNoTag"}}

NoFault  == UNCHANGED faultVars
Fault(f) == f \in Faults /\ faults > 0 /\ faults' = faults - 1 /\ faulted' = TRUE

-----------------------------------------------------------------------------
(* The file and its watcher.                                                *)

\* Editors write the file; only a watched file produces events.
Edit(f) ==
    /\ ver < MaxEdits
    /\ f # file
    /\ file' = f
    /\ ver' = ver + 1
    /\ events' = IF booted THEN events + 1 ELSE events
    /\ UNCHANGED <<recent, sleeping, accepted, reloadCh, mainVars, coreVars, links, faultVars>>

\* An event within 10 seconds of the last one taken is ignored.
WatchEvent ==
    /\ events > 0
    /\ events' = events - 1
    /\ \/ recent /\ UNCHANGED <<recent, sleeping, accepted>>
       \/ ~recent /\ recent' = TRUE /\ sleeping' = sleeping + 1 /\ accepted' = ver
    /\ UNCHANGED <<file, ver, reloadCh, mainVars, coreVars, links, faultVars>>

TenSecondsPass ==
    /\ recent
    /\ recent' = FALSE
    /\ UNCHANGED <<file, ver, events, sleeping, accepted, reloadCh, mainVars, coreVars,
                   links, faultVars>>

\* Mutant: an unbuffered channel; the signal is lost unless main is in its select.
SignalUnbuffered ==
    /\ sleeping > 0
    /\ sleeping' = sleeping - 1
    /\ reloadCh' = IF pc = "select" THEN 1 ELSE reloadCh
    /\ UNCHANGED <<file, ver, events, recent, accepted, mainVars, coreVars, links, faultVars>>

\* The sleep is over: signal a reload, dropped if one is already queued.
Signal ==
    /\ sleeping > 0
    /\ sleeping' = sleeping - 1
    /\ reloadCh' = 1
    /\ UNCHANGED <<file, ver, events, recent, accepted, mainVars, coreVars, links, faultVars>>

-----------------------------------------------------------------------------
(* The main goroutine.                                                      *)

\* The boot gives up on an error; a reload reports it and goes on serving.
Fail == pc' = IF booted THEN "select" ELSE "exited"

BeginReload ==
    /\ pc = "select" /\ reloadCh = 1
    /\ reloadCh' = 0
    /\ pc' = "load"
    /\ faulted' = FALSE
    /\ UNCHANGED <<watchVars, booted, loaded, loadedVer, oldTags, todo, coreVars, links, faults>>

\* A signal ends the process; so does, right after the boot, a watch that cannot be set up.
Exit ==
    /\ pc = "select"
    /\ pc' = "exited"
    /\ UNCHANGED <<watchVars, reloadCh, booted, loaded, loadedVer, oldTags, todo, coreVars,
                   links, faultVars>>

LoadFromPath ==
    /\ pc = "load"
    /\ loadedVer' = ver
    /\ IF file.ok THEN pc' = "fetch" /\ loaded' = file.nodes
                  ELSE Fail /\ UNCHANGED loaded
    /\ UNCHANGED <<watchVars, reloadCh, booted, oldTags, todo, coreVars, links, faultVars>>

\* node.New: every node is asked for concurrently; the ones that do not answer
\* are skipped, and it is an error if none does.
FetchNodes ==
    /\ pc = "fetch"
    /\ \E skipped \in SUBSET loaded :
        /\ \/ skipped = {} /\ NoFault
           \/ skipped # {} /\ Fault("fetch")
        /\ IF loaded = skipped
           THEN Fail /\ UNCHANGED <<new, oldTags, todo>>
           ELSE /\ new' = [n \in Nodes |-> IF n \in loaded \ skipped THEN "new" ELSE "none"]
                /\ oldTags' = Tags(cur)
                /\ todo' = Controllers(cur)
                /\ pc' = IF booted THEN "close" ELSE "startCore"
    /\ UNCHANGED <<watchVars, reloadCh, booted, loaded, loadedVer, cur, inb, newInb, leaked,
                   limiters, links>>

\* Mutant: the limiter is deleted with the controller, as a full Close does.
CloseDeletesLimiter(n) ==
    /\ pc = "close" /\ n \in todo
    /\ todo' = todo \ {n}
    /\ inb' = inb \ {n}
    /\ limiters' = limiters \ {n}
    /\ UNCHANGED <<watchVars, reloadCh, pc, booted, loaded, loadedVer, oldTags, cur, new,
                   newInb, leaked, links, faultVars>>

\* Controller.close(false): stop the tasks, remove the inbound; a node without
\* inbound is an error that is logged.
CloseForReload(n) ==
    /\ pc = "close" /\ n \in todo
    /\ todo' = todo \ {n}
    /\ inb' = inb \ {n}
    /\ UNCHANGED <<watchVars, reloadCh, pc, booted, loaded, loadedVer, oldTags, cur, new,
                   newInb, leaked, limiters, links, faultVars>>

ControllersClosed ==
    /\ pc = "close" /\ todo = {}
    /\ cur' = NoNodes
    /\ pc' = "closeCore"
    /\ UNCHANGED <<watchVars, reloadCh, booted, loaded, loadedVer, oldTags, todo, new, inb,
                   newInb, leaked, limiters, links, faultVars>>

\* Mutant: the error of closing a core that is closed already ends the reload.
CloseCoreErrorFatal ==
    /\ pc = "closeCore"
    /\ inb' = {}
    /\ pc' = IF oldTags = {} THEN "select" ELSE "startCore"
    /\ UNCHANGED <<watchVars, reloadCh, booted, loaded, loadedVer, oldTags, todo, cur, new,
                   newInb, leaked, limiters, links, faultVars>>

\* V2Core.Close; on a core that is closed already it only returns an error.
CloseCore ==
    /\ pc = "closeCore"
    /\ inb' = {}
    /\ pc' = "startCore"
    /\ UNCHANGED <<watchVars, reloadCh, booted, loaded, loadedVer, oldTags, todo, cur, new,
                   newInb, leaked, limiters, links, faultVars>>

\* A new core; a configuration it cannot be built from makes the process panic.
StartCore ==
    /\ pc = "startCore"
    /\ newInb' = {}
    /\ \/ NoFault /\ pc' = "startNodes" /\ UNCHANGED new
       \/ Fault("core") /\ Fail /\ new' = NoNodes
       \/ Fault("panic") /\ pc' = "exited" /\ UNCHANGED new
    /\ UNCHANGED <<watchVars, reloadCh, booted, loaded, loadedVer, oldTags, todo, cur, inb,
                   leaked, limiters, links>>

-----------------------------------------------------------------------------
(* Controller.Start of the new controllers, concurrently.                   *)

Advance(n, p) == new' = [new EXCEPT ![n] = p]

StartFetchUsers(n) ==
    /\ pc = "startNodes" /\ new[n] = "new"
    /\ \/ NoFault /\ Advance(n, "tagged") /\ limiters' = limiters \cup {n}
       \/ Fault("users") /\ Advance(n, "failNoTag") /\ UNCHANGED limiters
    /\ UNCHANGED <<watchVars, reloadCh, mainVars, cur, inb, newInb, leaked, links>>

\* The port of a node may still be held by a core left over from a failed reload.
StartAddNode(n) ==
    /\ pc = "startNodes" /\ new[n] = "tagged"
    /\ \/ n \notin leaked /\ NoFault /\ Advance(n, "inbound") /\ newInb' = newInb \cup {n}
       \/ n \in leaked /\ NoFault /\ Advance(n, "failTag") /\ UNCHANGED newInb
       \/ Fault("addNode") /\ Advance(n, "failTag") /\ UNCHANGED newInb
    /\ UNCHANGED <<watchVars, reloadCh, mainVars, cur, inb, leaked, limiters, links>>

StartAddUsers(n) ==
    /\ pc = "startNodes" /\ new[n] = "inbound"
    /\ \/ NoFault /\ Advance(n, "started")
       \/ Fault("addUsers") /\ Advance(n, "failTag")
    /\ UNCHANGED <<watchVars, reloadCh, mainVars, cur, inb, newInb, leaked, limiters, links>>

\* Mutant: every old tag is pruned, also those the new configuration keeps.
PruneAll == limiters \ oldTags

\* The limiters of nodes that were there before and are not any more.
Prune == limiters \ (oldTags \ Tags(new))

\* All controllers are done.  If none started, reload returns an error and leaves
\* the new core as it is; otherwise it prunes and switches over.
NodesStarted ==
    /\ pc = "startNodes"
    /\ \A n \in Controllers(new) : new[n] \in {"started", "failNoTag", "failTag"}
    /\ IF \E n \in Nodes : new[n] = "started"
       THEN /\ limiters' = Prune
            /\ cur' = new /\ inb' = newInb
            /\ booted' = TRUE
            /\ pc' = "select"
            /\ UNCHANGED leaked
       ELSE /\ leaked' = leaked \cup newInb
            /\ Fail
            /\ UNCHANGED <<limiters, cur, inb, booted>>
    /\ new' = NoNodes /\ newInb' = {} /\ oldTags' = {}
    /\ UNCHANGED <<watchVars, reloadCh, loaded, loadedVer, todo, links, faultVars>>

-----------------------------------------------------------------------------
(* Connections: accepted by an inbound, they end when their peer wants.     *)

Connect(n) ==
    /\ n \in (inb \cup newInb) \ links
    /\ links' = links \cup {n}
    /\ UNCHANGED <<watchVars, reloadCh, mainVars, coreVars, faultVars>>

Disconnect(n) ==
    /\ n \in links
    /\ links' = links \ {n}
    /\ UNCHANGED <<watchVars, reloadCh, mainVars, coreVars, faultVars>>

-----------------------------------------------------------------------------
Init ==
    /\ file \in Files /\ ver = 0
    /\ events = 0 /\ recent = FALSE /\ sleeping = 0 /\ accepted = 0
    /\ reloadCh = 0
    /\ pc = "load" /\ booted = FALSE
    /\ loaded = {} /\ loadedVer = 0
    /\ cur = NoNodes /\ new = NoNodes
    /\ oldTags = {} /\ todo = {}
    /\ inb = {} /\ newInb = {} /\ leaked = {}
    /\ limiters = {} /\ links = {}
    /\ faulted = FALSE /\ faults = MaxFaults

Watcher == WatchEvent \/ Signal

reload ==
    \/ BeginReload \/ LoadFromPath \/ FetchNodes
    \/ (\E n \in Nodes : CloseForReload(n)) \/ ControllersClosed
    \/ CloseCore \/ StartCore
    \/ \E n \in Nodes : StartFetchUsers(n) \/ StartAddNode(n) \/ StartAddUsers(n)
    \/ NodesStarted

Next ==
    \/ \E f \in Files : Edit(f)
    \/ Watcher \/ TenSecondsPass
    \/ reload \/ Exit
    \/ \E n \in Nodes : Connect(n) \/ Disconnect(n)

Spec == Init /\ [][Next]_vars

\* Timers fire, the watcher goroutine runs, and every step of boot and reload is
\* bounded by a timeout.
FairSpec == Spec /\ WF_vars(WatchEvent) /\ WF_vars(Signal) /\ WF_vars(reload)

-----------------------------------------------------------------------------
(* Properties.                                                              *)

\* Whatever inbound accepts connections, of the serving core or of the one being
\* started, has its limiter: the dispatcher kills a stream whose tag has none.
InboundHasLimiter == inb \cup newInb \subseteq limiters

\* From the moment the old nodes are torn down until the new ones are up, none of
\* the old tags is without limiter: connections that outlive their inbound keep
\* opening streams ("no reload window, no flood").
NoReloadWindow ==
    pc \in {"close", "closeCore", "startCore", "startNodes"} => oldTags \subseteq limiters

\* An edit that passed the watcher's debounce is eventually read by a reload,
\* although signals are dropped when one is queued and reloads take their time.
AcceptedEditIsLoaded == []<>(loadedVer >= accepted \/ pc = "exited")

\* However many reloads failed before, one that reads the current file and meets
\* no failure ends with exactly the file's nodes served (unless an earlier
\* failed reload left a core behind that still holds ports).
CleanReloadServesFile ==
    <>[](pc # "exited" /\ loadedVer = ver /\ file.ok /\ file.nodes # {} /\ ~faulted /\ leaked = {}
            => inb = file.nodes)

\* A connection of a node that the configuration still lists always finds its
\* limiter: CloseForReload keeps the entry "so the limiter is never absent", and
\* only "nodes removed by the new config are pruned".
LinkHasLimiter == links \cap loaded \subseteq limiters
=============================================================================

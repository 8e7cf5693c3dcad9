---------------------------- MODULE Reload_proofs ----------------------------
(***************************************************************************)
(* Proofs about Reload, for every set of nodes and any number of edits and *)
(* failures.                                                               *)
(***************************************************************************)
EXTENDS Reload, TLAPS

\* A controller that has its tag has its limiter; a new inbound belongs to a
\* controller that has its tag.  These are what the pruning at the end of a reload
\* and the tear down at its beginning rely on.
LimiterInv ==
    /\ Tags(cur) \cup Tags(new) \subseteq limiters
    /\ newInb \subseteq Tags(new)
    /\ pc # "startNodes" => newInb = {}
    /\ InboundHasLimiter
    /\ NoReloadWindow

-----------------------------------------------------------------------------
\* Controller.Start moves a controller to progress p: its tag set follows.
LEMMA AdvanceTags ==
    ASSUME TypeOK, NEW n \in Nodes, NEW p \in Progress, Advance(n, p)
    PROVE  /\ p \in {"none", "new", "failNoTag"} => Tags(new') = Tags(new) \ {n}
           /\ p \notin {"none", "new", "failNoTag"} => Tags(new') = Tags(new) \cup {n}
  BY DEF TypeOK, DataOK, Advance, Tags

\* Without controllers there are no tags.
LEMMA NoTags == Tags(NoNodes) = {}
  BY DEF Tags, NoNodes

\* Every variable keeps its type through boot, reloads and edits.
THEOREM ReloadTypeCorrect == Spec => []TypeOK
<1>1. Init => DataOK
  BY BoundsAssumption DEF Init, DataOK, Files, NoNodes, Progress
<1>2. Init => FlagsOK
  BY DEF Init, FlagsOK
<1>3. DataOK /\ [Next]_vars => DataOK'
  <2> SUFFICES ASSUME DataOK, [Next]_vars PROVE DataOK'
    OBVIOUS
  <2> USE DEF DataOK
  <2>1. ASSUME NEW f \in Files, Edit(f) PROVE DataOK'
    BY <2>1, BoundsAssumption DEF Edit, mainVars, coreVars, faultVars
  <2>2. CASE Watcher \/ TenSecondsPass
    BY <2>2 DEF Watcher, WatchEvent, Signal, TenSecondsPass, mainVars, coreVars, faultVars
  <2>3. CASE BeginReload \/ Exit
    BY <2>3 DEF BeginReload, Exit, watchVars, coreVars, faultVars
  <2>4. CASE LoadFromPath
    BY <2>4 DEF LoadFromPath, Fail, Files, watchVars, coreVars, faultVars
  <2>5. CASE FetchNodes
    BY <2>5 DEF FetchNodes, Fail, Fault, NoFault, Tags, Controllers, Progress,
                watchVars, faultVars
  <2>6. ASSUME NEW n \in Nodes, CloseForReload(n) PROVE DataOK'
    BY <2>6 DEF CloseForReload, watchVars, faultVars
  <2>7. CASE ControllersClosed \/ CloseCore
    BY <2>7 DEF ControllersClosed, CloseCore, NoNodes, Progress, watchVars, faultVars
  <2>8. CASE StartCore
    BY <2>8 DEF StartCore, Fail, Fault, NoFault, NoNodes, Progress, watchVars, faultVars
  <2>9. ASSUME NEW n \in Nodes, StartFetchUsers(n) PROVE DataOK'
    BY <2>9 DEF StartFetchUsers, Advance, Fault, NoFault, Progress, watchVars, mainVars,
                faultVars
  <2>10. ASSUME NEW n \in Nodes, StartAddNode(n) PROVE DataOK'
    BY <2>10 DEF StartAddNode, Advance, Fault, NoFault, Progress, watchVars, mainVars,
                 faultVars
  <2>11. ASSUME NEW n \in Nodes, StartAddUsers(n) PROVE DataOK'
    BY <2>11 DEF StartAddUsers, Advance, Fault, NoFault, Progress, watchVars, mainVars,
                 faultVars
  <2>12. CASE NodesStarted
    BY <2>12 DEF NodesStarted, Fail, Prune, NoNodes, Progress, watchVars, faultVars
  <2>13. ASSUME NEW n \in Nodes, Connect(n) \/ Disconnect(n) PROVE DataOK'
    BY <2>13 DEF Connect, Disconnect, watchVars, mainVars, coreVars, faultVars
  <2>14. CASE UNCHANGED vars
    BY <2>14 DEF vars, watchVars, mainVars, coreVars, faultVars
  <2> QED
    BY <2>1, <2>2, <2>3, <2>4, <2>5, <2>6, <2>7, <2>8, <2>9, <2>10, <2>11, <2>12, <2>13,
       <2>14 DEF Next, reload
<1>4. FlagsOK /\ [Next]_vars => FlagsOK'
  <2> SUFFICES ASSUME FlagsOK, [Next]_vars PROVE FlagsOK'
    OBVIOUS
  <2> USE DEF FlagsOK, watchVars, mainVars, faultVars, Fault, NoFault
  <2>1. CASE \E f \in Files : Edit(f)
    BY <2>1, Zenon DEF Edit
  <2>2. CASE WatchEvent
    BY <2>2, Zenon DEF WatchEvent
  <2>3. CASE Signal
    BY <2>3, Zenon DEF Signal
  <2>4. CASE TenSecondsPass
    BY <2>4, Zenon DEF TenSecondsPass
  <2>5. CASE BeginReload
    BY <2>5, Zenon DEF BeginReload
  <2>6. CASE LoadFromPath
    BY <2>6, Zenon DEF LoadFromPath
  <2>7. CASE FetchNodes
    BY <2>7, Zenon DEF FetchNodes
  <2>8. CASE \E n \in Nodes : CloseForReload(n)
    BY <2>8, Zenon DEF CloseForReload
  <2>9. CASE ControllersClosed \/ CloseCore
    BY <2>9, Zenon DEF ControllersClosed, CloseCore
  <2>10. CASE StartCore
    BY <2>10, Zenon DEF StartCore
  <2>11. CASE \E n \in Nodes : StartFetchUsers(n) \/ StartAddNode(n) \/ StartAddUsers(n)
    BY <2>11, Zenon DEF StartFetchUsers, StartAddNode, StartAddUsers
  <2>12. CASE NodesStarted
    BY <2>12, Zenon DEF NodesStarted
  <2>13. CASE Exit \/ \E n \in Nodes : Connect(n) \/ Disconnect(n)
    BY <2>13, Zenon DEF Exit, Connect, Disconnect
  <2>14. CASE UNCHANGED vars
    BY <2>14, Zenon DEF vars
  <2> QED
    BY <2>1, <2>2, <2>3, <2>4, <2>5, <2>6, <2>7, <2>8, <2>9, <2>10, <2>11, <2>12, <2>13,
       <2>14 DEF Next, reload, Watcher
<1> QED
  BY <1>1, <1>2, <1>3, <1>4, PTL DEF Spec, TypeOK

-----------------------------------------------------------------------------
\* The strengthened invariant: limiters are added before inbounds and pruned only
\* for tags the new controllers do not have.
THEOREM LimiterInvariant == Spec => []LimiterInv
<1> USE DEF LimiterInv, InboundHasLimiter, NoReloadWindow
<1>1. Init => LimiterInv
  BY NoTags DEF Init
<1>2. TypeOK /\ LimiterInv /\ [Next]_vars => LimiterInv'
  <2> SUFFICES ASSUME TypeOK, LimiterInv, [Next]_vars PROVE LimiterInv'
    OBVIOUS
  <2>1. CASE \/ \E f \in Files : Edit(f)
             \/ Watcher \/ TenSecondsPass
             \/ \E n \in Nodes : Connect(n) \/ Disconnect(n)
             \/ UNCHANGED vars
    BY <2>1 DEF Edit, Watcher, WatchEvent, Signal, TenSecondsPass, Connect, Disconnect,
                vars, mainVars, coreVars, Tags
  <2>2. CASE BeginReload \/ LoadFromPath \/ Exit
    BY <2>2 DEF BeginReload, LoadFromPath, Exit, Fail, coreVars, Tags
  <2>3. CASE FetchNodes
    <3>1. CASE new' = new
      BY <2>3, <3>1 DEF FetchNodes, Fail, Tags
    <3>2. CASE new' # new
      <4>1. Tags(new') = {} /\ Tags(cur') = Tags(cur) /\ oldTags' = Tags(cur)
        BY <2>3, <3>2 DEF FetchNodes, Tags
      <4>2. limiters' = limiters /\ inb' = inb /\ newInb' = newInb /\ newInb = {}
            /\ pc' # "startNodes"
        BY <2>3, <3>2 DEF FetchNodes, Fail
      <4> QED
        BY <4>1, <4>2
    <3> QED
      BY <3>1, <3>2
  <2>4. ASSUME NEW n \in Nodes, CloseForReload(n) PROVE LimiterInv'
    BY <2>4 DEF CloseForReload, Tags
  <2>5. CASE ControllersClosed
    BY <2>5, NoTags DEF ControllersClosed, Tags, NoNodes
  <2>6. CASE CloseCore
    BY <2>6 DEF CloseCore, Tags
  <2>7. CASE StartCore
    BY <2>7, NoTags DEF StartCore, Fail, Tags
  <2>8. ASSUME NEW n \in Nodes, StartFetchUsers(n) PROVE LimiterInv'
    <3>1. new[n] = "new" /\ pc' = pc /\ cur' = cur /\ inb' = inb /\ newInb' = newInb
          /\ oldTags' = oldTags /\ n \notin Tags(new)
      BY <2>8 DEF StartFetchUsers, mainVars, Tags
    <3>2. CASE Advance(n, "tagged") /\ limiters' = limiters \cup {n}
      BY <3>1, <3>2, AdvanceTags DEF Progress, Tags
    <3>3. CASE Advance(n, "failNoTag") /\ limiters' = limiters
      BY <3>1, <3>3, AdvanceTags DEF Progress, Tags
    <3> QED
      BY <2>8, <3>2, <3>3 DEF StartFetchUsers
  <2>9. ASSUME NEW n \in Nodes, StartAddNode(n) PROVE LimiterInv'
    <3>1. /\ n \in Tags(new) /\ pc' = pc /\ cur' = cur /\ inb' = inb
          /\ oldTags' = oldTags /\ limiters' = limiters /\ pc = "startNodes"
          /\ newInb' \subseteq newInb \cup {n}
          /\ Advance(n, "inbound") \/ Advance(n, "failTag")
      BY <2>9 DEF StartAddNode, mainVars, Tags
    <3>2. Tags(new') = Tags(new) \cup {n}
      BY <3>1, AdvanceTags DEF Progress
    <3> QED
      BY <3>1, <3>2 DEF Tags
  <2>10. ASSUME NEW n \in Nodes, StartAddUsers(n) PROVE LimiterInv'
    <3>1. /\ n \in Tags(new) /\ pc' = pc /\ cur' = cur /\ inb' = inb /\ newInb' = newInb
          /\ oldTags' = oldTags /\ limiters' = limiters
          /\ Advance(n, "started") \/ Advance(n, "failTag")
      BY <2>10 DEF StartAddUsers, mainVars, Tags
    <3>2. Tags(new') = Tags(new) \cup {n}
      BY <3>1, AdvanceTags DEF Progress
    <3> QED
      BY <3>1, <3>2 DEF Tags
  <2>11. CASE NodesStarted
    <3>1. /\ Tags(new') = {} /\ newInb' = {} /\ oldTags' = {}
      BY <2>11, NoTags DEF NodesStarted
    <3>2. CASE cur' = new /\ inb' = newInb /\ limiters' = Prune
      <4>1. Tags(cur') = Tags(new)
        BY <3>2 DEF Tags
      <4> QED
        BY <3>1, <3>2, <4>1 DEF Prune
    <3>3. CASE cur' = cur /\ inb' = inb /\ limiters' = limiters
      BY <3>1, <3>3 DEF Tags
    <3> QED
      BY <2>11, <3>2, <3>3 DEF NodesStarted
  <2> QED
    BY <2>1, <2>2, <2>3, <2>4, <2>5, <2>6, <2>7, <2>8, <2>9, <2>10, <2>11 DEF Next, reload
<1> QED
  BY <1>1, <1>2, ReloadTypeCorrect, PTL DEF Spec

\* Every inbound that accepts connections has its limiter.
THEOREM InboundsLimited == Spec => []InboundHasLimiter
  BY LimiterInvariant, PTL DEF LimiterInv

\* No old tag is without limiter while a reload is under way.
THEOREM ReloadHasNoWindow == Spec => []NoReloadWindow
  BY LimiterInvariant, PTL DEF LimiterInv

-----------------------------------------------------------------------------
(* What the liveness properties rest on.                                    *)

\* An accepted edit that is not loaded yet has a watcher goroutine asleep, a signal in
\* the channel, or a reload about to read the file.
NoLostSignal ==
    accepted <= loadedVer \/ sleeping > 0 \/ reloadCh = 1 \/ pc \in {"load", "exited"}

SignalInv == accepted <= ver /\ NoLostSignal

\* No signal is lost, although one is dropped when another is queued and reloads take
\* their time: what remains to be assumed for AcceptedEditIsLoaded is that the sleeper
\* wakes and that the main goroutine goes on (ReloadWatcher, serverHandle's select).
THEOREM SignalsAreKept == Spec => []NoLostSignal
<1>1. Init => SignalInv
  BY DEF Init, SignalInv, NoLostSignal
<1>2. TypeOK /\ SignalInv /\ [Next]_vars => SignalInv'
  <2> SUFFICES ASSUME TypeOK, SignalInv, [Next]_vars PROVE SignalInv'
    OBVIOUS
  <2>0. /\ ver \in Nat /\ accepted \in Nat /\ loadedVer \in Nat /\ sleeping \in Nat
        /\ reloadCh \in 0 .. 1
    BY BoundsAssumption DEF TypeOK, DataOK
  <2> USE <2>0 DEF SignalInv, NoLostSignal
  <2>1. ASSUME NEW f \in Files, Edit(f) PROVE SignalInv'
    BY <2>1 DEF Edit, mainVars
  <2>2. CASE WatchEvent
    BY <2>2 DEF WatchEvent, mainVars
  <2>3. CASE Signal
    BY <2>3 DEF Signal, mainVars
  <2>4. CASE LoadFromPath
    BY <2>4 DEF LoadFromPath, watchVars
  <2>5. CASE BeginReload \/ Exit
    BY <2>5 DEF BeginReload, Exit, watchVars
  <2>6. ASSUME UNCHANGED <<ver, accepted, sleeping, reloadCh, loadedVer>>, pc # "load",
               pc = "exited" => pc' = "exited"
        PROVE  SignalInv'
    BY <2>6
  <2>7. CASE UNCHANGED <<watchVars, reloadCh, pc, loadedVer>>
    BY <2>7 DEF watchVars
  <2>8. CASE TenSecondsPass
    BY <2>8 DEF TenSecondsPass, mainVars
  <2>9. CASE FetchNodes \/ StartCore \/ NodesStarted \/ ControllersClosed \/ CloseCore
    BY <2>6, <2>9 DEF FetchNodes, StartCore, NodesStarted, ControllersClosed, CloseCore, watchVars
  <2>10. CASE \E n \in Nodes : \/ CloseForReload(n) \/ StartFetchUsers(n) \/ StartAddNode(n)
                               \/ StartAddUsers(n) \/ Connect(n) \/ Disconnect(n)
    BY <2>7, <2>10 DEF CloseForReload, StartFetchUsers, StartAddNode, StartAddUsers, Connect,
       Disconnect, mainVars
  <2>11. CASE UNCHANGED vars
    BY <2>7, <2>11 DEF vars, mainVars
  <2> QED BY <2>1, <2>2, <2>3, <2>4, <2>5, <2>8, <2>9, <2>10, <2>11 DEF Next, reload, Watcher
<1> QED BY <1>1, <1>2, ReloadTypeCorrect, PTL DEF Spec, SignalInv

\* The last (re)load read the file as it is, met no failure, and no failed one before it
\* left a core behind.
Clean == loadedVer = ver /\ file.ok /\ file.nodes # {} /\ ~faulted /\ leaked = {}

ServesFile == pc = "select" /\ Clean => inb = file.nodes

Up(s) == {n \in Nodes : s[n] \in {"inbound", "started"}}

\* The controllers of a reload that is clean so far, before and during their start.
AllNew == \A n \in Nodes : new[n] = IF n \in loaded THEN "new" ELSE "none"

NoneFailed ==
    /\ \A n \in loaded : new[n] \in {"new", "tagged", "inbound", "started"}
    /\ \A n \in Nodes \ loaded : new[n] = "none"
    /\ newInb = Up(new)

CleanInv ==
    /\ loadedVer <= ver
    /\ loadedVer = ver /\ file.ok /\ pc # "load" => loaded = file.nodes
    /\ pc \in {"close", "closeCore", "startCore"} /\ Clean => AllNew
    /\ pc = "startNodes" /\ Clean => NoneFailed
    /\ ServesFile

\* Steps of the watcher, of connections, and of a reload's tear down.
LEMMA CleanStands ==
    ASSUME CleanInv, UNCHANGED <<file, ver, loaded, loadedVer, new, newInb, leaked, faulted>>,
           \/ pc' = pc /\ pc' # "select"
           \/ UNCHANGED <<pc, inb>>
           \/ pc = "close" /\ pc' = "closeCore"
           \/ pc = "closeCore" /\ pc' = "startCore"
    PROVE  CleanInv'
<1>1. Clean' <=> Clean
  BY DEF Clean
<1>2. (AllNew' <=> AllNew) /\ (NoneFailed' <=> NoneFailed)
  BY DEF AllNew, NoneFailed, Up
<1> QED BY <1>1, <1>2 DEF CleanInv, ServesFile

LEMMA StartKeepsClean ==
    ASSUME TypeOK, CleanInv, NEW n \in Nodes, pc = "startNodes", NEW p \in Progress, Advance(n, p),
           UNCHANGED <<watchVars, mainVars, leaked>>, faulted => faulted',
           Clean' => /\ p \in {"tagged", "inbound", "started"} /\ new[n] # "none"
                     /\ newInb' = IF p = "tagged" THEN newInb ELSE newInb \cup {n}
                     /\ p = "tagged" => new[n] = "new"
    PROVE  CleanInv'
<1>1. UNCHANGED <<file, ver, loaded, loadedVer, pc>>
  BY DEF watchVars, mainVars
<1>2. Clean' => Clean
  BY <1>1 DEF Clean
<1>3. ASSUME Clean' PROVE NoneFailed'
  <2>1. NoneFailed
    BY <1>2, <1>3 DEF CleanInv
  <2>2. n \in loaded
    BY <1>3, <2>1 DEF NoneFailed
  <2>3. new'[n] = p /\ \A m \in Nodes : m # n => new'[m] = new[m]
    BY DEF Advance, TypeOK, DataOK
  <2>4. loaded \subseteq Nodes
    BY DEF TypeOK, DataOK
  <2>5. newInb' = Up(new)'
    BY <1>3, <2>1, <2>3 DEF NoneFailed, Up
  <2> QED BY <1>1, <1>3, <2>1, <2>2, <2>3, <2>4, <2>5 DEF NoneFailed
<1> QED BY <1>1, <1>3 DEF CleanInv, ServesFile

\* A reload or boot that reads the current file and meets no failure ends with exactly
\* the file's nodes served, however many failed before it: the safety part of
\* CleanReloadServesFile (reload and serverHandle in cmd/server.go).
THEOREM CleanReloadServes == Spec => []ServesFile
<1>1. Init => CleanInv
  BY DEF Init, CleanInv, ServesFile
<1>2. TypeOK /\ CleanInv /\ [Next]_vars => CleanInv'
  <2> SUFFICES ASSUME TypeOK, CleanInv, [Next]_vars PROVE CleanInv'
    OBVIOUS
  <2>0. ver \in Nat /\ loadedVer \in Nat
    BY BoundsAssumption DEF TypeOK, DataOK
  <2>1. ASSUME NEW f \in Files, Edit(f) PROVE CleanInv'
    <3>1. loadedVer' <= ver' /\ loadedVer' # ver'
      BY <2>0, <2>1 DEF Edit, mainVars, CleanInv
    <3> QED BY <3>1 DEF CleanInv, ServesFile, Clean
  <2>2. CASE \/ Watcher \/ TenSecondsPass
             \/ \E n \in Nodes : Connect(n) \/ Disconnect(n)
             \/ UNCHANGED vars
    <3>1. UNCHANGED <<file, ver, loaded, loadedVer, new, newInb, leaked, faulted, pc, inb>>
      BY <2>2 DEF Watcher, WatchEvent, Signal, TenSecondsPass, Connect, Disconnect, vars, watchVars,
         mainVars, coreVars, faultVars
    <3> QED BY <3>1, CleanStands
  <2>3. CASE BeginReload
    <3>1. UNCHANGED <<ver, loadedVer>> /\ pc' = "load"
      BY <2>3 DEF BeginReload, watchVars
    <3> QED BY <3>1 DEF CleanInv, ServesFile
  <2>4. CASE Exit
    <3>1. UNCHANGED <<file, ver, loaded, loadedVer>> /\ pc' = "exited" /\ pc = "select"
      BY <2>4 DEF Exit, watchVars
    <3> QED BY <3>1 DEF CleanInv, ServesFile
  <2>5. CASE LoadFromPath
    <3>1. /\ UNCHANGED <<file, ver>> /\ loadedVer' = ver
          /\ \/ file.ok /\ pc' = "fetch" /\ loaded' = file.nodes
             \/ ~file.ok /\ pc' \in {"select", "exited"}
      BY <2>5 DEF LoadFromPath, Fail, watchVars
    <3> QED BY <2>0, <3>1 DEF CleanInv, ServesFile, Clean
  <2>6. CASE FetchNodes
    <3>1. /\ UNCHANGED <<file, ver, loaded, loadedVer, newInb, leaked>> /\ pc = "fetch"
      BY <2>6 DEF FetchNodes, watchVars
    <3>2. PICK skipped \in SUBSET loaded :
            /\ skipped = {} \/ faulted'
            /\ \/ loaded = skipped /\ pc' \in {"select", "exited"}
               \/ /\ new' = [n \in Nodes |-> IF n \in loaded \ skipped THEN "new" ELSE "none"]
                  /\ pc' \in {"close", "startCore"}
      BY <2>6 DEF FetchNodes, Fail, Fault
    <3>3. ASSUME Clean' PROVE skipped = {} /\ loaded = file.nodes /\ loaded # {}
      BY <3>1, <3>2, <3>3 DEF Clean, CleanInv
    <3>4. ASSUME Clean' PROVE pc' \in {"close", "startCore"} /\ AllNew'
      BY <3>1, <3>2, <3>3, <3>4 DEF AllNew
    <3> QED BY <3>1, <3>2, <3>4 DEF CleanInv, ServesFile, Clean
  <2>7. ASSUME NEW n \in Nodes, CloseForReload(n) PROVE CleanInv'
    <3>1. UNCHANGED <<file, ver, loaded, loadedVer, new, newInb, leaked, faulted, pc>> /\ pc = "close"
      BY <2>7 DEF CloseForReload, watchVars, faultVars
    <3> QED BY <3>1, CleanStands
  <2>8. CASE ControllersClosed \/ CloseCore
    <3>1. UNCHANGED <<file, ver, loaded, loadedVer, new, newInb, leaked, faulted>>
      BY <2>8 DEF ControllersClosed, CloseCore, watchVars, faultVars
    <3>2. (pc = "close" /\ pc' = "closeCore") \/ (pc = "closeCore" /\ pc' = "startCore")
      BY <2>8 DEF ControllersClosed, CloseCore
    <3> QED BY <3>1, <3>2, CleanStands
  <2>9. CASE StartCore
    <3>1. UNCHANGED <<file, ver, loaded, loadedVer, leaked>> /\ newInb' = {} /\ pc = "startCore"
      BY <2>9 DEF StartCore, watchVars
    <3>2. \/ UNCHANGED <<faulted, new>> /\ pc' = "startNodes"
          \/ faulted' /\ pc' \in {"select", "exited"}
      BY <2>9 DEF StartCore, NoFault, Fault, Fail, faultVars
    <3>3. ASSUME Clean', pc' = "startNodes" PROVE NoneFailed'
      <4>1. Clean /\ new' = new
        BY <3>1, <3>2, <3>3 DEF Clean
      <4>2. AllNew /\ loaded \subseteq Nodes
        BY <3>1, <4>1 DEF CleanInv, TypeOK, DataOK
      <4> QED BY <3>1, <4>1, <4>2 DEF NoneFailed, AllNew, Up
    <3> QED BY <3>1, <3>2, <3>3 DEF CleanInv, ServesFile, Clean
  <2>10. ASSUME NEW n \in Nodes, StartFetchUsers(n) PROVE CleanInv'
    <3>1. /\ UNCHANGED <<watchVars, mainVars, leaked, newInb>> /\ pc = "startNodes" /\ new[n] = "new"
          /\ \/ Advance(n, "tagged") /\ faulted' = faulted
             \/ Advance(n, "failNoTag") /\ faulted'
      BY <2>10 DEF StartFetchUsers, NoFault, Fault, faultVars
    <3> QED BY <3>1, StartKeepsClean DEF Progress, Clean
  <2>11. ASSUME NEW n \in Nodes, StartAddNode(n) PROVE CleanInv'
    <3>1. /\ UNCHANGED <<watchVars, mainVars, leaked>> /\ pc = "startNodes" /\ new[n] = "tagged"
          /\ \/ Advance(n, "inbound") /\ faulted' = faulted /\ newInb' = newInb \cup {n}
             \/ Advance(n, "failTag") /\ faulted' = faulted /\ n \in leaked
             \/ Advance(n, "failTag") /\ faulted'
      BY <2>11 DEF StartAddNode, NoFault, Fault, faultVars
    <3>2. Advance(n, "failTag") => ~Clean' \/ Advance(n, "inbound")
      BY <3>1 DEF Clean
    <3> QED BY <3>1, <3>2, StartKeepsClean DEF Progress, Clean
  <2>12. ASSUME NEW n \in Nodes, StartAddUsers(n) PROVE CleanInv'
    <3>1. /\ UNCHANGED <<watchVars, mainVars, leaked, newInb>> /\ pc = "startNodes" /\ new[n] = "inbound"
          /\ \/ Advance(n, "started") /\ faulted' = faulted
             \/ Advance(n, "failTag") /\ faulted'
      BY <2>12 DEF StartAddUsers, NoFault, Fault, faultVars
    <3>2. Clean => n \in newInb
      BY <3>1 DEF CleanInv, NoneFailed, Up
    <3>3. Clean' => Clean /\ Advance(n, "started") /\ newInb' = newInb \cup {n}
      BY <3>1, <3>2 DEF Clean, watchVars, mainVars
    <3>4. CASE Advance(n, "started") /\ faulted' = faulted
      BY <3>1, <3>3, <3>4, StartKeepsClean DEF Progress
    <3>5. CASE Advance(n, "failTag") /\ faulted'
      BY <3>1, <3>5, StartKeepsClean DEF Progress, Clean
    <3> QED BY <3>1, <3>4, <3>5
  <2>13. CASE NodesStarted
    <3>1. /\ UNCHANGED <<file, ver, loaded, loadedVer, faulted>> /\ pc = "startNodes"
          /\ \A n \in Controllers(new) : new[n] \in {"started", "failNoTag", "failTag"}
      BY <2>13 DEF NodesStarted, watchVars, faultVars
    <3>2. \/ inb' = newInb /\ pc' = "select" /\ leaked' = leaked
          \/ /\ \A n \in Nodes : new[n] # "started"
             /\ leaked' = leaked \cup newInb /\ pc' \in {"select", "exited"}
      BY <2>13 DEF NodesStarted, Fail
    <3>3. ASSUME Clean' PROVE inb' = file'.nodes
      <4>1. Clean /\ NoneFailed /\ loaded = file.nodes /\ loaded # {} /\ loaded \subseteq Nodes
        BY <3>1, <3>2, <3>3 DEF Clean, CleanInv, TypeOK, DataOK
      <4>2. \A n \in loaded : new[n] = "started"
        BY <3>1, <4>1 DEF NoneFailed, Controllers
      <4>3. newInb = loaded
        BY <4>1, <4>2 DEF NoneFailed, Up
      <4> QED BY <3>1, <3>2, <4>1, <4>2, <4>3
    <3> QED BY <3>1, <3>2, <3>3 DEF CleanInv, ServesFile, Clean
  <2> QED BY <2>1, <2>2, <2>3, <2>4, <2>5, <2>6, <2>7, <2>8, <2>9, <2>10, <2>11, <2>12, <2>13
          DEF Next, reload
<1> QED BY <1>1, <1>2, ReloadTypeCorrect, PTL DEF Spec, CleanInv
=============================================================================

---------------------------- MODULE Task_proofs ----------------------------
(***************************************************************************)
(* t.Stop and t.Done are closed once each, in this order, whoever calls    *)
(* Close and however often, for any number of executions and callers.      *)
(***************************************************************************)
EXTENDS Task, TLAPS

\* What runOnce and the select wait for: an execution is current exactly while the
\* loop waits for it.
WaitsForOne == IF loop = "select" THEN current \in Slots ELSE current = None

\* Running says that the loop was started and Stop is open, which is why safeStop
\* closes it once.
RunningIsOpen ==
    /\ Running <=> loop # "none" /\ stopClosed = 0
    /\ loop = "none" => stopClosed = 0

StopInv == TaskTypeOK /\ WaitsForOne /\ RunningIsOpen /\ DoneMeansExited

LEMMA StopInit == TaskInit => StopInv
<1> SUFFICES ASSUME TaskInit PROVE StopInv
  OBVIOUS
<1>1. /\ ~Running /\ Running \in BOOLEAN /\ ~doneClosed /\ doneClosed \in BOOLEAN
  BY Zenon DEF TaskInit
<1>2. stopClosed = 0 /\ stopClosed \in 0 .. 1 /\ loop = "none"
  BY DEF TaskInit
<1>3. /\ current = None /\ exec \in [Slots -> {"free", "busy", "over"}] /\ cancelled \in SUBSET Slots
      /\ closer \in [Closers -> {"out", "stopped", "clean", "timedOut"}]
  BY DEF TaskInit
<1>4. QED
  BY <1>1, <1>2, <1>3 DEF StopInv, TaskTypeOK, WaitsForOne, RunningIsOpen, DoneMeansExited

LEMMA StopLoop == StopInv /\ (Start \/ Loop) => StopInv'
<1> SUFFICES ASSUME StopInv, Start \/ Loop PROVE StopInv'
  OBVIOUS
<1> USE NoneAssumption DEF StopInv, TaskTypeOK, WaitsForOne, RunningIsOpen, DoneMeansExited
<1>1. CASE Start
  BY <1>1 DEF Start
<1>2. CASE RunOnce
  BY <1>2 DEF RunOnce
<1>3. CASE SelectDone
  BY <1>3 DEF SelectDone
<1>4. CASE Deadline
  BY <1>4 DEF Deadline
<1>5. CASE Tick
  BY <1>5 DEF Tick
<1>6. CASE StopSeen
  BY <1>6 DEF StopSeen
<1>7. QED
  BY <1>1, <1>2, <1>3, <1>4, <1>5, <1>6 DEF Loop

LEMMA StopExecution == ASSUME StopInv, NEW s \in Slots, ExecuteEnds(s) PROVE StopInv'
  BY DEF ExecuteEnds, StopInv, TaskTypeOK, WaitsForOne, RunningIsOpen, DoneMeansExited

LEMMA StopClose == ASSUME StopInv, NEW c \in Closers, CloseStep(c) PROVE StopInv'
<1> USE DEF StopInv, TaskTypeOK, WaitsForOne, RunningIsOpen, DoneMeansExited
<1>1. CASE safeStop(c)
  <2>1. ~Running' /\ Running' \in BOOLEAN
    BY <1>1, Zenon DEF safeStop
  <2>2. /\ stopClosed' \in 0 .. 1
        /\ loop # "none" => stopClosed' = 1
    BY <1>1 DEF safeStop
  <2>3. /\ loop # "none" /\ loop' = loop /\ doneClosed' = doneClosed /\ current' = current
        /\ exec' = exec /\ cancelled' = cancelled
        /\ closer' \in [Closers -> {"out", "stopped", "clean", "timedOut"}]
    BY <1>1 DEF safeStop
  <2>4. QED
    BY <2>1, <2>2, <2>3
<1>2. CASE CloseClean(c)
  BY <1>2 DEF CloseClean
<1>3. CASE CloseTimesOut(c)
  BY <1>3 DEF CloseTimesOut
<1>4. QED
  BY <1>1, <1>2, <1>3 DEF CloseStep

LEMMA StopInductive == TaskSpec => []StopInv
<1>1. TaskInit => StopInv
  BY StopInit
<1>2. StopInv /\ [TaskNext]_taskVars => StopInv'
  <2> SUFFICES ASSUME StopInv, [TaskNext]_taskVars PROVE StopInv'
    OBVIOUS
  <2>1. CASE TaskNext
    BY <2>1, StopLoop, StopExecution, StopClose DEF TaskNext
  <2>2. CASE UNCHANGED taskVars
    BY <2>2 DEF taskVars, StopInv, TaskTypeOK, WaitsForOne, RunningIsOpen, DoneMeansExited
  <2>3. QED
    BY <2>1, <2>2
<1>3. QED
  BY <1>1, <1>2, PTL DEF TaskSpec

\* Stop is closed at most once (a second close would panic), however many callers of
\* Close race with each other and with the loop; the other variables keep their types.
THEOREM StopClosedOnce == TaskSpec => []TaskTypeOK
  BY StopInductive, PTL DEF StopInv

\* Done is closed when the loop goroutine has gone and not before, after a Stop, and with
\* no execution the loop still waits for: a Close that returned by it may tear down.
THEOREM DoneIsExit == TaskSpec => []DoneMeansExited
  BY StopInductive, PTL DEF StopInv
=============================================================================

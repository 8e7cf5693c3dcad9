-------------------------------- MODULE Task --------------------------------
(***************************************************************************)
(* The periodic task (common/task/task.go) that drives a controller's      *)
(* monitor and report functions: a ticker loop, one child goroutine per    *)
(* execution with a watchdog deadline, and Close, which waits for the loop *)
(* for at most 30 seconds.                                                 *)
(***************************************************************************)
EXTENDS Naturals, FiniteSets

CONSTANTS
    Slots,      \* Execute goroutines that can exist at the same time
    Closers,    \* callers of Close
    None

ASSUME NoneAssumption == None \notin Slots

VARIABLES
    Running,    \* t.Running, under t.Access
    stopClosed, \* how often t.Stop was closed
    doneClosed, \* t.Done is closed
    loop,       \* the loop goroutine: "none", "first", "wait", "run", "select", "exited"
    current,        \* the execution runOnce is waiting for
    exec,       \* state of each Execute goroutine: "free", "busy", "over"
    cancelled,  \* executions whose context was cancelled
    closer      \* callers of Close: "out", "stopped", "clean", "timedOut"

taskVars == <<Running, stopClosed, doneClosed, loop, current, exec, cancelled, closer>>

TaskTypeOK ==
    /\ Running \in BOOLEAN
    /\ stopClosed \in 0 .. 1
    /\ doneClosed \in BOOLEAN
    /\ loop \in {"none", "first", "wait", "run", "select", "exited"}
    /\ current \in Slots \cup {None}
    /\ exec \in [Slots -> {"free", "busy", "over"}]
    /\ cancelled \in SUBSET Slots
    /\ closer \in [Closers -> {"out", "stopped", "clean", "timedOut"}]

\* Start: a second call finds Running set and does nothing.
Start ==
    /\ loop = "none"
    /\ ~Running
    /\ Running' = TRUE
    /\ loop' = "first"
    /\ UNCHANGED <<stopClosed, doneClosed, current, exec, cancelled, closer>>

\* Start(true) runs the body once before the first tick; runOnce spawns Execute
\* with a context of its own.
RunOnce ==
    /\ loop \in {"first", "run"}
    /\ \E s \in Slots :
        /\ exec[s] = "free"
        /\ exec' = [exec EXCEPT ![s] = "busy"]
        /\ current' = s
    /\ loop' = "select"
    /\ UNCHANGED <<Running, stopClosed, doneClosed, cancelled, closer>>

\* Execute returns, with or without an error, or panics and is recovered.  An
\* abandoned one just ends; nobody is waiting for it.
ExecuteEnds(s) ==
    /\ exec[s] = "busy"
    /\ exec' = [exec EXCEPT ![s] = IF current = s THEN "over" ELSE "free"]
    /\ cancelled' = cancelled \ {s}
    /\ UNCHANGED <<Running, stopClosed, doneClosed, loop, current, closer>>

\* The select of runOnce: done, or the deadline, after which the loop goes on.
SelectDone ==
    /\ loop = "select" /\ exec[current] = "over"
    /\ exec' = [exec EXCEPT ![current] = "free"]
    /\ current' = None
    /\ loop' = "wait"
    /\ UNCHANGED <<Running, stopClosed, doneClosed, cancelled, closer>>

\* Mutant: runOnce waits for Execute without a deadline.
NoDeadline ==
    /\ loop = "select" /\ exec[current] = "over"
    /\ UNCHANGED taskVars

Deadline ==
    /\ loop = "select"
    /\ exec' = [exec EXCEPT ![current] = IF @ = "over" THEN "free" ELSE @]
    /\ cancelled' = IF exec[current] = "busy" THEN cancelled \cup {current} ELSE cancelled
    /\ current' = None
    /\ loop' = "wait"
    /\ UNCHANGED <<Running, stopClosed, doneClosed, closer>>

\* The select of the loop; with both ready Go picks either.
Tick ==
    /\ loop = "wait"
    /\ loop' = "run"
    /\ UNCHANGED <<Running, stopClosed, doneClosed, current, exec, cancelled, closer>>

\* Mutant: the loop does not look at Stop.
StopIgnored == FALSE

StopSeen ==
    /\ loop = "wait" /\ stopClosed > 0
    /\ loop' = "exited"
    /\ doneClosed' = TRUE
    /\ UNCHANGED <<Running, stopClosed, current, exec, cancelled, closer>>

\* Close begins with safeStop, which holds t.Access.
safeStop(c) ==
    /\ closer[c] = "out" /\ loop # "none"
    /\ Running' = FALSE
    /\ stopClosed' = IF Running THEN stopClosed + 1 ELSE stopClosed
    /\ closer' = [closer EXCEPT ![c] = "stopped"]
    /\ UNCHANGED <<doneClosed, loop, current, exec, cancelled>>

\* Close returns because the loop exited, or after 30 seconds.
CloseClean(c) ==
    /\ closer[c] = "stopped" /\ doneClosed
    /\ closer' = [closer EXCEPT ![c] = "clean"]
    /\ UNCHANGED <<Running, stopClosed, doneClosed, loop, current, exec, cancelled>>

CloseTimesOut(c) ==
    /\ closer[c] = "stopped" /\ ~doneClosed
    /\ closer' = [closer EXCEPT ![c] = "timedOut"]
    /\ UNCHANGED <<Running, stopClosed, doneClosed, loop, current, exec, cancelled>>

TaskInit ==
    /\ Running = FALSE
    /\ stopClosed = 0
    /\ doneClosed = FALSE
    /\ loop = "none"
    /\ current = None
    /\ exec = [s \in Slots |-> "free"]
    /\ cancelled = {}
    /\ closer = [c \in Closers |-> "out"]

Loop == RunOnce \/ SelectDone \/ Deadline \/ Tick \/ StopSeen
CloseStep(c) == safeStop(c) \/ CloseClean(c) \/ CloseTimesOut(c)

TaskNext ==
    \/ Start
    \/ Loop
    \/ \E s \in Slots : ExecuteEnds(s)
    \/ \E c \in Closers : CloseStep(c)

TaskSpec == TaskInit /\ [][TaskNext]_taskVars

\* The loop goroutine and its timers make progress, and so does a Close once
\* begun.  Nothing is assumed of an execution that is being waited for; one that
\* was cancelled ends, since the context is wired into its network calls and
\* everything else it does is bounded.  Stop is noticed eventually: a select
\* between the tick and Stop that stays ready is not always decided for the tick.
TaskFairSpec ==
    /\ TaskSpec
    /\ WF_taskVars(Loop) /\ SF_taskVars(StopSeen)
    /\ \A c \in Closers : WF_taskVars(CloseClean(c) \/ CloseTimesOut(c))
    /\ \A s \in Slots : WF_taskVars(s \in cancelled /\ ExecuteEnds(s))

-----------------------------------------------------------------------------
(* Properties.                                                              *)

\* t.Done is closed exactly when the loop goroutine has gone, and only after a
\* Stop; the loop never starts an execution afterwards.
DoneMeansExited ==
    /\ doneClosed <=> loop = "exited"
    /\ doneClosed => stopClosed = 1 /\ current = None /\ ~Running

\* "A failed cycle is logged and swallowed so the periodic loop ALWAYS continues":
\* until it is stopped the loop keeps starting executions, even if one hangs.
LoopContinues == []<>(loop \in {"none", "first", "run"} \/ stopClosed > 0)

\* After a Stop the loop goroutine goes away, whatever Execute does.
LoopExits == stopClosed > 0 ~> loop = "exited"
=============================================================================

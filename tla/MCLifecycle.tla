---------------------------- MODULE MCLifecycle ----------------------------
(***************************************************************************)
(* Starting, reloading, crashing and stopping, for TLC: the process with   *)
(* its nodes and limiters, the certificates its nodes serve, and the       *)
(* periodic task.  They share no state here; each behaviour is one of one  *)
(* part, the others stay where they began.                                 *)
(***************************************************************************)
EXTENDS Reload, Cert, Task, TLC

CONSTANTS x1, x2        \* TlsNodes

VARIABLE part

MCTlsNodes == {x1, x2}

Deployment(panel1, panel2, local2, k) ==
    [panel |-> x1 :> panel1 @@ x2 :> panel2, local |-> x1 :> "" @@ x2 :> local2, events |-> k]

\* Two nodes that issue and renew, one of them by its local settings; files of the panel's
\* beside a self-signed pair; one node that issues, with a renewal and a crash.
MCDeployments == {Deployment("dns", "none", "dns", 1), Deployment("self", "remote", "", 2),
                  Deployment("dns", "none", "", 2)}

LifecycleInit ==
    /\ part \in {"reload", "cert", "task"}
    /\ Init /\ CertInit /\ TaskInit
    /\ part # "reload" => file = CHOOSE f \in Files : TRUE
    /\ part # "cert" => left = 1

ReloadMoves == part = "reload" /\ Next /\ UNCHANGED <<part, certVars, taskVars>>
CertMoves   == part = "cert" /\ CertNext /\ UNCHANGED <<part, vars, taskVars>>
TaskMoves   == part = "task" /\ TaskNext /\ UNCHANGED <<part, vars, certVars>>

LifecycleNext == ReloadMoves \/ CertMoves \/ TaskMoves

\* The fairness of the part that moves.
LifecycleFairness ==
    /\ WF_vars(part = "reload" /\ WatchEvent) /\ WF_vars(part = "reload" /\ Signal)
    /\ WF_vars(part = "reload" /\ reload)
    /\ \A n \in TlsNodes : WF_certVars(part = "cert" /\ (LockCertMu(n) \/ StartStep(n)))
    /\ WF_taskVars(part = "task" /\ Loop) /\ SF_taskVars(part = "task" /\ StopSeen)
    /\ \A c \in Closers : WF_taskVars(part = "task" /\ (CloseClean(c) \/ CloseTimesOut(c)))
    /\ \A s \in Slots : WF_taskVars(part = "task" /\ s \in cancelled /\ ExecuteEnds(s))

LifecycleSpec ==
    LifecycleInit /\ [][LifecycleNext]_<<part, vars, certVars, taskVars>> /\ LifecycleFairness
=============================================================================

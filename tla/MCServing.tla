----------------------------- MODULE MCServing -----------------------------
(***************************************************************************)
(* What serves the connections and answers for them to the panel, for TLC: *)
(* the dispatcher, the relays of the fronts and runners, the loopback      *)
(* fronts, the counting and reporting of traffic, and a cycle's calls to   *)
(* the panel.  They share no state here; each behaviour is one of one      *)
(* part, the others stay where they began.                                 *)
(***************************************************************************)
EXTENDS Dispatch, Relay, Front, Traffic, Panel, TLC

VARIABLE part

ServingInit ==
    /\ part \in {"dispatch", "relay", "front", "traffic", "panel"}
    /\ DispatchInit /\ RelayInit /\ FrontInit /\ TrafficInit /\ PanelInit
    /\ part # "dispatch" => entry = "Dispatch" /\ ~parting
    /\ part # "relay" => relay = "snirouter"
    /\ part # "panel" => nodeType = ""

DispatchMoves ==
    part = "dispatch" /\ DispatchNext /\ UNCHANGED <<part, relayVars, frontVars, trafficVars, panelVars>>
RelayMoves ==
    part = "relay" /\ RelayNext /\ UNCHANGED <<part, dispatchVars, frontVars, trafficVars, panelVars>>
FrontMoves ==
    part = "front" /\ FrontNext /\ UNCHANGED <<part, dispatchVars, relayVars, trafficVars, panelVars>>
TrafficMoves ==
    part = "traffic" /\ TrafficNext /\ UNCHANGED <<part, dispatchVars, relayVars, frontVars, panelVars>>
PanelMoves ==
    part = "panel" /\ PanelNext /\ UNCHANGED <<part, dispatchVars, relayVars, frontVars, trafficVars>>

ServingNext == DispatchMoves \/ RelayMoves \/ FrontMoves \/ TrafficMoves \/ PanelMoves

\* The fairness of the part that moves.
ServingFairness ==
    /\ WF_dispatchVars(part = "dispatch" /\ Admission) /\ WF_dispatchVars(part = "dispatch" /\ Sniffing)
    /\ WF_dispatchVars(part = "dispatch" /\ Routing)
    /\ WF_relayVars(part = "relay" /\ HandlerStep)
    /\ \A p \in Peers : WF_relayVars(part = "relay" /\ CopierStep(p))
    /\ WF_relayVars(part = "relay" /\ RelayTick) /\ WF_relayVars(part = "relay" /\ TimerFires)
    /\ WF_relayVars(part = "relay" /\ closeBoth)
    /\ \A c \in Adders : WF_frontVars(part = "front" /\ CallStep(c))
    /\ \A o \in Instances : WF_frontVars(part = "front" /\ SuperviseStep(o))
    /\ WF_trafficVars(part = "traffic" /\ reportUserTrafficTask)
    /\ WF_trafficVars(part = "traffic" /\ DelUserCounter)
    /\ \A c \in Conns : WF_trafficVars(part = "traffic" /\ getLink(c))
    /\ WF_panelVars(part = "panel" /\ ClientStep) /\ WF_panelVars(part = "panel" /\ PanelTick)

ServingSpec ==
    /\ ServingInit
    /\ [][ServingNext]_<<part, dispatchVars, relayVars, frontVars, trafficVars, panelVars>>
    /\ ServingFairness
=============================================================================

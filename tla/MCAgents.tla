------------------------------ MODULE MCAgents ------------------------------
(***************************************************************************)
(* The agent link of the cloud for TLC: which socket an agent is served by *)
(* (AgentRouting) and what becomes of a command relayed to it              *)
(* (RelayRequests).  Of the link the relay needs no more than that a write *)
(* may fail and that what is on it may be lost, both of which              *)
(* RelayRequests has, so a behaviour is one of routing or one of relaying. *)
(***************************************************************************)
EXTENDS AgentRouting, RelayRequests

VARIABLE about  \* the part of the link that moves

LinkInit == RoutingInit /\ RelayInit /\ about \in {"routing", "relaying"}

LinkNext ==
  \/ about = "routing" /\ RoutingNext /\ UNCHANGED <<relayVars, about>>
  \/ about = "relaying" /\ RelayNext /\ UNCHANGED <<routingVars, about>>

LinkSpec == LinkInit /\ [][LinkNext]_<<routingVars, relayVars, about>> /\ Fairness /\ RelayFairness
=============================================================================

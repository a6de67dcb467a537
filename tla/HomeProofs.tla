----------------------------- MODULE HomeProofs -----------------------------
(***************************************************************************)
(* The home, for any number of accounts, invitations, agents, sockets and  *)
(* requests.  First the routing of its agents' sockets, then who belongs   *)
(* to it and which agent tokens are good.                                  *)
(***************************************************************************)
EXTENDS AgentRouting, HomeAccess, TLAPS

\* A goroutine is running for an agent, and knows it.
OwnerKnown ==
  \A c \in Sockets : handler[c] # "unused" => owner[c] \in Agents

\* RegisterAgent sets the connection ID that the cleanup relies on.
RegisteredOnceRouted ==
  \A c \in Sockets : handler[c] \in {"routed", "live"} => registered[c]

\* An online status is always owed to a goroutine that will write "offline",
\* or would have, had the process not died or the write not failed.
OnlineIsOwed ==
  \A a \in Agents : status[a] = "online" =>
    \E c \in Sockets :
      /\ owner[c] = a
      /\ handler[c] \in {"upserted", "routed", "live", "closing",
                         "unregistered", "rowClosed", "lost"}

RoutingInv ==
  /\ TypeOK
  /\ OwnerKnown
  /\ RegisteredOnceRouted
  /\ RoutedSocketServed
  /\ PrimaryIsRouted
  /\ OnlineIsOwed

USE DEF HandlerStates, Goto, router

\* The initial state: no socket, no route, every agent offline.
LEMMA RoutingInitially == RoutingInit => RoutingInv
  BY PrimaryAssumption, NullAssumption
    DEF RoutingInit, RoutingInv, TypeOK, OwnerKnown, RegisteredOnceRouted,
           RoutedSocketServed, PrimaryIsRouted, OnlineIsOwed

\* Every step preserves the invariant.
LEMMA RoutingStep == RoutingInv /\ [RoutingNext]_routingVars => RoutingInv'
<1> SUFFICES ASSUME RoutingInv, [RoutingNext]_routingVars PROVE RoutingInv'
  OBVIOUS
<1> USE PrimaryAssumption, NullAssumption
<1>1. ASSUME NEW a \in Agents, NEW c \in Sockets, AgentDials(a, c) PROVE RoutingInv'
  <2>1. TypeOK'
    BY Zenon, <1>1 DEF AgentDials, RoutingInv, TypeOK
  <2>2. OwnerKnown'
    BY Zenon, <1>1 DEF AgentDials, RoutingInv, TypeOK, OwnerKnown
  <2>3. RegisteredOnceRouted'
    BY <1>1 DEF AgentDials, RoutingInv, RegisteredOnceRouted
  <2>4. RoutedSocketServed'
    BY <1>1 DEF AgentDials, RoutingInv, RoutedSocketServed
  <2>5. PrimaryIsRouted'
    BY Zenon, <1>1 DEF AgentDials, RoutingInv, PrimaryIsRouted
  <2>6. OnlineIsOwed'
    BY <1>1 DEF AgentDials, RoutingInv, OnlineIsOwed
  <2> QED
    BY Zenon, <2>1, <2>2, <2>3, <2>4, <2>5, <2>6 DEF RoutingInv
<1>2. ASSUME NEW a \in Agents, AgentDrops(a) PROVE RoutingInv'
  BY <1>2
    DEF AgentDrops, RoutingInv, TypeOK, OwnerKnown, RegisteredOnceRouted,
           RoutedSocketServed, PrimaryIsRouted, OnlineIsOwed
<1>3. ASSUME NEW a \in Agents, DeleteAgent(a) PROVE RoutingInv'
  <2>1. TypeOK'
    BY Zenon, <1>3 DEF DeleteAgent, RoutingInv, TypeOK
  <2>2. OwnerKnown'
    BY Zenon, <1>3 DEF DeleteAgent, RoutingInv, OwnerKnown
  <2>3. RegisteredOnceRouted'
    BY Zenon, <1>3 DEF DeleteAgent, RoutingInv, RegisteredOnceRouted
  <2>4. RoutedSocketServed'
    BY Zenon, <1>3 DEF DeleteAgent, RoutingInv, RoutedSocketServed
  <2>5. PrimaryIsRouted'
    BY Zenon, <1>3 DEF DeleteAgent, RoutingInv, PrimaryIsRouted
  <2>6. OnlineIsOwed'
    BY <1>3 DEF DeleteAgent, RoutingInv, OnlineIsOwed
  <2> QED
    BY Zenon, <2>1, <2>2, <2>3, <2>4, <2>5, <2>6 DEF RoutingInv
<1>4. ASSUME NEW a \in Agents, DisconnectAgent(a) PROVE RoutingInv'
  <2>1. TypeOK'
    BY <1>4 DEF DisconnectAgent, Unroute, RoutingInv, TypeOK
  <2>2. OwnerKnown'
    BY Zenon, <1>4 DEF DisconnectAgent, RoutingInv, OwnerKnown
  <2>3. RegisteredOnceRouted'
    BY Zenon, <1>4 DEF DisconnectAgent, RoutingInv, RegisteredOnceRouted
  <2>4. RoutedSocketServed'
    BY <1>4 DEF DisconnectAgent, Unroute, RoutingInv, TypeOK, RoutedSocketServed
  <2>5. PrimaryIsRouted'
    BY <1>4 DEF DisconnectAgent, Unroute, RoutingInv, TypeOK, PrimaryIsRouted
  <2>6. OnlineIsOwed'
    BY Zenon, <1>4 DEF DisconnectAgent, RoutingInv, OnlineIsOwed
  <2> QED
    BY Zenon, <2>1, <2>2, <2>3, <2>4, <2>5, <2>6 DEF RoutingInv
<1>5. ASSUME NEW c \in Sockets, UpsertAgent(c) PROVE RoutingInv'
  <2>1. TypeOK'
    BY Zenon, <1>5 DEF UpsertAgent, RoutingInv, TypeOK
  <2>2. OwnerKnown'
    BY <1>5 DEF UpsertAgent, RoutingInv, OwnerKnown
  <2>3. RegisteredOnceRouted'
    BY <1>5 DEF UpsertAgent, RoutingInv, RegisteredOnceRouted
  <2>4. RoutedSocketServed'
    BY <1>5 DEF UpsertAgent, RoutingInv, RoutedSocketServed
  <2>5. PrimaryIsRouted'
    BY Zenon, <1>5 DEF UpsertAgent, RoutingInv, PrimaryIsRouted
  <2>6. OnlineIsOwed'
    BY <1>5 DEF UpsertAgent, RoutingInv, TypeOK, OnlineIsOwed
  <2> QED
    BY Zenon, <2>1, <2>2, <2>3, <2>4, <2>5, <2>6 DEF RoutingInv
<1>6. ASSUME NEW c \in Sockets, UpsertAgentFails(c) PROVE RoutingInv'
  <2>1. TypeOK'
    BY Zenon, <1>6 DEF UpsertAgentFails, RoutingInv, TypeOK
  <2>2. OwnerKnown'
    BY <1>6 DEF UpsertAgentFails, RoutingInv, OwnerKnown
  <2>3. RegisteredOnceRouted'
    BY <1>6 DEF UpsertAgentFails, RoutingInv, RegisteredOnceRouted
  <2>4. RoutedSocketServed'
    BY <1>6 DEF UpsertAgentFails, RoutingInv, RoutedSocketServed
  <2>5. PrimaryIsRouted'
    BY Zenon, <1>6 DEF UpsertAgentFails, RoutingInv, PrimaryIsRouted
  <2>6. OnlineIsOwed'
    BY <1>6 DEF UpsertAgentFails, RoutingInv, OnlineIsOwed
  <2> QED
    BY Zenon, <2>1, <2>2, <2>3, <2>4, <2>5, <2>6 DEF RoutingInv
<1>7. ASSUME NEW c \in Sockets, RegisterAgent(c) PROVE RoutingInv'
  <2>1. TypeOK'
    BY Zenon, <1>7 DEF RegisterAgent, RoutingInv, TypeOK
  <2>2. OwnerKnown'
    BY <1>7 DEF RegisterAgent, RoutingInv, OwnerKnown
  <2>3. RegisteredOnceRouted'
    BY Zenon, <1>7 DEF RegisterAgent, RoutingInv, TypeOK, RegisteredOnceRouted
  <2>4. RoutedSocketServed'
    BY <1>7 DEF RegisterAgent, RoutingInv, TypeOK, RoutedSocketServed
  <2>5. PrimaryIsRouted'
    BY Zenon, <1>7 DEF RegisterAgent, RoutingInv, TypeOK, PrimaryIsRouted
  <2>6. OnlineIsOwed'
    BY <1>7 DEF RegisterAgent, RoutingInv, OnlineIsOwed
  <2> QED
    BY Zenon, <2>1, <2>2, <2>3, <2>4, <2>5, <2>6 DEF RoutingInv
<1>8. ASSUME NEW c \in Sockets, FinishRegister(c) PROVE RoutingInv'
  <2>1. TypeOK'
    BY SMTT(30), <1>8 DEF FinishRegister, RoutingInv, TypeOK
  <2>2. OwnerKnown'
    BY Zenon, <1>8 DEF FinishRegister, RoutingInv, TypeOK, OwnerKnown
  <2>3. RegisteredOnceRouted'
    BY Zenon, <1>8 DEF FinishRegister, RoutingInv, TypeOK, RegisteredOnceRouted
  <2>4. RoutedSocketServed'
    BY <1>8 DEF FinishRegister, RoutingInv, TypeOK, RoutedSocketServed
  <2>5. PrimaryIsRouted'
    BY Zenon, <1>8 DEF FinishRegister, RoutingInv, PrimaryIsRouted
  <2>6. OnlineIsOwed'
    BY <1>8 DEF FinishRegister, RoutingInv, TypeOK, OnlineIsOwed
  <2> QED
    BY Zenon, <2>1, <2>2, <2>3, <2>4, <2>5, <2>6 DEF RoutingInv
<1>9. ASSUME NEW c \in Sockets, Heartbeat(c) PROVE RoutingInv'
  <2>1. TypeOK'
    BY Zenon, <1>9 DEF Heartbeat, RoutingInv, TypeOK
  <2>2. OwnerKnown'
    BY Zenon, <1>9 DEF Heartbeat, RoutingInv, OwnerKnown
  <2>3. RegisteredOnceRouted'
    BY Zenon, <1>9 DEF Heartbeat, RoutingInv, RegisteredOnceRouted
  <2>4. RoutedSocketServed'
    BY Zenon, <1>9 DEF Heartbeat, RoutingInv, RoutedSocketServed
  <2>5. PrimaryIsRouted'
    BY Zenon, <1>9 DEF Heartbeat, RoutingInv, PrimaryIsRouted
  <2>6. OnlineIsOwed'
    BY <1>9 DEF Heartbeat, RoutingInv, OnlineIsOwed
  <2> QED
    BY Zenon, <2>1, <2>2, <2>3, <2>4, <2>5, <2>6 DEF RoutingInv
<1>10. ASSUME NEW c \in Sockets, ReadFails(c) PROVE RoutingInv'
  <2>1. TypeOK'
    BY Zenon, <1>10 DEF ReadFails, RoutingInv, TypeOK
  <2>2. OwnerKnown'
    BY <1>10 DEF ReadFails, RoutingInv, OwnerKnown, RegisteredOnceRouted
  <2>3. RegisteredOnceRouted'
    BY <1>10 DEF ReadFails, RoutingInv, RegisteredOnceRouted
  <2>4. RoutedSocketServed'
    BY <1>10 DEF ReadFails, RoutingInv, RoutedSocketServed
  <2>5. PrimaryIsRouted'
    BY Zenon, <1>10 DEF ReadFails, RoutingInv, PrimaryIsRouted
  <2>6. OnlineIsOwed'
    BY <1>10 DEF ReadFails, RoutingInv, OnlineIsOwed
  <2> QED
    BY Zenon, <2>1, <2>2, <2>3, <2>4, <2>5, <2>6 DEF RoutingInv
<1>11. ASSUME NEW c \in Sockets, UnregisterAgent(c) PROVE RoutingInv'
  <2>1. TypeOK'
    BY Zenon, <1>11 DEF UnregisterAgent, Unroute, RoutingInv, TypeOK
  <2>2. OwnerKnown'
    BY <1>11 DEF UnregisterAgent, Unroute, RoutingInv, OwnerKnown
  <2>3. RegisteredOnceRouted'
    BY Zenon, <1>11 DEF UnregisterAgent, Unroute, UnregisterMatches, RoutingInv, TypeOK, OwnerKnown,
       RegisteredOnceRouted
  <2>4. RoutedSocketServed'
    BY <1>11
      DEF UnregisterAgent, Unroute, UnregisterMatches, RoutingInv, TypeOK,
             OwnerKnown, RoutedSocketServed
  <2>5. PrimaryIsRouted'
    BY <1>11
      DEF UnregisterAgent, Unroute, UnregisterMatches, RoutingInv, TypeOK,
             OwnerKnown, PrimaryIsRouted
  <2>6. OnlineIsOwed'
    BY <1>11
      DEF UnregisterAgent, Unroute, UnregisterMatches, RoutingInv, OwnerKnown,
             RegisteredOnceRouted, OnlineIsOwed
  <2> QED
    BY Zenon, <2>1, <2>2, <2>3, <2>4, <2>5, <2>6 DEF RoutingInv
<1>12. ASSUME NEW c \in Sockets, MarkDisconnected(c) PROVE RoutingInv'
  <2>1. TypeOK'
    BY Zenon, <1>12 DEF MarkDisconnected, RoutingInv, TypeOK
  <2>2. OwnerKnown'
    BY <1>12
      DEF MarkDisconnected, RoutingInv, TypeOK, OwnerKnown, RegisteredOnceRouted,
             RoutedSocketServed
  <2>3. RegisteredOnceRouted'
    BY <1>12
      DEF MarkDisconnected, RoutingInv, TypeOK, OwnerKnown, RegisteredOnceRouted,
             RoutedSocketServed
  <2>4. RoutedSocketServed'
    BY SMTT(60), <1>12
      DEF MarkDisconnected, RoutingInv, TypeOK, OwnerKnown, RegisteredOnceRouted,
             RoutedSocketServed
  <2>5. PrimaryIsRouted'
    BY Zenon, <1>12 DEF MarkDisconnected, RoutingInv, PrimaryIsRouted
  <2>6. OnlineIsOwed'
    BY <1>12
      DEF MarkDisconnected, RoutingInv, TypeOK, OwnerKnown, RegisteredOnceRouted,
             OnlineIsOwed
  <2> QED
    BY Zenon, <2>1, <2>2, <2>3, <2>4, <2>5, <2>6 DEF RoutingInv
<1>13. ASSUME NEW c \in Sockets, SetOffline(c) PROVE RoutingInv'
  <2>1. TypeOK'
    BY Zenon, <1>13 DEF SetOffline, RoutingInv, TypeOK
  <2>2. OwnerKnown'
    BY Zenon, <1>13 DEF SetOffline, RoutingInv, TypeOK, OwnerKnown, RegisteredOnceRouted
  <2>3. RegisteredOnceRouted'
    BY <1>13
      DEF SetOffline, RoutingInv, TypeOK, OwnerKnown, RegisteredOnceRouted,
             RoutedSocketServed
  <2>4. RoutedSocketServed'
    BY <1>13
      DEF SetOffline, RoutingInv, TypeOK, OwnerKnown, RegisteredOnceRouted,
             RoutedSocketServed
  <2>5. PrimaryIsRouted'
    BY Zenon, <1>13 DEF SetOffline, RoutingInv, PrimaryIsRouted
  <2>6. OnlineIsOwed'
    BY <1>13
      DEF SetOffline, RoutingInv, TypeOK, OwnerKnown, RegisteredOnceRouted,
             OnlineIsOwed
  <2> QED
    BY Zenon, <2>1, <2>2, <2>3, <2>4, <2>5, <2>6 DEF RoutingInv
<1>14. ASSUME NEW c \in Sockets, SetOfflineFails(c) PROVE RoutingInv'
  <2>1. TypeOK'
    BY Zenon, <1>14 DEF SetOfflineFails, RoutingInv, TypeOK
  <2>2. OwnerKnown'
    BY Zenon, <1>14 DEF SetOfflineFails, RoutingInv, TypeOK, OwnerKnown
  <2>3. RegisteredOnceRouted'
    BY <1>14 DEF SetOfflineFails, RoutingInv, TypeOK, RegisteredOnceRouted
  <2>4. RoutedSocketServed'
    BY <1>14 DEF SetOfflineFails, RoutingInv, TypeOK, RoutedSocketServed
  <2>5. PrimaryIsRouted'
    BY Zenon, <1>14 DEF SetOfflineFails, RoutingInv, PrimaryIsRouted
  <2>6. OnlineIsOwed'
    BY <1>14 DEF SetOfflineFails, RoutingInv, TypeOK, OnlineIsOwed
  <2> QED
    BY Zenon, <2>1, <2>2, <2>3, <2>4, <2>5, <2>6 DEF RoutingInv
<1>15. ASSUME CloudRestarts PROVE RoutingInv'
  <2>1. TypeOK'
    BY Zenon, <1>15 DEF CloudRestarts, RoutingInv, TypeOK
  <2>2. OwnerKnown'
    BY Zenon, <1>15 DEF CloudRestarts, RoutingInv, OwnerKnown
  <2>3. RegisteredOnceRouted'
    BY Zenon, <1>15 DEF CloudRestarts, RoutingInv, RegisteredOnceRouted
  <2>4. RoutedSocketServed'
    BY Zenon, <1>15 DEF CloudRestarts, RoutedSocketServed
  <2>5. PrimaryIsRouted'
    BY Zenon, <1>15 DEF CloudRestarts, PrimaryIsRouted
  <2>6. OnlineIsOwed'
    BY <1>15
      DEF CloudRestarts, RoutingInv, TypeOK, OwnerKnown, RoutedSocketServed,
             OnlineIsOwed
  <2> QED
    BY Zenon, <2>1, <2>2, <2>3, <2>4, <2>5, <2>6 DEF RoutingInv
<1>16. ASSUME UNCHANGED routingVars PROVE RoutingInv'
  BY Zenon, <1>16 DEF routingVars, RoutingInv, TypeOK, OwnerKnown, RegisteredOnceRouted,
     RoutedSocketServed, PrimaryIsRouted, OnlineIsOwed
<1> QED
  BY Zenon, <1>1, <1>2, <1>3, <1>4, <1>5, <1>6, <1>7, <1>8, <1>9, <1>10, <1>11,
     <1>12, <1>13, <1>14, <1>15, <1>16
    DEF RoutingNext, SocketStep

\* The inductive invariant holds in every reachable state.
THEOREM RoutingHolds == RoutingSpec => []RoutingInv
  BY RoutingInitially, RoutingStep, PTL DEF RoutingSpec

\* Type correctness of the router, the handlers and the store's rows.
THEOREM TypeCorrect == RoutingSpec => []TypeOK
<1>1. RoutingInv => TypeOK
  BY Zenon DEF RoutingInv
<1> QED
  BY RoutingHolds, <1>1, PTL

\* GetAgent never follows a dangling primary route: Unroute clears the
\* primary together with the connection.
THEOREM PrimaryRoute == RoutingSpec => []PrimaryIsRouted
<1>1. RoutingInv => PrimaryIsRouted
  BY Zenon DEF RoutingInv
<1> QED
  BY RoutingHolds, <1>1, PTL

\* No connection outlives the goroutine that would unregister it, although
\* any other goroutine of the same agent may overwrite the route meanwhile.
THEOREM RouteServed == RoutingSpec => []RoutedSocketServed
<1>1. RoutingInv => RoutedSocketServed
  BY Zenon DEF RoutingInv
<1> QED
  BY RoutingHolds, <1>1, PTL

\* However registrations, heartbeats and cleanups of an agent's sockets
\* interleave, the last goroutine to end leaves the agent offline.
THEOREM OfflineInTheEnd == RoutingSpec => []OfflineOnceAllClosed
<1>1. RoutingInv => OfflineOnceAllClosed
  BY SMTT(60) DEF RoutingInv, TypeOK, OnlineIsOwed, OfflineOnceAllClosed
<1> QED
  BY RoutingHolds, <1>1, PTL

\* A route disappears only through its own goroutine's cleanup, a removal of
\* the agent, the end of the process, or the cleanup of a socket that never
\* registered, which UnregisterAgent lets match any connection.
THEOREM RoutesGoForCause == RoutingSpec => UnrouteHasCause
<1> DEFINE Cause(a) ==
      agentsByHomeID[a] # NoSocket /\ agentsByHomeID'[a] = NoSocket =>
        \/ handler[agentsByHomeID[a]] = "closing"
        \/ a \in removing
        \/ handler'[agentsByHomeID[a]] = "lost"
        \/ \E c \in Sockets : /\ owner[c] = a /\ ~registered[c]
                              /\ handler[c] = "closing"
<1>1. ASSUME RoutingInv, RoutingNext, NEW a \in Agents PROVE Cause(a)
  <2> USE NullAssumption
  <2>1. ASSUME UNCHANGED agentsByHomeID PROVE Cause(a)
    BY Zenon, <2>1
  <2>2. ASSUME NEW b \in Agents, DisconnectAgent(b) PROVE Cause(a)
    <3>1. CASE b = a
      BY Zenon, <2>2, <3>1 DEF DisconnectAgent
    <3>2. CASE b # a
      <4>1. agentsByHomeID \in [Agents -> Sockets \cup {NoSocket}]
        BY Zenon, <1>1 DEF RoutingInv, TypeOK
      <4>2. \/ agentsByHomeID' = agentsByHomeID
            \/ agentsByHomeID' = [agentsByHomeID EXCEPT ![b] = NoSocket]
        BY Zenon, <2>2 DEF DisconnectAgent, Unroute
      <4> QED
        BY Zenon, <3>2, <4>1, <4>2
    <3> QED
      BY Zenon, <3>1, <3>2
  <2>3. ASSUME NEW c \in Sockets, RegisterAgent(c) PROVE Cause(a)
    BY <2>3 DEF RegisterAgent, RoutingInv, TypeOK
  <2>4. ASSUME NEW c \in Sockets, UnregisterAgent(c) PROVE Cause(a)
    <3>1. CASE agentsByHomeID'[a] = agentsByHomeID[a]
      BY Zenon, <3>1
    <3>2. CASE agentsByHomeID'[a] # agentsByHomeID[a]
      <4>1. owner[c] = a /\ UnregisterMatches(c) /\ handler[c] = "closing"
        <5>1. agentsByHomeID \in [Agents -> Sockets \cup {NoSocket}]
          BY Zenon, <1>1 DEF RoutingInv, TypeOK
        <5>2. \/ agentsByHomeID' = agentsByHomeID
              \/ /\ agentsByHomeID' = [agentsByHomeID EXCEPT ![owner[c]] = NoSocket]
                 /\ UnregisterMatches(c)
          BY Zenon, <2>4 DEF UnregisterAgent, Unroute
        <5> QED
          BY Zenon, <2>4, <3>2, <5>1, <5>2 DEF UnregisterAgent
      <4>2. CASE registered[c]
        BY Zenon, <4>1, <4>2 DEF UnregisterMatches
      <4>3. CASE ~registered[c]
        BY Zenon, <4>1, <4>3
      <4> QED
        BY Zenon, <4>2, <4>3
    <3> QED
      BY Zenon, <3>1, <3>2
  <2>5. CASE CloudRestarts
    <3>1. ASSUME NEW c \in Sockets, agentsByHomeID[a] = c PROVE handler'[c] = "lost"
      BY Zenon, <1>1, <2>5, <3>1 DEF CloudRestarts, RoutingInv, RoutedSocketServed
    <3>2. agentsByHomeID[a] \in Sockets \cup {NoSocket}
      BY Zenon, <1>1 DEF RoutingInv, TypeOK
    <3> QED
      BY Zenon, <3>1, <3>2
  <2>6. ASSUME NEW b \in Agents, NEW c \in Sockets, AgentDials(b, c) PROVE Cause(a)
    BY Zenon, <2>1, <2>6 DEF AgentDials
  <2>7. ASSUME NEW b \in Agents, AgentDrops(b) \/ DeleteAgent(b) PROVE Cause(a)
    BY Zenon, <2>1, <2>7 DEF AgentDrops, DeleteAgent
  <2>8. ASSUME NEW c \in Sockets,
               \/ UpsertAgent(c) \/ UpsertAgentFails(c) \/ FinishRegister(c) \/ Heartbeat(c)
               \/ ReadFails(c) \/ MarkDisconnected(c) \/ SetOffline(c)
               \/ SetOfflineFails(c)
        PROVE  Cause(a)
    <3>1. UNCHANGED agentsByHomeID
      BY Zenon, <2>8 DEF UpsertAgent, UpsertAgentFails, FinishRegister, Heartbeat, ReadFails,
         MarkDisconnected, SetOffline, SetOfflineFails
    <3> QED
      BY Zenon, <2>1, <3>1
  <2> HIDE DEF Cause
  <2> QED
    BY Zenon, <1>1, <2>2, <2>3, <2>4, <2>5, <2>6, <2>7, <2>8 DEF RoutingNext, SocketStep
<1>2. RoutingInv /\ [RoutingNext]_routingVars => [\A a \in Agents : Cause(a)]_routingVars
  BY Zenon, <1>1
<1> QED
  BY RoutingHolds, <1>2, PTL DEF RoutingSpec, UnrouteHasCause

HIDE DEF HandlerStates, Goto, router

-----------------------------------------------------------------------------
(***************************************************************************)
(* Who belongs to the home, and which agent tokens are good.               *)
(***************************************************************************)
\* Steps that only a request of a member of the home reaches.
MemberSteps == {"invite", "remove", "role", "reset", "rename", "mperms", "count", "name", "policy"}

\* Before first setup the home has nobody, and nobody acts for it.
HomeInv ==
    /\ home = None => DOMAIN members = {} /\ DOMAIN invites = {}
    /\ home # None => DOMAIN home = {"name", "policy"}
    /\ \A i \in DOMAIN invites : "accepted" \in DOMAIN invites[i]
    /\ \A r \in left : "pc" \notin DOMAIN r
    /\ \A n \in DOMAIN http : "pc" \in DOMAIN http[n] /\ (home = None => http[n].pc \notin MemberSteps)

-----------------------------------------------------------------------------
(* What a step of request n does to the table of requests: it leaves the   *)
(* others alone, and goes to a place that is not a member's, or ends.      *)
Rests(n) ==
    /\ DOMAIN http' \subseteq DOMAIN http
    /\ \A m \in DOMAIN http' : m # n => http'[m] = http[m]
    /\ n \in DOMAIN http' => "pc" \in DOMAIN http'[n] /\ (home = None => http'[n].pc \notin MemberSteps)

\* Arrivals add one request to the table at most.
Enters(r) ==
    /\ DOMAIN http' \subseteq DOMAIN http \cup {r.n}
    /\ \A m \in DOMAIN http' : m # r.n => http'[m] = http[m]
    /\ r.n \in DOMAIN http' =>
         "pc" \in DOMAIN http'[r.n] /\ (home = None => http'[r.n].pc \notin MemberSteps)

LEMMA GoesRests ==
    ASSUME NEW n \in DOMAIN http, NEW pc, "pc" \in DOMAIN http[n], home = None => pc \notin MemberSteps, Goes(n, pc)
    PROVE  Rests(n)
BY Zenon DEF Goes, Rests

LEMMA GoesAsRests ==
    ASSUME NEW n \in DOMAIN http, NEW pc, NEW u, "pc" \in DOMAIN http[n], home = None => pc \notin MemberSteps,
           GoesAs(n, pc, u)
    PROVE  Rests(n)
BY Zenon DEF GoesAs, Rests

LEMMA GoesWithRests ==
    ASSUME NEW n \in DOMAIN http, NEW pc, NEW seen, "pc" \in DOMAIN http[n], home = None => pc \notin MemberSteps,
           GoesWith(n, pc, seen)
    PROVE  Rests(n)
BY Zenon DEF GoesWith, Rests

LEMMA AnsweredRests ==
    ASSUME NEW n \in DOMAIN http, NEW answer, Answered(n, answer)
    PROVE  Rests(n)
BY Zenon DEF Answered, Rests, Without

LEMMA StepRests ==
    ASSUME HomeInv, NEW n \in DOMAIN http, Step(n)
    PROVE  Rests(n)
<1>0. "pc" \in DOMAIN http[n] /\ (home = None => http[n].pc \notin MemberSteps)
  BY Zenon DEF HomeInv
<1> USE <1>0, GoesRests, GoesAsRests, GoesWithRests, AnsweredRests DEF MemberSteps
<1>1. CASE createSession(n)
  BY Zenon, <1>1 DEF createSession
<1>2. CASE RegisterCreates(n)
  BY Zenon, <1>2 DEF RegisterCreates
<1>3. CASE BootstrapReads(n)
  BY Zenon, <1>3 DEF BootstrapReads
<1>4. CASE BootstrapInserts(n)
  BY Zenon, <1>4 DEF BootstrapInserts
<1>5. CASE PasswordCompared(n) \/ LoginFails(n) \/ RecordLoginSuccess(n)
  BY Zenon, <1>5 DEF PasswordCompared, LoginFails, RecordLoginSuccess
<1>6. CASE handleAuthChangePassword(n) \/ handleAuthLogout(n) \/ handleAppWebSocketTicket(n) \/ appAuthFromRequest(n)
  BY Zenon, <1>6 DEF handleAuthChangePassword, handleAuthLogout, handleAppWebSocketTicket,
     appAuthFromRequest
<1>7. CASE CreateHomeInvitation(n) \/ InvitationCancelled(n) \/ handleHomeInvitationAccept(n)
  BY Zenon, <1>7 DEF CreateHomeInvitation, InvitationCancelled, handleHomeInvitationAccept
<1>8. CASE InvitationAccepted(n)
  BY Zenon, <1>8 DEF InvitationAccepted
<1>9. CASE CreateUserAndAcceptHomeInvitation(n)
  BY Zenon, <1>9 DEF CreateUserAndAcceptHomeInvitation, Provision
<1>10. CASE handleEntraLinkStart(n) \/ CreateExternalIdentity(n)
  BY Zenon, <1>10 DEF handleEntraLinkStart, CreateExternalIdentity
<1>11. CASE resolveEntraUser(n)
  <2>1. \/ GoesAs(n, "session", ext[http[n].subject]) \/ Answered(n, "not provisioned")
        \/ http' = [http EXCEPT ![n] = Over([pc |-> "accept_tx", user |-> ext[http[n].subject], i |-> http[n].seen.i],
                                           http[n])]
        \/ Goes(n, "link_identity") \/ Goes(n, "sso_setup") \/ \E seen : GoesWith(n, "sso_signup", seen)
    BY Zenon, <1>11 DEF resolveEntraUser
  <2>2. CASE http' = [http EXCEPT ![n] = Over([pc |-> "accept_tx", user |-> ext[http[n].subject], i |-> http[n].seen.i],
                                              http[n])]
    BY Zenon, <2>2 DEF Rests, Over
  <2> QED
    BY Zenon, <2>1, <2>2
<1>12. CASE CreateSSOUserAndAcceptHomeInvitation(n)
  BY Zenon, <1>12 DEF CreateSSOUserAndAcceptHomeInvitation, Provision
<1>13. CASE CreateSSOUserAndBootstrapSingletonHome(n)
  BY Zenon, <1>13 DEF CreateSSOUserAndBootstrapSingletonHome
<1>14. CASE TargetReads(n)
  BY Zenon, <1>14 DEF TargetReads
<1>15. CASE CountHomeOwners(n)
  BY Zenon, <1>15 DEF CountHomeOwners, At
<1>16. CASE RemoveHomeMembership(n) \/ UpdateHomeMembershipRole(n) \/ PasswordReset(n) \/ DisplayNameUpdated(n)
  BY Zenon, <1>16 DEF RemoveHomeMembership, UpdateHomeMembershipRole, PasswordReset,
     DisplayNameUpdated
<1>17. CASE PermissionsRead(n) \/ UpsertHomePermissions(n) \/ UpsertHomeMemberPermissions(n) \/ requireHomeFeature(n) \/ HomeUpdated(n)
  BY Zenon, <1>17 DEF PermissionsRead, UpsertHomePermissions, UpsertHomeMemberPermissions,
     requireHomeFeature, HomeUpdated
<1>18. CASE TokenReads(n) \/ AgentUpserted(n) \/ CreateAgentToken(n) \/ TokenRevoked(n) \/ AgentRemoved(n)
  BY Zenon, <1>18 DEF TokenReads, AgentUpserted, CreateAgentToken, TokenRevoked, AgentRemoved
<1> QED
  BY Zenon, <1>1, <1>2, <1>3, <1>4, <1>5, <1>6, <1>7, <1>8, <1>9, <1>10, <1>11, <1>12, <1>13, <1>14,
     <1>15, <1>16,
     <1>17, <1>18 DEF Step

LEMMA StartsEnters ==
    ASSUME NEW r, NEW pc, NEW u, NEW role, "pc" \notin DOMAIN r, pc \notin MemberSteps, Starts(r, pc, u, role)
    PROVE  Enters(r)
BY Zenon DEF Starts, Enters, Request, Over, With

LEMMA ArrivesEnters ==
    ASSUME HomeInv, Arrives
    PROVE  \E r \in left : left' = left \ {r} /\ (r.kind = "expires" => UNCHANGED http) /\ Enters(r)
<1>0. \A r \in left : "pc" \notin DOMAIN r
  BY Zenon DEF HomeInv
<1>a. \A r : UNCHANGED http => Enters(r)
  BY Zenon DEF Enters, HomeInv
<1> USE <1>0, <1>a, StartsEnters DEF MemberSteps, AnsweredAtOnce, Happens
<1>1. CASE requireAuth
  <2>1. PICK r \in left : requireAuth!(r)
    BY Zenon, <1>1 DEF requireAuth
  <2>2. CASE Refusal(r) # ""
    BY Zenon, <2>1, <2>2
  <2>3. CASE Refusal(r) = ""
    <3> DEFINE u == sessions[r.s].user
    <3> DEFINE q == Request(r, r.kind, u, IF u \in DOMAIN members THEN members[u] ELSE "none")
    <3>1. http' = With(http, r.n, [q EXCEPT !.seen = users[u]])
      BY Zenon, <2>1, <2>3
    <3>2. "pc" \in DOMAIN q /\ q.pc = r.kind
      BY Zenon DEF Request, Over
    <3>3. home = None => r.kind \notin MemberSteps
      BY Zenon, <2>1, <2>3 DEF Refusal, HomeInv, SignedInKinds, HomeKinds, AdminKinds
    <3>4. r.kind # "expires"
      BY Zenon, <2>1 DEF SignedInKinds, HomeKinds, AdminKinds
    <3> HIDE DEF q
    <3>5. "pc" \in DOMAIN [q EXCEPT !.seen = users[u]] /\ [q EXCEPT !.seen = users[u]].pc = r.kind
      BY Zenon, <3>2
    <3>6. Enters(r)
      BY Zenon, <3>1, <3>3, <3>5 DEF Enters, With
    <3> QED
      BY Zenon, <2>1, <3>4, <3>6
  <2> QED
    BY Zenon, <2>2, <2>3
<1>2. CASE handleAuthRegister
  BY Zenon, <1>2 DEF handleAuthRegister
<1>3. CASE handleAuthLogin
  BY Zenon, <1>3 DEF handleAuthLogin
<1>4. CASE TicketSpent
  BY Zenon, <1>4 DEF TicketSpent
<1>5. CASE handleAuthInvitationSignup
  BY Zenon, <1>5 DEF handleAuthInvitationSignup
<1>6. CASE handleEntraStart
  BY Zenon, <1>6 DEF handleEntraStart
<1>7. CASE handleEntraCallback
  <2>1. PICK r \in left : handleEntraCallback!(r)
    BY Zenon, <1>7 DEF handleEntraCallback
  <2>2. CASE http' = With(http, r.n, [Request(r, "resolve", flows[r.state].user, "none") EXCEPT !.seen = flows[r.state]])
    <3> DEFINE q == Request(r, "resolve", flows[r.state].user, "none")
    <3>1. "pc" \in DOMAIN q /\ q.pc = "resolve"
      BY Zenon DEF Request, Over
    <3> HIDE DEF q
    <3>2. "pc" \in DOMAIN [q EXCEPT !.seen = flows[r.state]] /\ [q EXCEPT !.seen = flows[r.state]].pc = "resolve"
      BY Zenon, <3>1
    <3>3. Enters(r)
      BY Zenon, <2>2, <3>2 DEF Enters, With, q
    <3> QED
      BY Zenon, <2>1, <3>3
  <2> QED
    BY Zenon, <2>1, <2>2
<1>8. CASE AgentConnects
  BY Zenon, <1>8 DEF AgentConnects
<1>9. CASE Expires
  BY Zenon, <1>9 DEF Expires
<1> QED
  BY Zenon, <1>1, <1>2, <1>3, <1>4, <1>5, <1>6, <1>7, <1>8, <1>9 DEF Arrives

-----------------------------------------------------------------------------
(* The home, its members and its invitations *)

\* A home stays, and its members and invitations need one.
LEMMA StepKeepsHome ==
    ASSUME HomeInv, NEW n \in DOMAIN http, Step(n)
    PROVE  /\ home' = None => home = None /\ DOMAIN members' = {} /\ DOMAIN invites' = {}
           /\ home' # None => DOMAIN home' = {"name", "policy"}
           /\ \A i \in DOMAIN invites' : "accepted" \in DOMAIN invites'[i]
<1> DEFINE Kept == /\ home' = None => home = None /\ DOMAIN members' = {} /\ DOMAIN invites' = {}
                   /\ home' # None => DOMAIN home' = {"name", "policy"}
                   /\ \A i \in DOMAIN invites' : "accepted" \in DOMAIN invites'[i]
<1>a. UNCHANGED <<home, members, invites>> => Kept
  BY Zenon DEF HomeInv
<1>b. \A i : i \in DOMAIN invites => home # None
  BY Zenon DEF HomeInv
<1>c. NewHome # None /\ DOMAIN NewHome = {"name", "policy"} /\ DOMAIN None = {"none"}
  BY Zenon DEF NewHome, None
<1>d. \A i \in DOMAIN invites : "accepted" \in DOMAIN invites[i]
  BY Zenon DEF HomeInv
<1> SUFFICES Kept
  OBVIOUS
<1>1. CASE BootstrapInserts(n) \/ CreateSSOUserAndBootstrapSingletonHome(n)
  <2>1. UNCHANGED invites /\ (home' = NewHome \/ UNCHANGED <<home, members>>)
    BY Zenon, <1>1 DEF BootstrapInserts, CreateSSOUserAndBootstrapSingletonHome,
       BootstrapSingletonHome
  <2> QED
    BY Zenon, <2>1, <1>a, <1>c, <1>d
<1>2. CASE CreateHomeInvitation(n)
  <2>1. home # None
    BY Zenon, <1>2 DEF CreateHomeInvitation, At, HomeInv, MemberSteps
  <2>2. UNCHANGED home /\ invites' = With(invites, n, [email |-> http[n].email, accepted |-> FALSE, old |-> FALSE])
    BY Zenon, <1>2 DEF CreateHomeInvitation
  <2> QED
    BY Zenon, <2>1, <2>2, <1>d DEF HomeInv, With
<1>3. CASE InvitationCancelled(n)
  <2>1. UNCHANGED <<home, members>> /\ (UNCHANGED invites \/ \E i : invites' = Without(invites, i))
    BY Zenon, <1>3 DEF InvitationCancelled
  <2> QED
    BY Zenon, <2>1, <1>d DEF HomeInv, Without
<1>4. CASE InvitationAccepted(n) \/ CreateUserAndAcceptHomeInvitation(n) \/ CreateSSOUserAndAcceptHomeInvitation(n)
  <2>1. UNCHANGED home
    BY Zenon, <1>4 DEF InvitationAccepted, CreateUserAndAcceptHomeInvitation,
       CreateSSOUserAndAcceptHomeInvitation
  <2>2. \/ UNCHANGED <<members, invites>>
        \/ \E i \in DOMAIN invites : invites' = [invites EXCEPT ![i].accepted = TRUE]
    BY Zenon, <1>4 DEF InvitationAccepted, CreateUserAndAcceptHomeInvitation,
       CreateSSOUserAndAcceptHomeInvitation, AcceptHomeInvitation, SignupAccepts, Provision
  <2> QED
    BY Zenon, <2>1, <2>2, <1>a, <1>b, <1>d DEF HomeInv
<1>5. CASE RemoveHomeMembership(n) \/ UpdateHomeMembershipRole(n)
  <2>1. UNCHANGED <<home, invites>> /\ DOMAIN members' \subseteq DOMAIN members
    BY Zenon, <1>5 DEF RemoveHomeMembership, UpdateHomeMembershipRole, Without
  <2> QED
    BY Zenon, <2>1 DEF HomeInv
<1>6. CASE HomeUpdated(n)
  <2>1. home # None /\ DOMAIN home = {"name", "policy"}
    BY Zenon, <1>6 DEF HomeUpdated, HomeInv, MemberSteps
  <2>2. DOMAIN home' = DOMAIN home /\ UNCHANGED <<members, invites>>
    BY Zenon, <1>6 DEF HomeUpdated
  <2> QED
    BY Zenon, <2>1, <2>2, <1>c, <1>d
<1>7. CASE UNCHANGED <<home, members, invites>>
  BY Zenon, <1>7, <1>a
<1> QED
  <2>1. \/ UNCHANGED accounts
        \/ UNCHANGED <<home, members, invites>>
        \/ BootstrapInserts(n) \/ CreateSSOUserAndBootstrapSingletonHome(n) \/ CreateHomeInvitation(n)
        \/ InvitationCancelled(n) \/ InvitationAccepted(n) \/ CreateUserAndAcceptHomeInvitation(n)
        \/ CreateSSOUserAndAcceptHomeInvitation(n) \/ RemoveHomeMembership(n) \/ UpdateHomeMembershipRole(n)
        \/ HomeUpdated(n)
    BY Zenon DEF Step, createSession, RegisterCreates, BootstrapReads, PasswordCompared, LoginFails,
       RecordLoginSuccess, handleAuthChangePassword, handleAuthLogout, handleAppWebSocketTicket,
       appAuthFromRequest, handleHomeInvitationAccept, handleEntraLinkStart, resolveEntraUser,
       CreateExternalIdentity, TargetReads, CountHomeOwners, PasswordReset, DisplayNameUpdated,
       PermissionsRead, UpsertHomePermissions, UpsertHomeMemberPermissions, requireHomeFeature,
       TokenReads, AgentUpserted, CreateAgentToken, TokenRevoked, AgentRemoved
  <2> QED
    BY Zenon, <2>1, <1>1, <1>2, <1>3, <1>4, <1>5, <1>6, <1>7 DEF accounts

\* What arrives changes no account, and of the rest only marks, sign-ins and the requests.
LEMMA ArrivesKeeps ==
    ASSUME HomeInv, Arrives
    PROVE  /\ UNCHANGED <<users, home, members, agents, dead, scoped>>
           /\ DOMAIN tokens' = DOMAIN tokens
           /\ DOMAIN invites' = DOMAIN invites
           /\ \A i \in DOMAIN invites' : "accepted" \in DOMAIN invites'[i]
<1>1. CASE Expires
  BY Zenon, <1>1 DEF Expires, Old, HomeInv
<1>2. CASE ~Expires
  <2>1. UNCHANGED <<accounts, fleet, scoped>>
    BY Zenon, <1>2 DEF Arrives, requireAuth, handleAuthRegister, handleAuthLogin, TicketSpent,
       handleAuthInvitationSignup, handleEntraStart, handleEntraCallback, AgentConnects
  <2> QED
    BY Zenon, <2>1 DEF accounts, fleet, HomeInv
<1> QED
  BY Zenon, <1>1, <1>2

LEMMA HomeInvStep ==
    ASSUME HomeInv, [Next]_vars
    PROVE  HomeInv'
<1>1. CASE Arrives
  <2>1. PICK r \in left : left' = left \ {r} /\ Enters(r)
    BY Zenon, <1>1, ArrivesEnters
  <2>2. \A m \in DOMAIN http' : "pc" \in DOMAIN http'[m] /\ (home = None => http'[m].pc \notin MemberSteps)
    <3>1. SUFFICES ASSUME NEW m \in DOMAIN http'
                   PROVE  "pc" \in DOMAIN http'[m] /\ (home = None => http'[m].pc \notin MemberSteps)
      OBVIOUS
    <3>2. CASE m = r.n
      BY Zenon, <2>1, <3>1, <3>2 DEF Enters
    <3>3. CASE m # r.n
      BY Zenon, <2>1, <3>1, <3>3 DEF Enters, HomeInv
    <3> QED
      BY Zenon, <3>2, <3>3
  <2> QED
    BY Zenon, <1>1, <2>1, <2>2, ArrivesKeeps DEF HomeInv
<1>2. ASSUME NEW n \in DOMAIN http, Step(n), UNCHANGED left
      PROVE  HomeInv'
  <2>1. Rests(n)
    BY Zenon, <1>2, StepRests
  <2>2. \A m \in DOMAIN http' : "pc" \in DOMAIN http'[m] /\ (home = None => http'[m].pc \notin MemberSteps)
    BY Zenon, <2>1 DEF Rests, HomeInv
  <2> QED
    BY Zenon, <1>2, <2>2, StepKeepsHome DEF HomeInv
<1>3. CASE UNCHANGED vars
  BY Zenon, <1>3 DEF vars, accounts, HomeInv
<1> QED
  BY Zenon, <1>1, <1>2, <1>3 DEF Next

-----------------------------------------------------------------------------
(* Who was provisioned, and who joins *)

LEMMA ScopedStep ==
    ASSUME HomeInv, ProvisionedAccountsAreScoped, [Next]_vars
    PROVE  ProvisionedAccountsAreScoped'
<1> USE DEF ProvisionedAccountsAreScoped
<1>a. UNCHANGED <<users, members, scoped>> => ProvisionedAccountsAreScoped'
  OBVIOUS
<1>1. CASE Arrives
  BY Zenon, <1>1, <1>a, ArrivesKeeps
<1>2. ASSUME NEW n \in DOMAIN http, Step(n)
      PROVE  ProvisionedAccountsAreScoped'
  <2>1. CASE RegisterCreates(n) \/ handleAuthChangePassword(n) \/ PasswordReset(n) \/ DisplayNameUpdated(n)
    <3>1. DOMAIN users \subseteq DOMAIN users' /\ UNCHANGED <<members, scoped>>
      BY Zenon, <2>1 DEF RegisterCreates, handleAuthChangePassword, PasswordReset,
         DisplayNameUpdated, UpdateUserPassword, With
    <3> QED
      BY Zenon, <3>1
  <2>2. CASE BootstrapInserts(n) \/ InvitationAccepted(n) \/ UpdateHomeMembershipRole(n)
    <3>1. DOMAIN members \subseteq DOMAIN members' /\ UNCHANGED <<users, scoped>>
      BY Zenon, <2>2 DEF BootstrapInserts, InvitationAccepted, UpdateHomeMembershipRole,
         BootstrapSingletonHome, AcceptHomeInvitation, With
    <3> QED
      BY Zenon, <3>1
  <2>3. CASE CreateUserAndAcceptHomeInvitation(n) \/ CreateSSOUserAndAcceptHomeInvitation(n)
             \/ CreateSSOUserAndBootstrapSingletonHome(n)
    <3>1. \/ UNCHANGED <<users, members, scoped>>
          \/ /\ \E account : users' = With(users, n, account)
             /\ \E role : members' = With(members, n, role)
             /\ scoped' = scoped \union {n}
      BY Zenon, <2>3 DEF CreateUserAndAcceptHomeInvitation, CreateSSOUserAndAcceptHomeInvitation,
         CreateSSOUserAndBootstrapSingletonHome, BootstrapSingletonHome, Provision
    <3> QED
      BY Zenon, <3>1 DEF With
  <2>4. CASE RemoveHomeMembership(n)
    BY Zenon, <2>4 DEF RemoveHomeMembership, Without
  <2>5. \/ UNCHANGED <<accounts, scoped>> \/ UNCHANGED <<users, members, scoped>>
        \/ RegisterCreates(n) \/ handleAuthChangePassword(n) \/ PasswordReset(n) \/ DisplayNameUpdated(n)
        \/ BootstrapInserts(n) \/ InvitationAccepted(n) \/ UpdateHomeMembershipRole(n)
        \/ CreateUserAndAcceptHomeInvitation(n) \/ CreateSSOUserAndAcceptHomeInvitation(n)
        \/ CreateSSOUserAndBootstrapSingletonHome(n) \/ RemoveHomeMembership(n)
    BY Zenon, <1>2 DEF Step, createSession, BootstrapReads, PasswordCompared, LoginFails,
       RecordLoginSuccess, handleAuthLogout, handleAppWebSocketTicket, appAuthFromRequest,
       CreateHomeInvitation, InvitationCancelled, handleHomeInvitationAccept, handleEntraLinkStart,
       resolveEntraUser, CreateExternalIdentity, TargetReads, CountHomeOwners, PermissionsRead,
       UpsertHomePermissions, UpsertHomeMemberPermissions, requireHomeFeature, HomeUpdated,
       TokenReads, AgentUpserted, CreateAgentToken, TokenRevoked, AgentRemoved
  <2> QED
    BY Zenon, <2>1, <2>2, <2>3, <2>4, <2>5, <1>a DEF accounts
<1>3. CASE UNCHANGED vars
  BY Zenon, <1>3, <1>a DEF vars, accounts
<1> QED
  BY Zenon, <1>1, <1>2, <1>3 DEF Next

\* What MembersJoinByInvitation says of one step.
Joins ==
    \A u \in DOMAIN members' \ DOMAIN members :
        \/ home = None /\ home' # None /\ members' = [x \in {u} |-> "admin"]
        \/ \E i \in DOMAIN invites : i \in DOMAIN invites' /\ invites'[i].accepted /\ members'[u] = "member"

LEMMA JoinsStep ==
    ASSUME HomeInv, [Next]_vars
    PROVE  Joins
<1>a. DOMAIN members' \subseteq DOMAIN members => Joins
  BY Zenon DEF Joins
<1>1. CASE Arrives
  BY Zenon, <1>1, <1>a, ArrivesKeeps
<1>2. ASSUME NEW n \in DOMAIN http, Step(n)
      PROVE  Joins
  <2>1. ASSUME NEW u, BootstrapSingletonHome(u)
        PROVE  Joins
    <3>1. DOMAIN members = {} /\ home = None
      BY Zenon, <2>1 DEF BootstrapSingletonHome, HomeInv
    <3>2. members' = [x \in {u} |-> "admin"]
      BY Zenon, <2>1, <3>1 DEF BootstrapSingletonHome, With
    <3>3. home' # None
      <4>1. home' = NewHome /\ DOMAIN NewHome = {"name", "policy"} /\ DOMAIN None = {"none"}
        BY Zenon, <2>1 DEF BootstrapSingletonHome, NewHome, None
      <4> QED
        BY Zenon, <4>1
    <3> QED
      BY Zenon, <3>1, <3>2, <3>3 DEF Joins
  <2>2. ASSUME NEW u, NEW i \in DOMAIN invites, invites' = [invites EXCEPT ![i].accepted = TRUE],
               members' = With(members, u, "member")
        PROVE  Joins
    <3>1. i \in DOMAIN invites' /\ invites'[i].accepted
      BY Zenon, <2>2 DEF HomeInv
    <3>2. \A x \in DOMAIN members' \ DOMAIN members : members'[x] = "member"
      BY Zenon, <2>2 DEF With
    <3> QED
      BY Zenon, <3>1, <3>2 DEF Joins
  <2>3. CASE BootstrapInserts(n) \/ CreateSSOUserAndBootstrapSingletonHome(n)
    <3>1. (\E u : BootstrapSingletonHome(u)) \/ UNCHANGED members
      BY Zenon, <2>3 DEF BootstrapInserts, CreateSSOUserAndBootstrapSingletonHome
    <3> QED
      BY Zenon, <3>1, <2>1, <1>a
  <2>4. CASE InvitationAccepted(n) \/ CreateUserAndAcceptHomeInvitation(n) \/ CreateSSOUserAndAcceptHomeInvitation(n)
    <3>1. \/ UNCHANGED members
          \/ \E u : \E i \in DOMAIN invites :
                invites' = [invites EXCEPT ![i].accepted = TRUE] /\ members' = With(members, u, "member")
      BY Zenon, <2>4 DEF InvitationAccepted, CreateUserAndAcceptHomeInvitation,
         CreateSSOUserAndAcceptHomeInvitation, AcceptHomeInvitation, SignupAccepts, Provision
    <3> QED
      BY Zenon, <3>1, <2>2, <1>a
  <2>5. CASE RemoveHomeMembership(n) \/ UpdateHomeMembershipRole(n)
    BY Zenon, <2>5, <1>a DEF RemoveHomeMembership, UpdateHomeMembershipRole, Without
  <2>6. \/ UNCHANGED accounts \/ UNCHANGED members
        \/ BootstrapInserts(n) \/ InvitationAccepted(n) \/ UpdateHomeMembershipRole(n)
        \/ CreateUserAndAcceptHomeInvitation(n) \/ CreateSSOUserAndAcceptHomeInvitation(n)
        \/ CreateSSOUserAndBootstrapSingletonHome(n) \/ RemoveHomeMembership(n)
    BY Zenon, <1>2 DEF Step, createSession, RegisterCreates, BootstrapReads, PasswordCompared,
       LoginFails, RecordLoginSuccess, handleAuthChangePassword, handleAuthLogout,
       handleAppWebSocketTicket, appAuthFromRequest, CreateHomeInvitation, InvitationCancelled,
       handleHomeInvitationAccept, handleEntraLinkStart, resolveEntraUser, CreateExternalIdentity,
       TargetReads, CountHomeOwners, PasswordReset, DisplayNameUpdated, PermissionsRead,
       UpsertHomePermissions, UpsertHomeMemberPermissions, requireHomeFeature, HomeUpdated,
       TokenReads, AgentUpserted, CreateAgentToken, TokenRevoked, AgentRemoved
  <2> QED
    BY Zenon, <2>3, <2>4, <2>5, <2>6, <1>a DEF accounts
<1>3. CASE UNCHANGED vars
  BY Zenon, <1>3, <1>a DEF vars, accounts
<1> QED
  BY Zenon, <1>1, <1>2, <1>3 DEF Next

-----------------------------------------------------------------------------
(* Agents and their tokens *)

\* One primary at most; a token is named after the request that issues it, and every request has
\* a name of its own, so no token takes the name of one that is gone.
AgentInv ==
    /\ \A a, b \in DOMAIN agents : agents[a] = "primary" /\ agents[b] = "primary" => a = b
    /\ dead \cap DOMAIN tokens = {}
    /\ DOMAIN http \cap (DOMAIN tokens \cup dead) = {}
    /\ \A r \in left : r.kind # "expires" => r.n \notin DOMAIN http \cup DOMAIN tokens \cup dead
    /\ \A r, q \in left : r.kind # "expires" /\ q.kind # "expires" /\ r.n = q.n => r = q

INSTANCE FiniteSetTheorems

LEMMA AgentInvSuffices ==
    ASSUME AgentInv
    PROVE  EnrollmentIsExact
<1>1. Cardinality(Primaries) <= 1
  <2>1. CASE Primaries = {}
    BY <2>1, FS_EmptySet
  <2>2. CASE Primaries # {}
    <3>1. PICK a : a \in Primaries
      BY Zenon, <2>2
    <3>2. Primaries = {a}
      BY Zenon, <3>1 DEF AgentInv, Primaries
    <3> QED
      BY <3>2, FS_Singleton
  <2> QED
    BY Zenon, <2>1, <2>2
<1>2. \A t \in dead : ~ValidateAgentToken(t)
  BY Zenon DEF AgentInv, ValidateAgentToken
<1> QED
  BY Zenon, <1>1, <1>2 DEF EnrollmentIsExact, OnePrimaryAgent, RemovedAgentsTokensStayDead

\* The tokens a step of request n leaves: the old ones, and its own when it ends with it.
Issues(n) ==
    /\ \/ DOMAIN tokens' \cup dead' \subseteq DOMAIN tokens \cup dead
       \/ DOMAIN tokens' = DOMAIN tokens \cup {n} /\ UNCHANGED dead /\ DOMAIN http' = DOMAIN http \ {n}
    /\ dead \cap DOMAIN tokens = {} /\ n \notin dead => dead' \cap DOMAIN tokens' = {}

LEMMA StepIssues ==
    ASSUME NEW n \in DOMAIN http, Step(n)
    PROVE  Issues(n)
<1>1. CASE CreateAgentToken(n)
  BY Zenon, <1>1 DEF CreateAgentToken, Answered, Issues, With, Without
<1>2. CASE TokenRevoked(n)
  BY Zenon, <1>2 DEF TokenRevoked, Issues, Without
<1>3. CASE AgentRemoved(n)
  BY Zenon, <1>3 DEF AgentRemoved, DeleteAgentForHome, Issues, fleet
<1>4. UNCHANGED <<tokens, dead>> => Issues(n)
  BY Zenon DEF Issues
<1>5. \/ UNCHANGED fleet \/ UNCHANGED <<tokens, dead>>
      \/ CreateAgentToken(n) \/ TokenRevoked(n) \/ AgentRemoved(n)
  BY Zenon DEF Step, createSession, RegisterCreates, BootstrapReads, BootstrapInserts,
     PasswordCompared, LoginFails, RecordLoginSuccess, handleAuthChangePassword, handleAuthLogout,
     handleAppWebSocketTicket, appAuthFromRequest, CreateHomeInvitation, InvitationCancelled,
     handleHomeInvitationAccept, InvitationAccepted, CreateUserAndAcceptHomeInvitation,
     handleEntraLinkStart, resolveEntraUser, CreateExternalIdentity,
     CreateSSOUserAndAcceptHomeInvitation, CreateSSOUserAndBootstrapSingletonHome, TargetReads,
     CountHomeOwners, RemoveHomeMembership, UpdateHomeMembershipRole, PasswordReset,
     DisplayNameUpdated, PermissionsRead, UpsertHomePermissions, UpsertHomeMemberPermissions,
     requireHomeFeature, HomeUpdated, TokenReads, AgentUpserted
<1> QED
  BY Zenon, <1>1, <1>2, <1>3, <1>4, <1>5 DEF fleet

LEMMA StepEnrolls ==
    ASSUME AgentInv, NEW n \in DOMAIN http, Step(n)
    PROVE  \A a, b \in DOMAIN agents' : agents'[a] = "primary" /\ agents'[b] = "primary" => a = b
<1>1. CASE AgentUpserted(n)
  BY Zenon, <1>1 DEF AgentUpserted, OnePrimaryIndex, Primaries, With, AgentInv
<1>2. CASE AgentRemoved(n)
  BY Zenon, <1>2 DEF AgentRemoved, DeleteAgentForHome, Without, fleet, AgentInv
<1>3. CASE UNCHANGED agents
  BY Zenon, <1>3 DEF AgentInv
<1>4. UNCHANGED fleet \/ UNCHANGED agents \/ AgentUpserted(n) \/ AgentRemoved(n)
  BY Zenon DEF Step, createSession, RegisterCreates, BootstrapReads, BootstrapInserts,
     PasswordCompared, LoginFails, RecordLoginSuccess, handleAuthChangePassword, handleAuthLogout,
     handleAppWebSocketTicket, appAuthFromRequest, CreateHomeInvitation, InvitationCancelled,
     handleHomeInvitationAccept, InvitationAccepted, CreateUserAndAcceptHomeInvitation,
     handleEntraLinkStart, resolveEntraUser, CreateExternalIdentity,
     CreateSSOUserAndAcceptHomeInvitation, CreateSSOUserAndBootstrapSingletonHome, TargetReads,
     CountHomeOwners, RemoveHomeMembership, UpdateHomeMembershipRole, PasswordReset,
     DisplayNameUpdated, PermissionsRead, UpsertHomePermissions, UpsertHomeMemberPermissions,
     requireHomeFeature, HomeUpdated, TokenReads, CreateAgentToken, TokenRevoked
<1> QED
  BY Zenon, <1>1, <1>2, <1>3, <1>4 DEF fleet

LEMMA AgentInvStep ==
    ASSUME HomeInv, AgentInv, [Next]_vars
    PROVE  AgentInv'
<1>1. CASE Arrives
  <2>1. PICK r \in left : left' = left \ {r} /\ (r.kind = "expires" => UNCHANGED http) /\ Enters(r)
    BY Zenon, <1>1, ArrivesEnters
  <2>2. UNCHANGED <<agents, dead>> /\ DOMAIN tokens' = DOMAIN tokens
    BY Zenon, <1>1, ArrivesKeeps
  <2>3. CASE r.kind = "expires"
    BY Zenon, <2>1, <2>2, <2>3 DEF AgentInv
  <2>4. CASE r.kind # "expires"
    <3>1. DOMAIN http' \subseteq DOMAIN http \cup {r.n} /\ r.n \notin DOMAIN http \cup DOMAIN tokens \cup dead
      BY Zenon, <2>1, <2>4 DEF Enters, AgentInv
    <3>2. \A q \in left' : q.kind # "expires" => q.n # r.n
      BY Zenon, <2>1, <2>4 DEF AgentInv
    <3> QED
      BY Zenon, <2>1, <2>2, <3>1, <3>2 DEF AgentInv
  <2> QED
    BY Zenon, <2>3, <2>4
<1>2. ASSUME NEW n \in DOMAIN http, Step(n), UNCHANGED left
      PROVE  AgentInv'
  <2>1. DOMAIN http' \subseteq DOMAIN http
    BY Zenon, <1>2, StepRests DEF Rests
  <2>2. Issues(n)
    BY Zenon, <1>2, StepIssues
  <2>3. \A a, b \in DOMAIN agents' : agents'[a] = "primary" /\ agents'[b] = "primary" => a = b
    BY Zenon, <1>2, StepEnrolls
  <2>4. n \notin DOMAIN tokens \cup dead
    BY Zenon DEF AgentInv
  <2>5. dead' \cap DOMAIN tokens' = {}
    BY Zenon, <2>2, <2>4 DEF Issues, AgentInv
  <2>6. DOMAIN http' \cap (DOMAIN tokens' \cup dead') = {}
    BY Zenon, <2>1, <2>2 DEF Issues, AgentInv
  <2>7. \A r \in left' : r.kind # "expires" => r.n \notin DOMAIN http' \cup DOMAIN tokens' \cup dead'
    BY <1>2, <2>1, <2>2 DEF Issues, AgentInv
  <2> QED
    BY Zenon, <1>2, <2>3, <2>5, <2>6, <2>7 DEF AgentInv
<1>3. CASE UNCHANGED vars
  BY Zenon, <1>3 DEF vars, fleet, AgentInv
<1> QED
  BY Zenon, <1>1, <1>2, <1>3 DEF Next

-----------------------------------------------------------------------------
(* The theorems: from any start states that are Startable. *)

StartsRight == \A sc \in Scenarios : Startable(sc)

LEMMA InitInvariants ==
    ASSUME StartsRight, Init
    PROVE  HomeInv /\ ProvisionedAccountsAreScoped /\ AgentInv
<1>1. PICK sc \in Scenarios :
        /\ home = sc.home /\ members = sc.members /\ invites = sc.invites /\ agents = sc.agents
        /\ tokens = sc.tokens /\ left = sc.left
        /\ http = << >> /\ scoped = {} /\ dead = {}
  BY Zenon DEF Init
<1>2. Startable(sc)
  BY Zenon DEF StartsRight
<1>3. DOMAIN http = {}
  BY <1>1
<1>4. HomeInv
  BY Zenon, <1>1, <1>2, <1>3 DEF Startable, HomeInv
<1>5. AgentInv
  BY Zenon, <1>1, <1>2, <1>3 DEF Startable, AgentInv
<1> QED
  BY Zenon, <1>1, <1>4, <1>5 DEF ProvisionedAccountsAreScoped

(* Accounts that Entra or an invitation made keep their place in the home  *)
(* until an admin removes them, for every interleaving of any number of    *)
(* sign-ins, signups, acceptances and removals (entra.go,                  *)
(* collaboration_handlers.go).                                             *)
THEOREM ProvisionedStayScoped ==
    ASSUME StartsRight
    PROVE  Spec => []ProvisionedAccountsAreScoped
<1>1. Init => HomeInv /\ ProvisionedAccountsAreScoped
  BY Zenon, InitInvariants
<1>2. HomeInv /\ ProvisionedAccountsAreScoped /\ [Next]_vars => (HomeInv /\ ProvisionedAccountsAreScoped)'
  BY Zenon, HomeInvStep, ScopedStep
<1> QED
  BY <1>1, <1>2, PTL DEF Spec

(* The home never has two primary agents, and the tokens of a removed      *)
(* agent never let anybody in again, for any number of agents and of       *)
(* requests that enroll, revoke and remove (home_singleton.go, UpsertAgent,*)
(* DeleteAgentForHome).                                                    *)
THEOREM EnrollmentStaysExact ==
    ASSUME StartsRight
    PROVE  Spec => []EnrollmentIsExact
<1>1. Init => HomeInv /\ AgentInv
  BY Zenon, InitInvariants
<1>2. HomeInv /\ AgentInv /\ [Next]_vars => (HomeInv /\ AgentInv)'
  BY Zenon, HomeInvStep, AgentInvStep
<1>3. AgentInv => EnrollmentIsExact
  BY Zenon, AgentInvSuffices
<1> QED
  BY <1>1, <1>2, <1>3, PTL DEF Spec

(* Nobody becomes a member but by setting up the home, alone, or through   *)
(* an invitation that is in the table at that moment and accepted from    *)
(* then on (AcceptHomeInvitation, CreateUserAndAcceptHomeInvitation,       *)
(* BootstrapSingletonHome).                                                *)
THEOREM JoiningIsInvited ==
    ASSUME StartsRight
    PROVE  Spec => MembersJoinByInvitation
<1>1. Init => HomeInv
  BY Zenon, InitInvariants
<1>2. HomeInv /\ [Next]_vars => HomeInv'
  BY Zenon, HomeInvStep
<1>3. HomeInv /\ [Next]_vars => [Joins]_accounts
  BY Zenon, JoinsStep
<1>4. Spec => [][Joins]_accounts
  BY <1>1, <1>2, <1>3, PTL DEF Spec
<1> QED
  BY Zenon, <1>4 DEF MembersJoinByInvitation, Joins
=============================================================================

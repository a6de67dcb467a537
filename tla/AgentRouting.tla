---------------------------- MODULE AgentRouting ----------------------------
(***************************************************************************)
(* How the cloud keeps track of the agents of a home.  Every agent socket  *)
(* is served by a goroutine of its own (handleAgentWebSocket), which       *)
(* registers the agent in the router, writes the agent's status to the     *)
(* store, and takes both back in a deferred cleanup when its read loop     *)
(* ends.  The goroutines of two sockets of the same agent - the one being  *)
(* lost and the one that replaces it - run side by side, and a goroutine   *)
(* learns of the loss of its socket arbitrarily late.                      *)
(*                                                                         *)
(* A router operation is atomic (it holds Router.mu), a store call is one  *)
(* statement; everything between two of them interleaves.  The deployment  *)
(* has a single home, so the home key of the router's maps is left out.    *)
(***************************************************************************)
EXTENDS Naturals

CONSTANTS Agents,         \* agent IDs enrolled for the home
          PrimaryAgents,  \* those enrolled as the home's primary agent
          Sockets,        \* agent sockets: each is accepted at most once
          NoSocket, NoAgent

ASSUME PrimaryAssumption == PrimaryAgents \subseteq Agents
ASSUME NullAssumption == NoSocket \notin Sockets /\ NoAgent \notin Agents

VARIABLES
  handler,    \* handler[c]: where socket c's goroutine stands
  owner,      \* owner[c]: the agent socket c was authenticated for
  registered, \* registered[c]: agentConnectionID is set (not "")
  agentsByHomeID,       \* the router: agent -> its connection
  primaryAgentByHomeID, \* the router: the home's primary agent
  status,     \* agents.status in the store
  enrolled,   \* the agents row and its tokens exist in the store
  connRow,    \* the socket's row in agent_connections
  removing,   \* agents deleted from the store, DisconnectAgent still to run
  shut,       \* sockets whose peer the cloud itself has closed
  dialed      \* dialed[a]: the socket agent a's process believes it is using

routingVars == <<handler, owner, registered, agentsByHomeID, primaryAgentByHomeID,
                 status, enrolled, connRow, removing, shut, dialed>>

router == <<agentsByHomeID, primaryAgentByHomeID>>

\* "upserted" and "routed" lie inside the registration, "closing" to
\* "rowClosed" inside the deferred cleanup; "lost" is a goroutine that ended
\* without writing "offline": it died with the cloud process, or the store
\* refused the write and nobody looks at the error.
HandlerStates ==
  {"unused", "accepted", "upserted", "routed", "live",
   "closing", "unregistered", "rowClosed", "closed", "lost"}

RoutingInit ==
  /\ handler = [c \in Sockets |-> "unused"]
  /\ owner = [c \in Sockets |-> NoAgent]
  /\ registered = [c \in Sockets |-> FALSE]
  /\ agentsByHomeID = [a \in Agents |-> NoSocket]
  /\ primaryAgentByHomeID = NoAgent
  /\ status = [a \in Agents |-> "offline"]
  /\ enrolled = [a \in Agents |-> TRUE]
  /\ connRow = [c \in Sockets |-> "none"]
  /\ removing = {}
  /\ shut = {}
  /\ dialed = [a \in Agents |-> NoSocket]

Goto(c, s) == handler' = [handler EXCEPT ![c] = s]

-----------------------------------------------------------------------------
(* The agent's side. *)

\* runOnce: an agent process uses one socket at a time and dials a new one
\* only after it gave up the last.  ValidateAgentToken lets in an agent whose
\* row and token still exist.
AgentDials(a, c) ==
  /\ dialed[a] = NoSocket
  /\ handler[c] = "unused"
  /\ enrolled[a]
  /\ Goto(c, "accepted")
  /\ owner' = [owner EXCEPT ![c] = a]
  /\ dialed' = [dialed EXCEPT ![a] = c]
  /\ UNCHANGED <<registered, router, status, enrolled, connRow, removing, shut>>

\* The agent's read or write fails and runOnce returns; the cloud's goroutine
\* does not know yet.
AgentDrops(a) ==
  /\ dialed[a] # NoSocket
  /\ dialed' = [dialed EXCEPT ![a] = NoSocket]
  /\ UNCHANGED <<handler, owner, registered, router, status, enrolled,
                 connRow, removing, shut>>

-----------------------------------------------------------------------------
(* Registration: agent.register was read from the socket. *)

\* UpsertAgent inserts the row when it is missing.
UpsertAgent(c) ==
  /\ handler[c] = "accepted"
  /\ status' = [status EXCEPT ![owner[c]] = "online"]
  /\ enrolled' = [enrolled EXCEPT ![owner[c]] = TRUE]
  /\ Goto(c, "upserted")
  /\ UNCHANGED <<owner, registered, router, connRow, removing, dialed, shut>>

\* UpsertAgent fails: the handler returns and its cleanup runs.
UpsertAgentFails(c) ==
  /\ handler[c] = "accepted"
  /\ Goto(c, "closing")
  /\ UNCHANGED <<owner, registered, router, status, enrolled, connRow,
                 removing, dialed, shut>>

\* The newest registration of an agent ID wins; a primary also takes over
\* the primary route.
RegisterAgent(c) ==
  /\ handler[c] = "upserted"
  /\ agentsByHomeID' = [agentsByHomeID EXCEPT ![owner[c]] = c]
  /\ primaryAgentByHomeID' = IF owner[c] \in PrimaryAgents
                             THEN owner[c] ELSE primaryAgentByHomeID
  /\ registered' = [registered EXCEPT ![c] = TRUE]
  /\ Goto(c, "routed")
  /\ UNCHANGED <<owner, status, enrolled, connRow, removing, dialed, shut>>

\* MarkAgentConnection(true), whose row refers to the agent's and whose error
\* is dropped, then the reply, whose write may fail.
FinishRegister(c) ==
  /\ handler[c] = "routed"
  /\ \/ enrolled[owner[c]] /\ connRow' = [connRow EXCEPT ![c] = "connected"]
     \/ UNCHANGED connRow
  /\ \/ c \notin shut /\ Goto(c, "live")
     \/ Goto(c, "closing")
  /\ UNCHANGED <<owner, registered, router, status, enrolled, removing,
                 dialed, shut>>

\* Mutant: the heartbeat refreshes capabilities and metrics only.
HeartbeatWithoutStatus(c) ==
  /\ handler[c] = "live" /\ c \notin shut
  /\ UNCHANGED routingVars

\* agent.heartbeat: SetAgentStatus updates the row if there is one.  (A
\* heartbeat whose update fails changes nothing.)  One the agent sent before
\* it dropped the socket is read as any other.
Heartbeat(c) ==
  /\ handler[c] = "live" /\ c \notin shut
  /\ status' = IF enrolled[owner[c]]
               THEN [status EXCEPT ![owner[c]] = "online"] ELSE status
  /\ UNCHANGED <<handler, owner, registered, router, enrolled, connRow,
                 removing, dialed, shut>>

-----------------------------------------------------------------------------
(* The end of a socket: the read loop returns, the deferred cleanup runs. *)

ReadFails(c) ==
  /\ handler[c] \in {"accepted", "live"}
  /\ Goto(c, "closing")
  /\ UNCHANGED <<owner, registered, router, status, enrolled, connRow,
                 removing, dialed, shut>>

\* The router's removal of agent a, shared by UnregisterAgent and
\* DisconnectAgent.
Unroute(a) ==
  /\ agentsByHomeID' = [agentsByHomeID EXCEPT ![a] = NoSocket]
  /\ primaryAgentByHomeID' = IF primaryAgentByHomeID = a
                             THEN NoAgent ELSE primaryAgentByHomeID

\* Mutant: the connection ID is not compared.
UnregisterMatchesAny(c) == agentsByHomeID[owner[c]] # NoSocket

\* A connection other than the caller's own is left alone, unless the caller
\* never registered: its connection ID is then "", which matches any.
UnregisterMatches(c) ==
  /\ agentsByHomeID[owner[c]] # NoSocket
  /\ registered[c] => agentsByHomeID[owner[c]] = c

\* Mutant: a replaced connection ends the cleanup early.
UnregisterAgentReturnsEarly(c) ==
  /\ handler[c] = "closing"
  /\ IF UnregisterMatches(c)
     THEN Unroute(owner[c]) /\ Goto(c, "unregistered")
     ELSE UNCHANGED router /\ Goto(c, "closed")
  /\ UNCHANGED <<owner, registered, status, enrolled, connRow, removing,
                 dialed, shut>>

UnregisterAgent(c) ==
  /\ handler[c] = "closing"
  /\ IF UnregisterMatches(c) THEN Unroute(owner[c]) ELSE UNCHANGED router
  /\ Goto(c, "unregistered")
  /\ UNCHANGED <<owner, registered, status, enrolled, connRow, removing,
                 dialed, shut>>

\* MarkAgentConnection(false), only for a socket that registered; its error
\* is dropped.
MarkDisconnected(c) ==
  /\ handler[c] = "unregistered"
  /\ \/ /\ registered[c] /\ connRow[c] = "connected"
        /\ connRow' = [connRow EXCEPT ![c] = "disconnected"]
     \/ UNCHANGED connRow
  /\ Goto(c, "rowClosed")
  /\ UNCHANGED <<owner, registered, router, status, enrolled, removing,
                 dialed, shut>>

\* SetAgentStatus(offline), whatever the router says by now.
SetOffline(c) ==
  /\ handler[c] = "rowClosed"
  /\ status' = [status EXCEPT ![owner[c]] = "offline"]
  /\ Goto(c, "closed")
  /\ UNCHANGED <<owner, registered, router, enrolled, connRow, removing,
                 dialed, shut>>

\* The error of that write is dropped too.
SetOfflineFails(c) ==
  /\ handler[c] = "rowClosed"
  /\ Goto(c, "lost")
  /\ UNCHANGED <<owner, registered, router, status, enrolled, connRow,
                 removing, dialed, shut>>

-----------------------------------------------------------------------------
(* DELETE /v1/home/agents/{id}, and the end of the cloud process. *)

\* DeleteAgentForHome: the row, its tokens and its connection rows go.
DeleteAgent(a) ==
  /\ enrolled[a] /\ a \notin removing
  /\ enrolled' = [enrolled EXCEPT ![a] = FALSE]
  /\ status' = [status EXCEPT ![a] = "offline"]
  /\ connRow' = [c \in Sockets |-> IF owner[c] = a THEN "none" ELSE connRow[c]]
  /\ removing' = removing \cup {a}
  /\ UNCHANGED <<handler, owner, registered, router, dialed, shut>>

\* The router entry goes and the connection's socket is closed, which will
\* end the socket's read loop.
DisconnectAgent(a) ==
  /\ a \in removing
  /\ removing' = removing \ {a}
  /\ IF agentsByHomeID[a] = NoSocket
     THEN UNCHANGED <<router, shut>>
     ELSE Unroute(a) /\ shut' = shut \cup {agentsByHomeID[a]}
  /\ UNCHANGED <<handler, owner, registered, status, enrolled, connRow, dialed>>

\* A crash takes the router and every goroutine with it; no cleanup runs and
\* StartRuntime does not touch the agents' status.
CloudRestarts ==
  /\ handler' = [c \in Sockets |->
                   IF handler[c] \in {"unused", "closed"}
                   THEN handler[c] ELSE "lost"]
  /\ handler' # handler
  /\ agentsByHomeID' = [a \in Agents |-> NoSocket]
  /\ primaryAgentByHomeID' = NoAgent
  /\ removing' = {}
  /\ UNCHANGED <<owner, registered, status, enrolled, connRow, dialed, shut>>

-----------------------------------------------------------------------------
SocketStep(c) ==
  \/ UpsertAgent(c) \/ UpsertAgentFails(c) \/ RegisterAgent(c)
  \/ FinishRegister(c) \/ Heartbeat(c) \/ ReadFails(c)
  \/ UnregisterAgent(c) \/ MarkDisconnected(c) \/ SetOffline(c)
  \/ SetOfflineFails(c)

RoutingNext ==
  \/ \E a \in Agents, c \in Sockets : AgentDials(a, c)
  \/ \E a \in Agents : AgentDrops(a) \/ DeleteAgent(a) \/ DisconnectAgent(a)
  \/ \E c \in Sockets : SocketStep(c)
  \/ CloudRestarts

\* A goroutine inside a registration or a cleanup runs on; a read from a
\* socket the cloud closed fails.  An agent sends a heartbeat every 15 seconds
\* on the socket it is using, and only there: nothing makes the cloud notice
\* that a socket the agent has dropped fell silent (no ping, no deadline of the
\* read), so such a socket may stay live and routed for ever.
Fairness ==
  \A c \in Sockets :
    /\ WF_routingVars(RegisterAgent(c) \/ FinishRegister(c))
    /\ WF_routingVars(UnregisterAgent(c) \/ MarkDisconnected(c)
                      \/ SetOffline(c) \/ SetOfflineFails(c))
    /\ WF_routingVars(\E a \in Agents : dialed[a] = c /\ Heartbeat(c))
    /\ WF_routingVars(c \in shut /\ ReadFails(c))

RoutingSpec == RoutingInit /\ [][RoutingNext]_routingVars

-----------------------------------------------------------------------------
TypeOK ==
  /\ handler \in [Sockets -> HandlerStates]
  /\ owner \in [Sockets -> Agents \cup {NoAgent}]
  /\ registered \in [Sockets -> BOOLEAN]
  /\ agentsByHomeID \in [Agents -> Sockets \cup {NoSocket}]
  /\ primaryAgentByHomeID \in Agents \cup {NoAgent}
  /\ status \in [Agents -> {"online", "offline"}]
  /\ enrolled \in [Agents -> BOOLEAN]
  /\ connRow \in [Sockets -> {"none", "connected", "disconnected"}]
  /\ removing \subseteq Agents
  /\ shut \subseteq Sockets
  /\ dialed \in [Agents -> Sockets \cup {NoSocket}]

\* The primary route never dangles: whenever primaryAgentByHomeID names an
\* agent, that agent was enrolled as a primary and has a connection, so
\* GetAgent never finds the route without the connection.
PrimaryIsRouted ==
  primaryAgentByHomeID # NoAgent =>
    /\ primaryAgentByHomeID \in PrimaryAgents
    /\ agentsByHomeID[primaryAgentByHomeID] # NoSocket

\* The router holds no connection whose goroutine is past its
\* UnregisterAgent, nor one authenticated for another agent: commands are
\* never routed into a socket that nobody will ever clean up again.
RoutedSocketServed ==
  \A a \in Agents : \A c \in Sockets :
    agentsByHomeID[a] = c =>
      /\ owner[c] = a
      /\ registered[c]
      /\ handler[c] \in {"routed", "live", "closing"}

\* The store never shows an agent online once the goroutines of all its
\* sockets have run to their end, in whatever order registrations,
\* heartbeats and cleanups of old and new sockets interleaved.  (A goroutine
\* that died with the cloud process, or whose write of "offline" failed, has
\* not.)
OfflineOnceAllClosed ==
  \A a \in Agents :
    (\A c \in Sockets : owner[c] = a => handler[c] = "closed")
      => status[a] = "offline"

\* A connection leaves the router only through its own goroutine's cleanup,
\* an administrator's removal of the agent, the end of the process - or the
\* cleanup of a socket that never registered.
UnrouteHasCause ==
  [][\A a \in Agents :
       agentsByHomeID[a] # NoSocket /\ agentsByHomeID'[a] = NoSocket =>
         \/ handler[agentsByHomeID[a]] = "closing"
         \/ a \in removing
         \/ handler'[agentsByHomeID[a]] = "lost"
         \/ \E c \in Sockets : /\ owner[c] = a /\ ~registered[c]
                               /\ handler[c] = "closing"]_routingVars

\* The late cleanup of an old socket writes "offline" over a live agent's
\* status; the heartbeats of the socket the agent is using repair it for good.
\* Of an agent whose socket fell silent nothing is claimed: its status stays
\* what the last writer made it.
LiveAgentBecomesOnline ==
  \A c \in Sockets : \A a \in Agents :
    <>[](dialed[a] = c /\ handler[c] = "live" /\ c \notin shut /\ enrolled[a])
      => <>[](status[a] = "online")

\* What the reconnect test says of a router with registered connections
\* only, as a statement about the whole handler: the cleanup of one socket
\* does not tear down the connection of another.
CleanupKeepsOtherSockets ==
  [][\A c \in Sockets :
       handler[c] = "closing" /\ handler'[c] = "unregistered" =>
         \A a \in Agents :
           agentsByHomeID[a] # c => agentsByHomeID'[a] = agentsByHomeID[a]]_routingVars

=============================================================================

-------------------------- MODULE DesktopSessions --------------------------
(***************************************************************************)
(* Remote desktop sessions of one agent: the desktop_sessions row and the  *)
(* join credentials (store/desktop_sessions.go), the HTTP handlers and the *)
(* agent's events that drive them (desktop_service.go,                     *)
(* desktop_session_handlers.go, desktop_control.go), and the data          *)
(* WebSockets of browser and agent that meet in the relay                  *)
(* (desktop_websocket.go, DesktopRelay).                                   *)
(*                                                                         *)
(* A store transaction is one action: it locks the row and checks again    *)
(* what the caller has read before.  Only where it does not (the epoch of  *)
(* an agent's event) are reading and writing two actions.  A deadline is a *)
(* flag that the clock sets; the values of reconnect_expires_at are        *)
(* numbered in the order they are set and pass in that order.              *)
(***************************************************************************)
EXTENDS DesktopRelay

CONSTANTS
    MaxEpoch,     \* bound: key epochs
    MaxWindows,   \* bound: settings of reconnect_expires_at
    Limits        \* bounds of one behaviour: records of sessions, epochs,
                  \* windows, sockets and restarts

ASSUME BoundAssumption ==
    /\ MaxEpoch \in Nat /\ MaxWindows \in Nat
    /\ Handlers \subseteq Nat
    /\ Limits \subseteq [sessions : SUBSET Sessions, epochs : 0 .. MaxEpoch,
                         windows : 0 .. MaxWindows, sockets : Nat, restarts : Nat]

Epochs == 1 .. MaxEpoch

ASSUME ClaimAssumption ==
    /\ MaxEpoch >= 1
    /\ Claims = [session : Sessions, epoch : Epochs, window : 0 .. MaxWindows]
    /\ NoClaim \notin Sessions
ASSUME OnePerAgentAssumption == MaxSessionsPerAgent = 1

VARIABLES
    row,         \* state of the row, "none" before it is inserted
    epoch,       \* key_epoch
    window,      \* reconnect_expires_at, 0 for NULL
    cred,        \* the join credential of each epoch and side
    until,       \* the window that ends with the credentials of an epoch
    passed,      \* deadlines that have passed: join, hard, and windows
    creating,    \* where the request that creates the session is
    offers,      \* epochs whose offer is about to be sent
    known,       \* whether the agent has been offered the current epoch
    event,       \* the session of the agent's event being handled, once its
                 \* row was read
    lost,        \* transport_closed events on their way to the store
    revoking,    \* calls of Revoke that have not looked into the registry
    pc,          \* where handleDesktopDataWebSocket is
    request,     \* its side and claim, and whether its credential was good
    restarts,
    limit        \* the bounds of this behaviour

rowVars == <<row, epoch, window, cred, until>>
serverVars == <<creating, offers, event, lost, revoking>>
vars == <<relayVars, rowVars, passed, serverVars, known, pc, request, restarts,
          limit>>

Early == {"requested", "offered", "agent_ready", "joining"}
Live == Early \cup {"active", "reconnecting"}
Terminal == {"denied", "failed", "expired", "terminated"}
NoEvent == NoClaim
NoRequest == [side |-> "browser", good |-> FALSE, claim |-> NoClaim]

Claim(s, e, w) == [session |-> s, epoch |-> e, window |-> w]

Init ==
    /\ RelayInit
    /\ row = [s \in Sessions |-> "none"]
    /\ epoch = [s \in Sessions |-> 0]
    /\ window = [s \in Sessions |-> 0]
    /\ cred = [s \in Sessions |-> [e \in Epochs |-> [d \in Sides |-> "none"]]]
    /\ until = [s \in Sessions |-> [e \in Epochs |-> 0]]
    /\ passed = [s \in Sessions |-> [join |-> FALSE, hard |-> FALSE, windows |-> 0]]
    /\ creating = [s \in Sessions |-> "idle"]
    /\ offers = [s \in Sessions |-> {}]
    /\ known = [s \in Sessions |-> FALSE]
    /\ event = NoEvent
    /\ lost = {}
    /\ revoking = {}
    /\ pc = [h \in Handlers |-> "idle"]
    /\ request = [h \in Handlers |-> NoRequest]
    /\ restarts = 0
    /\ limit \in Limits

-----------------------------------------------------------------------------
(* Transactions of the store *)

Revoked(creds) ==
    [e \in Epochs |-> [d \in Sides |->
        IF creds[e][d] = "fresh" THEN "revoked" ELSE creds[e][d]]]

Issue(creds, e) == [creds EXCEPT ![e] = [d \in Sides |-> "fresh"]]

(* TransitionDesktopSession; the credentials go with a terminal state. *)
Transition(s, from, to) ==
    IF row[s] \in from
    THEN /\ row' = [row EXCEPT ![s] = to]
         /\ cred' = [cred EXCEPT ![s] = IF to \in Terminal THEN Revoked(@) ELSE @]
         /\ UNCHANGED <<epoch, window, until>>
    ELSE UNCHANGED rowVars

(* CreateDesktopSession, under the unique index on live rows. *)
InsertRow(s) ==
    /\ \A t \in Sessions : AgentOf[t] = AgentOf[s] => row[t] \notin Live
    /\ row' = [row EXCEPT ![s] = "requested"]
    /\ epoch' = [epoch EXCEPT ![s] = 1]
    /\ cred' = [cred EXCEPT ![s] = Issue(@, 1)]
    /\ UNCHANGED <<window, until>>

OpenWindow(s) ==
    /\ window[s] < limit.windows
    /\ window' = [window EXCEPT ![s] = @ + 1]

(* Mutant: the state is not checked again under the lock. *)
BeginReconnectAnyway(s) ==
    /\ row[s] # "none"
    /\ ~passed[s].hard
    /\ epoch[s] < limit.epochs
    /\ row' = [row EXCEPT ![s] = "reconnecting"]
    /\ epoch' = [epoch EXCEPT ![s] = @ + 1]
    /\ OpenWindow(s)
    /\ cred' = [cred EXCEPT ![s] = Issue(Revoked(@), epoch[s] + 1)]
    /\ until' = [until EXCEPT ![s][epoch[s] + 1] = window[s] + 1]

(* BeginDesktopReconnect *)
BeginReconnect(s) ==
    /\ row[s] \in {"active", "reconnecting"}
    /\ ~passed[s].hard
    /\ epoch[s] < limit.epochs
    /\ row' = [row EXCEPT ![s] = "reconnecting"]
    /\ epoch' = [epoch EXCEPT ![s] = @ + 1]
    /\ OpenWindow(s)
    /\ cred' = [cred EXCEPT ![s] = Issue(Revoked(@), epoch[s] + 1)]
    /\ until' = [until EXCEPT ![s][epoch[s] + 1] = window[s] + 1]

(* MarkDesktopTransportLost *)
MarkTransportLost(s, e) ==
    IF row[s] = "active" /\ epoch[s] = e /\ ~passed[s].hard
    THEN /\ row' = [row EXCEPT ![s] = "reconnecting"]
         /\ OpenWindow(s)
         /\ UNCHANGED <<epoch, cred, until>>
    ELSE UNCHANGED rowVars

WindowPassed(s, w) == w <= passed[s].windows

(* Mutant: the hard deadline is left to the early states. *)
ExpiredEarly(s) ==
    /\ row[s] \in Live
    /\ \/ row[s] \in Early /\ (passed[s].join \/ passed[s].hard)
       \/ row[s] = "reconnecting" /\ window[s] > 0 /\ WindowPassed(s, window[s])

(* ExpireDesktopSessions, for one row; SQL's NULL is never in the past. *)
Expired(s) ==
    /\ row[s] \in Live
    /\ \/ passed[s].hard
       \/ row[s] \in Early /\ passed[s].join
       \/ row[s] = "reconnecting" /\ window[s] > 0 /\ WindowPassed(s, window[s])

Expire(s) ==
    /\ Expired(s)
    /\ Transition(s, Live, "expired")
    /\ UNCHANGED <<relayVars, passed, serverVars, known, pc, request, restarts, limit>>

-----------------------------------------------------------------------------
(* Creating a session: desktopService.Create reserves both sides, inserts  *)
(* the row and gives the reservation back if that fails; the handler then  *)
(* offers the session to the agent.                                        *)

Goto(s, step) == creating' = [creating EXCEPT ![s] = step]
First(s) == Claim(s, 1, 0)

ReserveFor(s, side, here, next, refused) ==
    /\ creating[s] = here
    /\ \/ /\ Reserve(First(s), side)
          /\ Goto(s, next)
       \/ /\ Refused(First(s), side)
          /\ Goto(s, refused)
          /\ UNCHANGED relayVars
    /\ UNCHANGED <<rowVars, passed, offers, event, lost, revoking, known,
                   pc, request, restarts, limit>>

ReserveAdmission(s) ==
    \/ /\ s \in limit.sessions
       /\ ReserveFor(s, "browser", "idle", "halfReserved", "done")
    \/ ReserveFor(s, "agent", "halfReserved", "reserved", "cancelBrowser")

CreateRow(s) ==
    /\ creating[s] = "reserved"
    /\ \/ InsertRow(s) /\ Goto(s, "inserted")
       \/ UNCHANGED rowVars /\ Goto(s, "cancelAgent")
    /\ UNCHANGED <<relayVars, passed, offers, event, lost, revoking, known,
                   pc, request, restarts, limit>>

ReleaseAdmission(s) ==
    /\ \/ /\ creating[s] = "cancelAgent"
          /\ CancelReservation(First(s), "agent")
          /\ Goto(s, "cancelBrowser")
       \/ /\ creating[s] = "cancelBrowser"
          /\ CancelReservation(First(s), "browser")
          /\ Goto(s, "done")
    /\ UNCHANGED <<rowVars, passed, offers, event, lost, revoking, known,
                   pc, request, restarts, limit>>

(* The row is offered; when that fails, because the row has moved on or    *)
(* the statement failed, it is ended for good.                             *)
OfferRow(s) ==
    /\ creating[s] = "inserted"
    /\ Goto(s, "done")
    /\ \/ /\ row[s] = "requested"
          /\ Transition(s, {"requested"}, "offered")
          /\ offers' = [offers EXCEPT ![s] = @ \cup {1}]
          /\ UNCHANGED revoking
       \/ /\ Transition(s, Live, "terminated")
          /\ revoking' = revoking \cup (IF row[s] \in Live THEN {s} ELSE {})
          /\ UNCHANGED offers
    /\ UNCHANGED <<relayVars, passed, event, lost, known, pc, request,
                   restarts, limit>>

(* failDesktopOffer *)
FailOffer(s) ==
    /\ Transition(s, {"requested", "offered", "reconnecting"}, "failed")
    /\ revoking' = revoking \cup {s}

(* sendDesktopOffer, which fails when the agent is away. *)
SendOffer(s, e) ==
    /\ e \in offers[s]
    /\ offers' = [offers EXCEPT ![s] = @ \ {e}]
    /\ \/ /\ known' = [known EXCEPT ![s] = @ \/ e = epoch[s]]
          /\ UNCHANGED <<rowVars, revoking>>
       \/ FailOffer(s) /\ UNCHANGED known
    /\ UNCHANGED <<relayVars, passed, creating, event, lost, pc, request,
                   restarts, limit>>

(* POST .../reconnect *)
Reconnect(s) ==
    /\ BeginReconnect(s)
    /\ offers' = [offers EXCEPT ![s] = @ \cup {epoch[s] + 1}]
    /\ known' = [known EXCEPT ![s] = FALSE]
    /\ UNCHANGED <<relayVars, passed, creating, event, lost, revoking, pc,
                   request, restarts, limit>>

(* POST .../terminate, and the revocation of an identity of the session:   *)
(* the row ends, then the relay is told.                                   *)
Terminate(s) ==
    /\ row[s] # "none"
    /\ Transition(s, Live, "terminated")
    /\ revoking' = revoking \cup {s}
    /\ UNCHANGED <<relayVars, passed, creating, offers, event, lost, known,
                   pc, request, restarts, limit>>

-----------------------------------------------------------------------------
(* handleDesktopAgentEvent, called by the loop that reads the agent's      *)
(* control socket: the epoch is compared with the row that is read first,  *)
(* the state with the row that is locked later.                            *)

EventTransitions ==
    [ready        |-> [from |-> {"offered"}, to |-> "agent_ready"],
     connected    |-> [from |-> {"agent_ready", "joining", "reconnecting"},
                       to |-> "active"],
     disconnected |-> [from |-> {"active"}, to |-> "reconnecting"],
     error        |-> [from |-> Live, to |-> "failed"],
     terminated   |-> [from |-> Live, to |-> "terminated"]]

AgentEvent(s) ==
    /\ event = NoEvent
    /\ known[s]
    /\ ~passed[s].hard
    /\ IF row[s] \in Terminal
       THEN revoking' = revoking \cup {s} /\ UNCHANGED event
       ELSE event' = s /\ UNCHANGED revoking
    /\ UNCHANGED <<relayVars, rowVars, passed, creating, offers, lost, known, pc,
                   request, restarts, limit>>

ApplyEvent(s, kind) ==
    LET from == EventTransitions[kind].from
        to == EventTransitions[kind].to
    IN  /\ event = s
        /\ event' = NoEvent
        /\ Transition(s, from, to)
        /\ revoking' = revoking \cup
              (IF row[s] \in from /\ to \in Terminal THEN {s} ELSE {})
        /\ UNCHANGED <<relayVars, passed, creating, offers, lost, known, pc,
                       request, restarts, limit>>

-----------------------------------------------------------------------------
(* Ends of relay sessions *)

Revoke(s) ==
    /\ s \in revoking
    /\ revoking' = revoking \ {s}
    /\ RevokeFinds(s)
    /\ UNCHANGED <<rowVars, passed, creating, offers, event, lost, known, pc,
                   request, restarts, limit>>

(* expireJoin and expireHard, and the second half of Revoke *)
JoinTimer(o) ==
    /\ UnpairedSeen(o)
    /\ claimOf[o].window > 0
          => WindowPassed(claimOf[o].session, claimOf[o].window)
    /\ UNCHANGED <<rowVars, passed, serverVars, known, pc, request, restarts, limit>>

HardTimer(o) ==
    /\ Fail(o)
    /\ passed[claimOf[o].session].hard
    /\ UNCHANGED <<rowVars, passed, serverVars, known, pc, request, restarts, limit>>

FailSeen(o) ==
    /\ FailCaught(o)
    /\ UNCHANGED <<rowVars, passed, serverVars, known, pc, request, restarts, limit>>

(* A pump fails because a socket is gone, or on a limit (DesktopPipe), or  *)
(* the request of a Join ends; only the loss of a socket concerns the row. *)
TransportCloses(o, reason) ==
    /\ Fail(o)
    /\ endpoint[o] # NoEndpoints
    /\ reason = "limit" => stage[o] = "paired"
    /\ lost' = IF reason = "transport_closed"
               THEN lost \cup {<<claimOf[o].session, claimOf[o].epoch>>}
               ELSE lost
    /\ UNCHANGED <<rowVars, passed, creating, offers, event, revoking,
                   known, pc, request, restarts, limit>>

(* recordDesktopRelayLifecycle, in a goroutine of its own. *)
RecordLoss(s, e) ==
    /\ <<s, e>> \in lost
    /\ lost' = lost \ {<<s, e>>}
    /\ MarkTransportLost(s, e)
    /\ UNCHANGED <<relayVars, passed, creating, offers, event, revoking,
                   known, pc, request, restarts, limit>>

-----------------------------------------------------------------------------
(* handleDesktopDataWebSocket: a browser or an agent presents the          *)
(* credential that was issued for epoch key.  WebSockets are numbered as   *)
(* they come.                                                              *)

Step(h, next) ==
    /\ pc' = [pc EXCEPT ![h] = next]
    /\ request' = IF next = "closed" THEN [request EXCEPT ![h] = NoRequest] ELSE request
RestUnchanged == UNCHANGED <<passed, serverVars, known, restarts, limit>>

(* The credentials of the first epoch end with the time to join. *)
Timely(s, key) ==
    IF key = 1 THEN ~passed[s].join ELSE ~WindowPassed(s, until[s][key])

Prepare(h, s, side, key) ==
    /\ pc[h] = "idle"
    /\ h <= limit.sockets
    /\ \A k \in Handlers : k < h => pc[k] # "idle"
    /\ cred[s][key][side] # "none"
    /\ row[s] \in {"offered", "agent_ready", "joining", "reconnecting"}
    /\ row[s] = "reconnecting" => window[s] > 0
    /\ ~passed[s].hard
    /\ LET w == IF row[s] = "reconnecting" THEN window[s] ELSE 0
       IN  request' = [request EXCEPT ![h] =
              [side |-> side, claim |-> Claim(s, epoch[s], w),
               good |-> key = epoch[s] /\ Timely(s, key)]]
    /\ pc' = [pc EXCEPT ![h] = "prepared"]
    /\ UNCHANGED <<relayVars, rowVars>> /\ RestUnchanged

(* Validate of a claim at the time of the call. *)
Valid(c) ==
    /\ ~passed[c.session].hard
    /\ c.window > 0 => ~WindowPassed(c.session, c.window)

ReserveSide(h) ==
    LET r == request[h]
    IN  /\ pc[h] = "prepared"
        /\ \/ Valid(r.claim) /\ Reserve(r.claim, r.side) /\ Step(h, "reserved")
           \/ /\ ~Valid(r.claim) \/ Refused(r.claim, r.side)
              /\ Step(h, "closed")
              /\ UNCHANGED relayVars
        /\ UNCHANGED rowVars /\ RestUnchanged

(* Mutant: a consumed credential is accepted again. *)
ConsumableTwice(r) == r.good

(* ConsumeDesktopJoinCredential; a reservation outlives a refusal. *)
Consumable(r) ==
    r.good /\ cred[r.claim.session][r.claim.epoch][r.side] = "fresh"

Consume(h) ==
    LET r == request[h]
    IN  /\ pc[h] = "reserved"
        /\ IF Consumable(r)
           THEN /\ cred' = [cred EXCEPT ![r.claim.session][r.claim.epoch][r.side] =
                                            "consumed"]
                /\ Step(h, "consumed")
           ELSE UNCHANGED cred /\ Step(h, "closed")
        /\ UNCHANGED <<relayVars, row, epoch, window, until>>
        /\ RestUnchanged

(* The WebSocket is accepted and joins, or the reservation is cancelled. *)
JoinRelay(h) ==
    LET r == request[h]
    IN  /\ pc[h] = "consumed"
        /\ \/ Valid(r.claim) /\ Join(r.claim, r.side, h) /\ Step(h, "joined")
           \/ UNCHANGED relayVars /\ Step(h, "leaving")
        /\ UNCHANGED rowVars /\ RestUnchanged

(* Join returns once its session is done. *)
JoinReturns(h) ==
    /\ pc[h] = "joined"
    /\ JoinDone(h)
    /\ Step(h, "leaving")
    /\ UNCHANGED rowVars /\ RestUnchanged

Leave(h) ==
    /\ pc[h] = "leaving"
    /\ CancelReservation(request[h].claim, request[h].side)
    /\ Step(h, "closed")
    /\ UNCHANGED rowVars /\ RestUnchanged

-----------------------------------------------------------------------------
(* The clock and the process *)

TimePasses(s) ==
    /\ row[s] # "none"
    /\ \/ ~passed[s].join /\ passed' = [passed EXCEPT ![s].join = TRUE]
       \/ /\ passed[s].windows < window[s]
          /\ passed' = [passed EXCEPT ![s].windows = @ + 1]
       \/ /\ ~passed[s].hard
          /\ passed' = [passed EXCEPT ![s] =
                            [join |-> TRUE, hard |-> TRUE, windows |-> window[s]]]
    /\ UNCHANGED <<relayVars, rowVars, serverVars, known, pc, request, restarts, limit>>

(* The cloud restarts: goroutines, sockets and relay are gone. *)
CloudRestarts ==
    /\ restarts < limit.restarts
    /\ restarts' = restarts + 1
    /\ RelayLost
    /\ creating' = [s \in Sessions |->
                       IF creating[s] = "idle" THEN "idle" ELSE "done"]
    /\ offers' = [s \in Sessions |-> {}]
    /\ event' = NoEvent /\ lost' = {} /\ revoking' = {}
    /\ pc' = [h \in Handlers |-> IF pc[h] = "idle" THEN "idle" ELSE "closed"]
    /\ request' = [h \in Handlers |-> NoRequest]
    /\ UNCHANGED <<rowVars, passed, known, limit>>

-----------------------------------------------------------------------------
CreateSteps(s) ==
    \/ creating[s] # "idle" /\ ReserveAdmission(s)
    \/ CreateRow(s)
    \/ ReleaseAdmission(s)
    \/ OfferRow(s)

SocketSteps(h) ==
    ReserveSide(h) \/ Consume(h) \/ JoinRelay(h) \/ JoinReturns(h) \/ Leave(h)

Next ==
    \/ \E s \in Sessions :
          \/ ReserveAdmission(s)
          \/ CreateRow(s)
          \/ ReleaseAdmission(s)
          \/ OfferRow(s)
          \/ \E e \in Epochs : SendOffer(s, e) \/ RecordLoss(s, e)
          \/ Reconnect(s)
          \/ Terminate(s)
          \/ AgentEvent(s)
          \/ \E kind \in DOMAIN EventTransitions : ApplyEvent(s, kind)
          \/ Revoke(s)
          \/ Expire(s)
          \/ TimePasses(s)
    \/ \E o \in Objects :
          \/ JoinTimer(o)
          \/ FailSeen(o)
          \/ HardTimer(o)
          \/ \E reason \in {"transport_closed", "limit"} :
                TransportCloses(o, reason)
    \/ \E h \in Handlers :
          \/ \E s \in Sessions, side \in Sides, key \in Epochs :
                Prepare(h, s, side, key)
          \/ SocketSteps(h)
    \/ CloudRestarts

Spec == Init /\ [][Next]_vars

RelayTimers(o) == JoinTimer(o) \/ HardTimer(o) \/ FailSeen(o)

(* Requests go on, the clock reaches every deadline, the timers of the     *)
(* relay fire and the ticker that expires rows runs.  Nothing is assumed   *)
(* of users, agents and sockets, nor of the goroutines that revoke or      *)
(* record a loss: the deadlines do without them.                           *)
FairSpec ==
    /\ Spec
    /\ WF_vars(\E s \in Sessions : CreateSteps(s))
    /\ WF_vars(\E s \in Sessions : Expire(s))
    /\ WF_vars(\E s \in Sessions : TimePasses(s))
    /\ WF_vars(\E o \in Objects : RelayTimers(o))
    /\ WF_vars(\E h \in Handlers : SocketSteps(h))

-----------------------------------------------------------------------------
SocketStates == {"idle", "prepared", "reserved", "consumed", "joined",
                 "leaving", "closed"}

(* The types of the relay, the rows, the credentials and the goroutines;   *)
(* a row is in one of the states of the protocol.                          *)
TypeOK ==
    /\ RelayTypeOK
    /\ row \in [Sessions -> {"none"} \cup Live \cup Terminal]
    /\ epoch \in [Sessions -> 0 .. MaxEpoch]
    /\ window \in [Sessions -> 0 .. MaxWindows]
    /\ cred \in [Sessions -> [Epochs ->
                  [Sides -> {"none", "fresh", "consumed", "revoked"}]]]
    /\ until \in [Sessions -> [Epochs -> 0 .. MaxWindows]]
    /\ passed \in [Sessions -> [join : BOOLEAN, hard : BOOLEAN,
                                 windows : 0 .. MaxWindows]]
    /\ creating \in [Sessions -> {"idle", "halfReserved", "reserved", "inserted",
                      "cancelAgent", "cancelBrowser", "done"}]
    /\ offers \in [Sessions -> SUBSET Epochs]
    /\ known \in [Sessions -> BOOLEAN]
    /\ event \in Sessions \cup {NoEvent}
    /\ lost \subseteq Sessions \X Epochs
    /\ revoking \subseteq Sessions
    /\ pc \in [Handlers -> SocketStates]
    /\ request \in [Handlers -> [side : Sides, good : BOOLEAN,
                                  claim : Claims \cup {NoClaim}]]
    /\ restarts \in 0 .. limit.restarts
    /\ limit \in Limits

(* A credential that can still be used belongs to the current epoch of a   *)
(* session that is alive: ending a session and beginning a reconnect take  *)
(* the older ones away in the same transaction.                            *)
FreshIsCurrent ==
    \A s \in Sessions, e \in Epochs, d \in Sides :
        cred[s][e][d] = "fresh" => row[s] \in Live /\ epoch[s] = e

(* One endpoint per session, epoch and side, ever: a credential lets in    *)
(* one WebSocket however often the relay's object is made anew.            *)
JoinedOnce ==
    \A h, k \in Handlers :
        /\ joined[h] # NotJoined /\ joined[k] # NotJoined
        /\ joined[h].claim.session = joined[k].claim.session
        /\ joined[h].claim.epoch = joined[k].claim.epoch
        /\ joined[h].side = joined[k].side
        => h = k

(* A session that has ended stays in the state it ended in, whichever of   *)
(* the user, the agent, the expiry and a reconnect comes late; and the     *)
(* epoch never goes back.                                                  *)
EndedStaysEnded ==
    [][\A s \in Sessions : /\ row[s] \in Terminal => row'[s] = row[s]
                           /\ epoch'[s] >= epoch[s]]_vars

(* Every session gives its agent back for good: its row ends and the relay *)
(* forgets it, whatever the sockets did and wherever the cloud restarted,  *)
(* and no late call brings either back.                                    *)
AgentGivenBack ==
    <>[](\A s \in Sessions : row[s] \notin Live /\ registry[s] = NoObject)
=============================================================================

---------------------------- MODULE DesktopRelay ----------------------------
(***************************************************************************)
(* The registry of the in-process desktop relay (desktop_relay.go): which  *)
(* session objects exist, which side is reserved or joined, when a session *)
(* is paired and how it ends.  Every action is a critical section of       *)
(* relay.mu.  The module makes no assumption on the callers: any claim may *)
(* be reserved, cancelled, joined or revoked at any time.  What they       *)
(* really do is in DesktopSessions.                                        *)
(*                                                                         *)
(* A claim is what two sides must agree on: the session, the key epoch and *)
(* the reconnect window (0 for a first join).  The home is the one home of *)
(* the deployment and the hard expiry is fixed when a session is created.  *)
(***************************************************************************)
EXTENDS Naturals, FiniteSets

CONSTANTS
    Sessions,             \* session IDs
    Agents,
    AgentOf,              \* the agent of each session
    Claims,               \* records with fields session, epoch and window
    Handlers,             \* calls of Join, one per data WebSocket
    Objects,              \* inProcessDesktopSession objects
    MaxSessions,          \* limits.MaxSessions and MaxSessionsPerHome
    MaxSessionsPerAgent,  \* limits.MaxSessionsPerAgent
    NoObject,
    NoHandler,
    NoClaim

ASSUME SessionsAssumption ==
    /\ IsFiniteSet(Sessions)
    /\ AgentOf \in [Sessions -> Agents]
    /\ \A c \in Claims : c.session \in Sessions
    /\ MaxSessions \in Nat /\ MaxSessionsPerAgent \in Nat
ASSUME NullAssumption ==
    /\ NoObject \notin Objects
    /\ NoHandler \notin Handlers
    /\ NoClaim \notin Claims

VARIABLES
    registry,  \* relay.sessions
    stage,     \* started and finished of each object
    claimOf,   \* session.claim
    endpoint,  \* session.browser and session.agent: whose Join set them
    reserved,  \* browserReserved and agentReserved
    joined,    \* each Join that was let in: its claim, and its object while
               \* it waits for the end
    caught     \* objects that Revoke or failUnpaired is about to fail

relayVars == <<registry, stage, claimOf, endpoint, reserved, joined, caught>>

Sides == {"browser", "agent"}
Stages == {"unused", "unpaired", "paired", "finished"}
Open(o) == stage[o] \in {"unpaired", "paired"}
NotJoined == [object |-> NoObject, claim |-> NoClaim, side |-> "browser"]
NoEndpoints == [d \in Sides |-> NoHandler]

RelayInit ==
    /\ registry = [s \in Sessions |-> NoObject]
    /\ stage = [o \in Objects |-> "unused"]
    /\ claimOf = [o \in Objects |-> NoClaim]
    /\ endpoint = [o \in Objects |-> NoEndpoints]
    /\ reserved = [o \in Objects |-> {}]
    /\ joined = [h \in Handlers |-> NotJoined]
    /\ caught = {}

-----------------------------------------------------------------------------
Registered == {s \in Sessions : registry[s] # NoObject}

Full(c) ==
    \/ Cardinality(Registered) >= MaxSessions
    \/ Cardinality({s \in Registered : AgentOf[s] = AgentOf[c.session]})
          >= MaxSessionsPerAgent

NewObject == CHOOSE o \in Objects : stage[o] = "unused"

(* sessionForJoinLocked: the registered object, if it was made for the     *)
(* same claim, or a new one within the limits.                             *)
SessionForJoin(c, o) ==
    IF registry[c.session] = NoObject
    THEN ~Full(c) /\ o = NewObject /\ stage[o] = "unused"
    ELSE o = registry[c.session] /\ claimOf[o] = c

(* A side is let in once. *)
SideFree(o, side) == endpoint[o][side] = NoHandler

Refused(c, side) ==
    IF registry[c.session] = NoObject
    THEN Full(c)
    ELSE \/ claimOf[registry[c.session]] # c
         \/ ~SideFree(registry[c.session], side)

Admit(c, o) ==
    /\ registry' = [registry EXCEPT ![c.session] = o]
    /\ claimOf' = [claimOf EXCEPT ![o] = c]

Reserve(c, side) ==
    \E o \in Objects :
        /\ SessionForJoin(c, o)
        /\ SideFree(o, side)
        /\ Admit(c, o)
        /\ stage' = [stage EXCEPT ![o] = IF @ = "unused" THEN "unpaired" ELSE @]
        /\ reserved' = [reserved EXCEPT ![o] = @ \cup {side}]
        /\ UNCHANGED <<endpoint, joined, caught>>

(* A finished object is garbage, and used again, once no Join waits for it *)
(* and nobody is about to fail it.                                         *)
Waiting(o) == {h \in Handlers : joined[h].object = o}

Finished(o, held) ==
    /\ stage' = [stage EXCEPT ![o] = IF held THEN "finished" ELSE "unused"]
    /\ claimOf' = [claimOf EXCEPT ![o] = IF held THEN @ ELSE NoClaim]

Finish(o, held) ==
    /\ registry' = [registry EXCEPT ![claimOf[o].session] = NoObject]
    /\ Finished(o, held)
    /\ endpoint' = [endpoint EXCEPT ![o] = NoEndpoints]
    /\ reserved' = [reserved EXCEPT ![o] = {}]

CancelReservation(c, side) ==
    LET o == registry[c.session]
    IN  IF o = NoObject
        THEN UNCHANGED relayVars
        ELSE IF claimOf[o].epoch # c.epoch
        THEN UNCHANGED relayVars
        ELSE /\ IF /\ stage[o] = "unpaired"
                   /\ reserved[o] \subseteq {side}
                   /\ endpoint[o] = NoEndpoints
                THEN Finish(o, o \in caught)
                ELSE /\ reserved' = [reserved EXCEPT ![o] = @ \ {side}]
                     /\ UNCHANGED <<registry, stage, claimOf, endpoint>>
             /\ UNCHANGED <<joined, caught>>

(* Mutant: a side that is only reserved counts as joined. *)
JoinPairsReserved(c, side, h) ==
    \E o \in Objects :
        /\ SessionForJoin(c, o)
        /\ SideFree(o, side)
        /\ Admit(c, o)
        /\ reserved' = [reserved EXCEPT ![o] = @ \ {side}]
        /\ endpoint' = [endpoint EXCEPT ![o][side] = h]
        /\ joined' = [joined EXCEPT ![h] =
                         [object |-> o, claim |-> c, side |-> side]]
        /\ stage' = [stage EXCEPT ![o] =
                        IF \A d \in Sides \ {side} :
                              ~SideFree(o, d) \/ d \in reserved[o]
                        THEN "paired" ELSE "unpaired"]
        /\ UNCHANGED caught

Join(c, side, h) ==
    \E o \in Objects :
        /\ SessionForJoin(c, o)
        /\ SideFree(o, side)
        /\ Admit(c, o)
        /\ reserved' = [reserved EXCEPT ![o] = @ \ {side}]
        /\ endpoint' = [endpoint EXCEPT ![o][side] = h]
        /\ joined' = [joined EXCEPT ![h] =
                         [object |-> o, claim |-> c, side |-> side]]
        /\ stage' = [stage EXCEPT ![o] =
                        IF \A d \in Sides \ {side} : ~SideFree(o, d)
                        THEN "paired" ELSE "unpaired"]
        /\ UNCHANGED caught

JoinDone(h) ==
    LET o == joined[h].object
    IN  /\ o # NoObject
        /\ stage[o] = "finished"
        /\ joined' = [joined EXCEPT ![h].object = NoObject]
        /\ Finished(o, o \in caught \/ Waiting(o) # {h})
        /\ UNCHANGED <<registry, endpoint, reserved, caught>>

(* fail: the first call finishes the object and unregisters it; its        *)
(* endpoints are closed and their Joins return.                            *)
Fail(o) ==
    /\ Open(o)
    /\ Finish(o, o \in caught \/ Waiting(o) # {})
    /\ UNCHANGED <<joined, caught>>

(* Revoke looks the object up, and failUnpaired looks at it, in a critical *)
(* section before that of fail.                                            *)
Catch(os) ==
    /\ caught' = caught \cup os
    /\ UNCHANGED <<registry, stage, claimOf, endpoint, reserved, joined>>

RevokeFinds(s) == Catch({registry[s]} \ {NoObject})
UnpairedSeen(o) == stage[o] = "unpaired" /\ o \notin caught /\ Catch({o})

FailCaught(o) ==
    /\ o \in caught
    /\ caught' = caught \ {o}
    /\ IF Open(o) THEN Finish(o, Waiting(o) # {})
       ELSE /\ Finished(o, Waiting(o) # {})
            /\ UNCHANGED <<registry, endpoint, reserved>>
    /\ UNCHANGED joined

(* The process ends and with it everything the relay knows. *)
RelayLost ==
    /\ registry' = [s \in Sessions |-> NoObject]
    /\ stage' = [o \in Objects |-> "unused"]
    /\ claimOf' = [o \in Objects |-> NoClaim]
    /\ endpoint' = [o \in Objects |-> NoEndpoints]
    /\ reserved' = [o \in Objects |-> {}]
    /\ joined' = [h \in Handlers |-> [joined[h] EXCEPT !.object = NoObject]]
    /\ caught' = {}

RelayNext ==
    \/ \E c \in Claims, side \in Sides :
          Reserve(c, side) \/ CancelReservation(c, side)
    \/ \E c \in Claims, side \in Sides, h \in Handlers :
          joined[h] = NotJoined /\ Join(c, side, h)
    \/ \E h \in Handlers : JoinDone(h)
    \/ \E s \in Sessions : RevokeFinds(s)
    \/ \E o \in Objects : Fail(o) \/ UnpairedSeen(o) \/ FailCaught(o)
    \/ RelayLost

RelaySpec == RelayInit /\ [][RelayNext]_relayVars

-----------------------------------------------------------------------------
(* The types of the registry, the objects and the Joins.                   *)
RelayTypeOK ==
    /\ registry \in [Sessions -> Objects \cup {NoObject}]
    /\ stage \in [Objects -> Stages]
    /\ claimOf \in [Objects -> Claims \cup {NoClaim}]
    /\ endpoint \in [Objects -> [Sides -> Handlers \cup {NoHandler}]]
    /\ reserved \in [Objects -> SUBSET Sides]
    /\ joined \in [Handlers -> [object : Objects \cup {NoObject},
                                claim : Claims \cup {NoClaim},
                                side : Sides]]
    /\ caught \subseteq Objects

(* The registry names exactly the sessions that are not finished: an       *)
(* object that lost its entry is finished, so that no timer, pump or Join  *)
(* of an old object can remove the entry of the one that replaced it, and  *)
(* no session runs that Revoke cannot find.                                *)
RegisteredIffOpen ==
    \A o \in Objects, s \in Sessions :
        registry[s] = o <=> Open(o) /\ claimOf[o].session = s

(* A paired session connects one browser and one agent that joined with    *)
(* the claim of the session, the same epoch and the same window.           *)
PairedByClaim ==
    \A o \in Objects :
        stage[o] = "paired" =>
            \A d \in Sides :
                /\ endpoint[o][d] \in Handlers
                /\ joined[endpoint[o][d]]
                      = [object |-> o, claim |-> claimOf[o], side |-> d]

(* The relay carries at most one session of an agent. *)
OneSessionPerAgent ==
    \A s, t \in Registered : AgentOf[s] = AgentOf[t] => s = t
=============================================================================

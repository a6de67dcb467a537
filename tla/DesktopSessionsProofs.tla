----------------------- MODULE DesktopSessionsProofs -----------------------
(***************************************************************************)
(* Desktop sessions and the relay for any number of sessions, objects,     *)
(* sockets, epochs and restarts.  RelayInv is an inductive invariant of    *)
(* RelaySpec, whatever the relay's callers do.  StoreInv is about the rows *)
(* and credentials, SocketInv about who holds a consumed credential; the   *)
(* relay's part is that every step is a step of RelaySpec, so that         *)
(* RelayInv carries over.                                                  *)
(***************************************************************************)
EXTENDS DesktopSessions, FiniteSetTheorems, TLAPS

-----------------------------------------------------------------------------
(* The relay *)

(* An endpoint is the Join that set it, with the claim of the object; an   *)
(* object that is not open has none.                                       *)
EndpointsJoined ==
    \A o \in Objects, d \in Sides :
        endpoint[o][d] # NoHandler =>
            /\ Open(o)
            /\ joined[endpoint[o][d]] =
                  [object |-> o, claim |-> claimOf[o], side |-> d]

PairedBothSides ==
    \A o \in Objects :
        stage[o] = "paired" => \A d \in Sides : endpoint[o][d] # NoHandler

OpenHasClaim == \A o \in Objects : Open(o) => claimOf[o] \in Claims

(* PairedByClaim says nothing of objects that wait for their second side,  *)
(* nor RegisteredIffOpen of the claims it reads: these three conjuncts do. *)
RelayInv ==
    /\ RelayTypeOK
    /\ OpenHasClaim
    /\ RegisteredIffOpen
    /\ EndpointsJoined
    /\ PairedBothSides

(* A new relay is empty. *)
LEMMA RelayInitInv == RelayInit => RelayInv
  BY SessionsAssumption, NullAssumption
  DEF RelayInit, RelayInv, RelayTypeOK, OpenHasClaim, RegisteredIffOpen,
      EndpointsJoined, PairedBothSides, Open, NoEndpoints, NotJoined, Sides, Stages

(* Finishing an open object keeps the invariant. *)
LEMMA FinishInv ==
    ASSUME RelayInv, NEW o \in Objects, Open(o), NEW held \in BOOLEAN,
           Finish(o, held), UNCHANGED joined, caught' \subseteq Objects
    PROVE  RelayInv'
<1>1. claimOf[o] \in Claims /\ claimOf[o].session \in Sessions
  BY Zenon, SessionsAssumption DEF RelayInv, OpenHasClaim
<1>2. RelayTypeOK'
  BY Zenon, <1>1 DEF RelayInv, RelayTypeOK, Finish, Finished, NoEndpoints, Stages
<1>3. OpenHasClaim'
  BY Zenon DEF RelayInv, RelayTypeOK, OpenHasClaim, Finish, Finished, Open
<1>4. RegisteredIffOpen'
  BY <1>1, NullAssumption
  DEF RelayInv, RelayTypeOK, RegisteredIffOpen, Finish, Finished, Open
<1>5. EndpointsJoined' /\ PairedBothSides'
  BY Zenon DEF RelayInv, RelayTypeOK, EndpointsJoined, PairedBothSides, Finish, Finished, Open,
     NoEndpoints
<1> QED BY Zenon, <1>2, <1>3, <1>4, <1>5 DEF RelayInv

(* A caller is let in: the object it gets is the registered one, made for  *)
(* the same claim, or was not in use.                                      *)
LEMMA AdmitInv ==
    ASSUME RelayInv, NEW c \in Claims, NEW o \in Objects,
           SessionForJoin(c, o), Admit(c, o)
    PROVE  /\ registry' \in [Sessions -> Objects \cup {NoObject}]
           /\ claimOf' \in [Objects -> Claims \cup {NoClaim}]
           /\ claimOf'[o] = c
           /\ \A p \in Objects \ {o} : claimOf'[p] = claimOf[p]
           /\ Open(o) => claimOf[o] = c
           /\ ~Open(o) => stage[o] = "unused" /\ \A d \in Sides : endpoint[o][d] = NoHandler
           /\ \A p \in Objects, s \in Sessions :
                registry'[s] = p <=> (Open(p) \/ p = o) /\ claimOf'[p].session = s
<1>1. c.session \in Sessions
  BY Zenon, SessionsAssumption
<1>2. Open(o) => claimOf[o] = c /\ registry[c.session] = o
  BY Zenon DEF SessionForJoin, RelayInv, RelayTypeOK, RegisteredIffOpen, Open
<1>3. ~Open(o) => stage[o] = "unused" /\ registry[c.session] = NoObject
  BY Zenon, <1>1 DEF SessionForJoin, RelayInv, RegisteredIffOpen, Open
<1>4. /\ registry' \in [Sessions -> Objects \cup {NoObject}]
      /\ claimOf' \in [Objects -> Claims \cup {NoClaim}]
      /\ claimOf'[o] = c
      /\ \A p \in Objects \ {o} : claimOf'[p] = claimOf[p]
  BY Zenon, <1>1 DEF RelayInv, RelayTypeOK, Admit
<1>5. \A p \in Objects, s \in Sessions :
        registry'[s] = p <=> (Open(p) \/ p = o) /\ claimOf'[p].session = s
  <2> SUFFICES ASSUME NEW p \in Objects, NEW s \in Sessions
               PROVE  registry'[s] = p <=> (Open(p) \/ p = o) /\ claimOf'[p].session = s
    OBVIOUS
  <2>1. registry[s] = p <=> Open(p) /\ claimOf[p].session = s
    BY Zenon DEF RelayInv, RegisteredIffOpen
  <2>2. registry'[s] = IF s = c.session THEN o ELSE registry[s]
    BY Zenon, <1>1 DEF RelayInv, RelayTypeOK, Admit
  <2>3. CASE p = o
    BY Zenon, <2>1, <2>2, <2>3, <1>2, <1>3, <1>4
  <2>4. CASE p # o
    <3>1. s = c.session => ~(Open(p) /\ claimOf[p].session = s)
      BY Zenon, <2>4, <2>1, <1>2, <1>3, NullAssumption
    <3> QED BY Zenon, <2>1, <2>2, <2>4, <1>4, <3>1
  <2> QED BY Zenon, <2>3, <2>4
<1>6. ~Open(o) => \A d \in Sides : endpoint[o][d] = NoHandler
  BY Zenon DEF RelayInv, EndpointsJoined
<1> QED BY Zenon, <1>2, <1>3, <1>4, <1>5, <1>6

(* Reserve gives a side of an admitted object away. *)
LEMMA ReserveInv ==
    ASSUME RelayInv, NEW c \in Claims, NEW side \in Sides, Reserve(c, side)
    PROVE  RelayInv'
<1>1. PICK o \in Objects :
        /\ SessionForJoin(c, o) /\ SideFree(o, side) /\ Admit(c, o)
        /\ stage' = [stage EXCEPT ![o] = IF @ = "unused" THEN "unpaired" ELSE @]
        /\ reserved' = [reserved EXCEPT ![o] = @ \cup {side}]
        /\ UNCHANGED <<endpoint, joined, caught>>
  BY Zenon DEF Reserve
<1>2. /\ registry' \in [Sessions -> Objects \cup {NoObject}]
      /\ claimOf' \in [Objects -> Claims \cup {NoClaim}]
      /\ claimOf'[o] = c
      /\ \A p \in Objects \ {o} : claimOf'[p] = claimOf[p]
      /\ Open(o) => claimOf[o] = c
      /\ ~Open(o) => stage[o] = "unused" /\ \A d \in Sides : endpoint[o][d] = NoHandler
      /\ \A p \in Objects, s \in Sessions :
           registry'[s] = p <=> (Open(p) \/ p = o) /\ claimOf'[p].session = s
  BY <1>1, AdmitInv
<1>3. stage' \in [Objects -> Stages] /\ \A p \in Objects : Open(p)' <=> Open(p) \/ p = o
  BY SMTT(60), <1>1, <1>2 DEF RelayInv, RelayTypeOK, Open, Stages
<1>4. RelayTypeOK'
  BY SMTT(60), <1>1, <1>2, <1>3 DEF RelayInv, RelayTypeOK
<1>5. OpenHasClaim' /\ RegisteredIffOpen'
  BY SMTT(60), <1>2, <1>3 DEF RelayInv, OpenHasClaim, RegisteredIffOpen
<1>6. EndpointsJoined'
  BY SMTT(60), <1>1, <1>2, <1>3 DEF RelayInv, EndpointsJoined
<1>7. PairedBothSides'
  BY <1>1, <1>2 DEF RelayInv, RelayTypeOK, PairedBothSides
<1> QED BY Zenon, <1>4, <1>5, <1>6, <1>7 DEF RelayInv

(* Join sets one endpoint, and pairs the object when the other is set. *)
LEMMA JoinInv ==
    ASSUME RelayInv, NEW c \in Claims, NEW side \in Sides, NEW h \in Handlers,
           joined[h] = NotJoined, Join(c, side, h)
    PROVE  RelayInv'
<1>1. PICK o \in Objects :
        /\ SessionForJoin(c, o) /\ SideFree(o, side) /\ Admit(c, o)
        /\ reserved' = [reserved EXCEPT ![o] = @ \ {side}]
        /\ endpoint' = [endpoint EXCEPT ![o][side] = h]
        /\ joined' = [joined EXCEPT ![h] = [object |-> o, claim |-> c, side |-> side]]
        /\ stage' = [stage EXCEPT ![o] =
                        IF \A d \in Sides \ {side} : ~SideFree(o, d)
                        THEN "paired" ELSE "unpaired"]
        /\ UNCHANGED caught
  BY Zenon DEF Join
<1>2. /\ registry' \in [Sessions -> Objects \cup {NoObject}]
      /\ claimOf' \in [Objects -> Claims \cup {NoClaim}]
      /\ claimOf'[o] = c
      /\ \A p \in Objects \ {o} : claimOf'[p] = claimOf[p]
      /\ Open(o) => claimOf[o] = c
      /\ ~Open(o) => stage[o] = "unused" /\ \A d \in Sides : endpoint[o][d] = NoHandler
      /\ \A p \in Objects, s \in Sessions :
           registry'[s] = p <=> (Open(p) \/ p = o) /\ claimOf'[p].session = s
  BY <1>1, AdmitInv
<1>3. stage' \in [Objects -> Stages] /\ \A p \in Objects : Open(p)' <=> Open(p) \/ p = o
  BY Zenon, <1>1 DEF RelayInv, RelayTypeOK, Open, Stages
<1>4. RelayTypeOK'
  BY Zenon, <1>1, <1>2, <1>3 DEF RelayInv, RelayTypeOK
<1>5. OpenHasClaim' /\ RegisteredIffOpen'
  BY <1>2, <1>3 DEF RelayInv, OpenHasClaim, RegisteredIffOpen
<1>6. \A p \in Objects, d \in Sides :
        endpoint'[p][d] = IF p = o /\ d = side THEN h ELSE endpoint[p][d]
  BY Zenon, <1>1 DEF RelayInv, RelayTypeOK
<1>7. \A p \in Objects, d \in Sides : endpoint[p][d] # h
  <2> SUFFICES ASSUME NEW p \in Objects, NEW d \in Sides, endpoint[p][d] = h
               PROVE  FALSE
    OBVIOUS
  <2>1. joined[h] = [object |-> p, claim |-> claimOf[p], side |-> d]
    BY Zenon, NullAssumption DEF RelayInv, EndpointsJoined
  <2>2. joined[h].object = p /\ joined[h].object = NoObject
    BY <2>1 DEF NotJoined
  <2> QED BY Zenon, <2>2, NullAssumption
<1>8. EndpointsJoined'
  <2> SUFFICES ASSUME NEW p \in Objects, NEW d \in Sides, endpoint'[p][d] # NoHandler
               PROVE  /\ Open(p)'
                      /\ joined'[endpoint'[p][d]] =
                           [object |-> p, claim |-> claimOf'[p], side |-> d]
    BY Zenon DEF EndpointsJoined
  <2>1. CASE p = o /\ d = side
    BY <2>1, <1>1, <1>2, <1>3, <1>6 DEF RelayInv, RelayTypeOK
  <2>2. CASE ~(p = o /\ d = side)
    <3>1. /\ endpoint'[p][d] = endpoint[p][d]
          /\ Open(p)
          /\ joined[endpoint[p][d]] = [object |-> p, claim |-> claimOf[p], side |-> d]
      BY Zenon, <2>2, <1>6 DEF RelayInv, EndpointsJoined
    <3>2. joined'[endpoint[p][d]] = joined[endpoint[p][d]]
      BY SMTT(60), <1>1, <1>7, <3>1 DEF RelayInv, RelayTypeOK
    <3>3. claimOf'[p] = claimOf[p]
      BY Zenon, <1>2, <3>1
    <3> QED BY Zenon, <3>1, <3>2, <3>3, <1>3
  <2> QED BY Zenon, <2>1, <2>2
<1>9. PairedBothSides'
  BY <1>1, <1>6, NullAssumption
  DEF RelayInv, RelayTypeOK, PairedBothSides, SideFree
<1> QED BY Zenon, <1>4, <1>5, <1>8, <1>9 DEF RelayInv

(* CancelReservation finishes an object only when nobody has joined it. *)
LEMMA CancelInv ==
    ASSUME RelayInv, NEW c \in Claims, NEW side \in Sides, CancelReservation(c, side)
    PROVE  RelayInv'
<1> DEFINE o == registry[c.session]
<1>1. CASE UNCHANGED relayVars
  BY SMTT(60), <1>1 DEF relayVars, RelayInv, RelayTypeOK, OpenHasClaim, RegisteredIffOpen,
              EndpointsJoined, PairedBothSides, Open
<1>2. CASE ~UNCHANGED relayVars
  <2>1. o # NoObject /\ o \in Objects /\ Open(o)
    BY SMTT(60), <1>2, SessionsAssumption
    DEF CancelReservation, RelayInv, RelayTypeOK, RegisteredIffOpen
  <2>2. UNCHANGED <<joined, caught>>
    BY Zenon, <1>2 DEF CancelReservation
  <2>3. CASE Finish(o, o \in caught)
    <3>1. Finish(o, TRUE) \/ Finish(o, FALSE)
      BY Zenon, <2>3 DEF Finish, Finished
    <3>2. caught' \subseteq Objects
      BY Zenon, <2>2 DEF RelayInv, RelayTypeOK
    <3> HIDE DEF o
    <3> QED BY Zenon, <2>1, <2>2, <3>1, <3>2, FinishInv
  <2>4. CASE /\ reserved' = [reserved EXCEPT ![o] = @ \ {side}]
             /\ UNCHANGED <<registry, stage, claimOf, endpoint>>
    <3>1. RelayTypeOK'
      BY Zenon, <2>2, <2>4 DEF RelayInv, RelayTypeOK
    <3>2. OpenHasClaim' /\ RegisteredIffOpen' /\ EndpointsJoined' /\ PairedBothSides'
      BY <2>2, <2>4 DEF RelayInv, OpenHasClaim, RegisteredIffOpen, EndpointsJoined,
                        PairedBothSides, Open
    <3> QED BY Zenon, <3>1, <3>2 DEF RelayInv
  <2> QED BY Zenon, <1>2, <2>3, <2>4 DEF CancelReservation
<1> QED BY Zenon, <1>1, <1>2

(* A Join that returns may leave a finished object to the collector. *)
LEMMA JoinDoneInv ==
    ASSUME RelayInv, NEW h \in Handlers, JoinDone(h)
    PROVE  RelayInv'
<1> DEFINE o == joined[h].object
<1>1. o \in Objects /\ stage[o] = "finished"
  BY Zenon DEF JoinDone, RelayInv, RelayTypeOK
<1>2. stage'[o] \in {"finished", "unused"} /\ \A p \in Objects \ {o} : stage'[p] = stage[p]
  BY Zenon, <1>1 DEF JoinDone, Finished, RelayInv, RelayTypeOK
<1>3. \A p \in Objects \ {o} : claimOf'[p] = claimOf[p]
  BY Zenon, <1>1 DEF JoinDone, Finished, RelayInv, RelayTypeOK
<1>4. \A k \in Handlers \ {h} : joined'[k] = joined[k]
  BY Zenon DEF JoinDone, RelayInv, RelayTypeOK
<1>5. RelayTypeOK'
  BY Zenon, <1>1 DEF JoinDone, Finished, RelayInv, RelayTypeOK, Stages
<1>6. OpenHasClaim' /\ RegisteredIffOpen'
  BY <1>1, <1>2, <1>3
  DEF JoinDone, RelayInv, OpenHasClaim, RegisteredIffOpen, Open
<1>7. EndpointsJoined'
  <2> SUFFICES ASSUME NEW p \in Objects, NEW d \in Sides, endpoint[p][d] # NoHandler
               PROVE  /\ Open(p)'
                      /\ joined'[endpoint[p][d]] =
                           [object |-> p, claim |-> claimOf'[p], side |-> d]
    BY Zenon DEF EndpointsJoined, JoinDone
  <2>1. /\ Open(p)
        /\ joined[endpoint[p][d]] = [object |-> p, claim |-> claimOf[p], side |-> d]
        /\ endpoint[p][d] \in Handlers
    BY DEF RelayInv, RelayTypeOK, EndpointsJoined
  <2>2. p # o
    BY Zenon, <1>1, <2>1 DEF Open
  <2>3. endpoint[p][d] # h
    BY <2>1, <2>2
  <2> QED BY Zenon, <2>1, <2>2, <2>3, <1>2, <1>3, <1>4 DEF Open
<1>8. PairedBothSides'
  BY Zenon, <1>1, <1>2 DEF JoinDone, RelayInv, PairedBothSides
<1> QED BY Zenon, <1>5, <1>6, <1>7, <1>8 DEF RelayInv

(* fail finishes an object that is open, and leaves a finished one alone. *)
LEMMA FailInv ==
    ASSUME RelayInv, NEW o \in Objects, Fail(o) \/ FailCaught(o)
    PROVE  RelayInv'
<1>1. caught' \subseteq Objects /\ UNCHANGED joined
  BY Zenon DEF Fail, FailCaught, RelayInv, RelayTypeOK
<1>2. CASE Open(o)
  <2>1. Finish(o, TRUE) \/ Finish(o, FALSE)
    BY Zenon, <1>2 DEF Fail, FailCaught, Finish, Finished
  <2> QED BY Zenon, <1>1, <1>2, <2>1, FinishInv
<1>3. CASE ~Open(o)
  <2>1. /\ UNCHANGED <<registry, endpoint, reserved>>
        /\ Finished(o, TRUE) \/ Finished(o, FALSE)
    BY Zenon, <1>3 DEF Fail, FailCaught, Finished
  <2>2. /\ stage'[o] \in {"finished", "unused"}
        /\ \A p \in Objects \ {o} : stage'[p] = stage[p] /\ claimOf'[p] = claimOf[p]
    BY Zenon, <2>1 DEF Finished, RelayInv, RelayTypeOK
  <2>3. RelayTypeOK'
    BY Zenon, <1>1, <2>1 DEF Finished, RelayInv, RelayTypeOK, Stages
  <2>4. OpenHasClaim' /\ RegisteredIffOpen'
    BY <1>3, <2>1, <2>2 DEF RelayInv, OpenHasClaim, RegisteredIffOpen, Open
  <2>5. EndpointsJoined'
    <3> SUFFICES ASSUME NEW p \in Objects, NEW d \in Sides, endpoint[p][d] # NoHandler
                 PROVE  /\ Open(p)'
                        /\ joined[endpoint[p][d]] =
                             [object |-> p, claim |-> claimOf'[p], side |-> d]
      BY Zenon, <1>1, <2>1 DEF EndpointsJoined
    <3>1. /\ Open(p)
          /\ joined[endpoint[p][d]] = [object |-> p, claim |-> claimOf[p], side |-> d]
      BY Zenon DEF RelayInv, EndpointsJoined
    <3> QED BY Zenon, <1>3, <2>2, <3>1 DEF Open
  <2>6. PairedBothSides'
    BY Zenon, <2>1, <2>2 DEF RelayInv, PairedBothSides
  <2> QED BY Zenon, <2>3, <2>4, <2>5, <2>6 DEF RelayInv
<1> QED BY Zenon, <1>2, <1>3

(* Looking an object up changes nothing that the invariant reads. *)
LEMMA CatchInv ==
    ASSUME RelayInv, NEW os \in SUBSET Objects, Catch(os)
    PROVE  RelayInv'
<1>1. RelayTypeOK'
  BY Zenon DEF Catch, RelayInv, RelayTypeOK
<1>2. OpenHasClaim' /\ RegisteredIffOpen' /\ EndpointsJoined' /\ PairedBothSides'
  BY DEF Catch, RelayInv, OpenHasClaim, RegisteredIffOpen, EndpointsJoined,
         PairedBothSides, Open
<1> QED BY Zenon, <1>1, <1>2 DEF RelayInv

(* A restart empties the relay. *)
LEMMA LostInv ==
    ASSUME RelayInv, RelayLost
    PROVE  RelayInv'
<1>1. RelayTypeOK'
  BY Zenon DEF RelayLost, RelayInv, RelayTypeOK, Stages, NoEndpoints
<1>2. OpenHasClaim' /\ RegisteredIffOpen' /\ EndpointsJoined' /\ PairedBothSides'
  BY Zenon, NullAssumption DEF RelayLost, RelayInv, OpenHasClaim, RegisteredIffOpen,
     EndpointsJoined, PairedBothSides, Open, NoEndpoints
<1> QED BY Zenon, <1>1, <1>2 DEF RelayInv

(* Every call and every timer of the relay keeps the invariant. *)
LEMMA RelayNextInv == RelayInv /\ [RelayNext]_relayVars => RelayInv'
<1> SUFFICES ASSUME RelayInv, [RelayNext]_relayVars PROVE RelayInv'
  OBVIOUS
<1>1. CASE UNCHANGED relayVars
  BY <1>1 DEF relayVars, RelayInv, RelayTypeOK, OpenHasClaim, RegisteredIffOpen,
              EndpointsJoined, PairedBothSides, Open
<1>2. ASSUME NEW c \in Claims, NEW side \in Sides,
             Reserve(c, side) \/ CancelReservation(c, side)
      PROVE  RelayInv'
  BY Zenon, <1>2, ReserveInv, CancelInv
<1>3. ASSUME NEW c \in Claims, NEW side \in Sides, NEW h \in Handlers,
             joined[h] = NotJoined, Join(c, side, h)
      PROVE  RelayInv'
  BY Zenon, <1>3, JoinInv
<1>4. ASSUME NEW h \in Handlers, JoinDone(h) PROVE RelayInv'
  BY Zenon, <1>4, JoinDoneInv
<1>5. ASSUME NEW s \in Sessions, RevokeFinds(s) PROVE RelayInv'
  <2>1. {registry[s]} \ {NoObject} \in SUBSET Objects
    BY Zenon DEF RelayInv, RelayTypeOK
  <2> QED BY Zenon, <1>5, <2>1, CatchInv DEF RevokeFinds
<1>6. ASSUME NEW o \in Objects, Fail(o) \/ FailCaught(o) PROVE RelayInv'
  BY Zenon, <1>6, FailInv
<1>7. ASSUME NEW o \in Objects, UnpairedSeen(o) PROVE RelayInv'
  <2>1. {o} \in SUBSET Objects
    OBVIOUS
  <2> QED BY Zenon, <1>7, <2>1, CatchInv DEF UnpairedSeen
<1>8. CASE RelayLost
  BY Zenon, <1>8, LostInv
<1> QED BY Zenon, <1>1, <1>2, <1>3, <1>4, <1>5, <1>6, <1>7, <1>8 DEF RelayNext

(* Both endpoints of a paired object have joined with its claim. *)
LEMMA RelayInvPairs == RelayInv => PairedByClaim
  BY DEF RelayInv, RelayTypeOK, PairedBothSides, EndpointsJoined, PairedByClaim

(* With the limit of one session per agent, a new object is made only for  *)
(* an agent that has none.                                                 *)
LEMMA AdmitOnePerAgent ==
    ASSUME RelayTypeOK, MaxSessionsPerAgent = 1, OneSessionPerAgent,
           NEW c \in Claims, NEW o \in Objects, SessionForJoin(c, o), Admit(c, o)
    PROVE  OneSessionPerAgent'
<1> DEFINE Same == {s \in Registered : AgentOf[s] = AgentOf[c.session]}
<1>1. c.session \in Sessions
  BY Zenon, SessionsAssumption
<1>2. CASE registry[c.session] # NoObject
  <2>1. Registered' \subseteq Registered
    BY Zenon, <1>1, <1>2 DEF Registered, SessionForJoin, Admit, RelayTypeOK
  <2> QED BY Zenon, <2>1 DEF OneSessionPerAgent
<1>3. CASE registry[c.session] = NoObject
  <2>1. ~(Cardinality(Same) >= 1)
    BY Zenon, <1>3 DEF SessionForJoin, Full
  <2>2. IsFiniteSet(Same)
    <3>1. Same \in SUBSET Sessions
      BY Zenon DEF Registered
    <3> HIDE DEF Same
    <3> QED BY Zenon, <3>1, SessionsAssumption, FS_Subset
  <2>3. Same = {}
    <3> HIDE DEF Same
    <3> QED BY SMTT(60), <2>1, <2>2, FS_CardinalityType, FS_EmptySet
  <2>4. Registered' \subseteq Registered \cup {c.session}
    BY Zenon, <1>1 DEF Registered, Admit, RelayTypeOK
  <2> QED BY Zenon, <2>3, <2>4 DEF OneSessionPerAgent
<1> QED BY Zenon, <1>2, <1>3

(* Only an admission adds to the registry, and it respects the limit. *)
LEMMA RelayNextOnePerAgent ==
    ASSUME RelayInv, MaxSessionsPerAgent = 1, OneSessionPerAgent,
           [RelayNext]_relayVars
    PROVE  OneSessionPerAgent'
<1>1. RelayTypeOK
  BY Zenon DEF RelayInv
<1>2. CASE \E c \in Claims, o \in Objects : SessionForJoin(c, o) /\ Admit(c, o)
  BY Zenon, <1>1, <1>2, AdmitOnePerAgent
<1>3. CASE \A s \in Sessions : registry'[s] \in {registry[s], NoObject}
  <2>1. Registered' \subseteq Registered
    BY Zenon, <1>3 DEF Registered
  <2> QED BY Zenon, <2>1 DEF OneSessionPerAgent
<1>5. ASSUME NEW c \in Claims, NEW side \in Sides, CancelReservation(c, side)
      PROVE  \A s \in Sessions : registry'[s] \in {registry[s], NoObject}
  <2>1. c.session \in Sessions
    BY Zenon, SessionsAssumption
  <2>2. CASE UNCHANGED registry
    BY Zenon, <2>2
  <2>3. CASE registry' = [registry EXCEPT ![claimOf[registry[c.session]].session] = NoObject]
    BY Zenon, <2>3, <1>1 DEF RelayTypeOK
  <2> QED BY Zenon, <1>5, <2>2, <2>3 DEF CancelReservation, Finish, relayVars
<1>6. ASSUME NEW o \in Objects, Fail(o) \/ FailCaught(o)
      PROVE  \A s \in Sessions : registry'[s] \in {registry[s], NoObject}
  BY Zenon, <1>1, <1>6 DEF Fail, FailCaught, Finish, RelayTypeOK
<1>7. ASSUME UNCHANGED relayVars \/ (\E h \in Handlers : JoinDone(h))
             \/ (\E s \in Sessions : RevokeFinds(s))
             \/ (\E o \in Objects : UnpairedSeen(o)) \/ RelayLost
      PROVE  \A s \in Sessions : registry'[s] \in {registry[s], NoObject}
  BY Zenon, <1>7 DEF relayVars, JoinDone, RevokeFinds, UnpairedSeen, Catch, RelayLost
<1> QED BY Zenon, <1>2, <1>3, <1>5, <1>6, <1>7 DEF RelayNext, Reserve, Join

(* For any callers: the registry names exactly the open objects, and a     *)
(* paired object has one browser and one agent that joined by its claim.   *)
THEOREM RelaySafe == RelaySpec => [](RegisteredIffOpen /\ PairedByClaim)
<1>1. RelayInv => RegisteredIffOpen /\ PairedByClaim
  BY Zenon, RelayInvPairs DEF RelayInv
<1> QED BY RelayInitInv, RelayNextInv, <1>1, PTL DEF RelaySpec

-----------------------------------------------------------------------------
(* The rows and credentials *)

CredStates == {"none", "fresh", "consumed", "revoked"}

StoreTypeOK ==
    /\ row \in [Sessions -> {"none"} \cup Live \cup Terminal]
    /\ epoch \in [Sessions -> 0 .. MaxEpoch]
    /\ window \in [Sessions -> 0 .. MaxWindows]
    /\ cred \in [Sessions -> [Epochs -> [Sides -> CredStates]]]
    /\ until \in [Sessions -> [Epochs -> 0 .. MaxWindows]]
    /\ limit \in Limits

(* No credential exists for an epoch that has not begun, and none before   *)
(* the row; a session has a row once its epochs have begun.                *)
EpochsBegin ==
    \A s \in Sessions :
        /\ row[s] = "none" <=> epoch[s] = 0
        /\ \A e \in Epochs, d \in Sides : e > epoch[s] => cred[s][e][d] = "none"

StoreInv == StoreTypeOK /\ EpochsBegin /\ FreshIsCurrent

(* What no transaction undoes. *)
StoreMonotone ==
    \A s \in Sessions :
        /\ row[s] \in Terminal => row'[s] = row[s]
        /\ epoch'[s] >= epoch[s]
        /\ \A e \in Epochs, d \in Sides :
              cred[s][e][d] = "consumed" => cred'[s][e][d] = "consumed"

(* A step that leaves the store alone keeps its invariant. *)
LEMMA StoreUnchanged ==
    ASSUME StoreInv, UNCHANGED rowVars, UNCHANGED limit
    PROVE  StoreInv' /\ StoreMonotone
  BY DEF StoreInv, StoreTypeOK, EpochsBegin, FreshIsCurrent, StoreMonotone, rowVars

(* TransitionDesktopSession starts from a live state and revokes the       *)
(* credentials of a session it ends.                                       *)
LEMMA TransitionInv ==
    ASSUME StoreInv, UNCHANGED limit, NEW s \in Sessions, NEW from \in SUBSET Live,
           NEW to \in Live \cup Terminal, Transition(s, from, to)
    PROVE  StoreInv' /\ StoreMonotone
<1>1. CASE row[s] \notin from
  BY Zenon, <1>1, StoreUnchanged DEF Transition
<1>2. CASE row[s] \in from
  <2>1. /\ row' = [row EXCEPT ![s] = to]
        /\ cred' = [cred EXCEPT ![s] = IF to \in Terminal THEN Revoked(@) ELSE @]
        /\ UNCHANGED <<epoch, window, until>>
    BY Zenon, <1>2 DEF Transition
  <2>2. row[s] \in Live /\ row[s] \notin Terminal /\ row[s] # "none" /\ to # "none"
    BY Zenon, <1>2 DEF Live, Early, Terminal
  <2>3. \A e \in Epochs, d \in Sides :
          cred'[s][e][d] = IF to \in Terminal /\ cred[s][e][d] = "fresh" THEN "revoked"
                           ELSE cred[s][e][d]
    BY Zenon, <2>1 DEF StoreInv, StoreTypeOK, Revoked
  <2>4. \A t \in Sessions \ {s} : row'[t] = row[t] /\ cred'[t] = cred[t]
    BY Zenon, <2>1 DEF StoreInv, StoreTypeOK
  <2>5. row'[s] = to
    BY Zenon, <2>1 DEF StoreInv, StoreTypeOK
  <2>6. cred' \in [Sessions -> [Epochs -> [Sides -> CredStates]]]
    BY SMTT(60), <2>1 DEF StoreInv, StoreTypeOK, Revoked, CredStates
  <2>7. StoreTypeOK'
    BY Zenon, <2>1, <2>6 DEF StoreInv, StoreTypeOK
  <2>8. EpochsBegin'
    BY SMTT(60), <2>1, <2>2, <2>3, <2>4, <2>5 DEF StoreInv, EpochsBegin
  <2>9. FreshIsCurrent'
    <3> SUFFICES ASSUME NEW t \in Sessions, NEW e \in Epochs, NEW d \in Sides,
                        cred'[t][e][d] = "fresh"
                 PROVE  row'[t] \in Live /\ epoch'[t] = e
      BY Zenon DEF FreshIsCurrent
    <3>1. CASE t = s
      BY SMTT(60), <3>1, <2>1, <2>3, <2>5 DEF StoreInv, FreshIsCurrent
    <3>2. CASE t # s
      BY SMTT(60), <3>2, <2>1, <2>4 DEF StoreInv, FreshIsCurrent
    <3> QED BY Zenon, <3>1, <3>2
  <2>10. StoreMonotone
    <3> SUFFICES ASSUME NEW t \in Sessions
                 PROVE  /\ row[t] \in Terminal => row'[t] = row[t]
                        /\ epoch'[t] >= epoch[t]
                        /\ \A e \in Epochs, d \in Sides :
                             cred[t][e][d] = "consumed" => cred'[t][e][d] = "consumed"
      BY Zenon DEF StoreMonotone
    <3>1. epoch'[t] >= epoch[t]
      BY SMTT(60), <2>1 DEF StoreInv, StoreTypeOK
    <3>2. CASE t = s
      BY Zenon, <3>1, <3>2, <2>2, <2>3
    <3>3. CASE t # s
      BY Zenon, <3>1, <3>3, <2>4
    <3> QED BY Zenon, <3>2, <3>3
  <2> QED BY Zenon, <2>7, <2>8, <2>9, <2>10 DEF StoreInv
<1> QED BY Zenon, <1>1, <1>2

(* A row is inserted, or its epoch moves on: only new credentials are      *)
(* fresh.                                                                  *)
LEMMA InsertInv ==
    ASSUME StoreInv, UNCHANGED limit, NEW s \in Sessions, row[s] = "none", InsertRow(s)
    PROVE  StoreInv' /\ StoreMonotone
<1>1. epoch[s] = 0 /\ 1 \in Epochs
  BY SMTT(60), ClaimAssumption, BoundAssumption DEF StoreInv, EpochsBegin, Epochs
<1>2. /\ row' = [row EXCEPT ![s] = "requested"]
      /\ epoch' = [epoch EXCEPT ![s] = 1]
      /\ cred' = [cred EXCEPT ![s] = Issue(@, 1)]
      /\ UNCHANGED <<window, until>>
  BY Zenon DEF InsertRow
<1>3. \A e \in Epochs, d \in Sides :
        /\ cred[s][e][d] = "none"
        /\ cred'[s][e][d] = IF e = 1 THEN "fresh" ELSE "none"
  <2>1. \A e \in Epochs, d \in Sides : cred[s][e][d] = "none"
    BY SMTT(60), <1>1 DEF StoreInv, EpochsBegin, Epochs
  <2>2. cred'[s] = [cred[s] EXCEPT ![1] = [d \in Sides |-> "fresh"]]
    BY Zenon, <1>2 DEF StoreInv, StoreTypeOK, Issue
  <2>3. cred[s] \in [Epochs -> [Sides -> CredStates]]
    BY Zenon DEF StoreInv, StoreTypeOK
  <2> QED BY SMTT(60), <1>1, <2>1, <2>2, <2>3
<1>4. \A t \in Sessions \ {s} : row'[t] = row[t] /\ cred'[t] = cred[t] /\ epoch'[t] = epoch[t]
  BY Zenon, <1>2 DEF StoreInv, StoreTypeOK
<1>5. row'[s] = "requested" /\ epoch'[s] = 1
  BY Zenon, <1>2 DEF StoreInv, StoreTypeOK
<1>6. cred' \in [Sessions -> [Epochs -> [Sides -> CredStates]]]
  BY Zenon, <1>2 DEF StoreInv, StoreTypeOK, Issue, CredStates
<1>7. epoch' \in [Sessions -> 0 .. MaxEpoch]
  BY SMTT(60), <1>1, <1>2 DEF StoreInv, StoreTypeOK, Epochs
<1>8. StoreTypeOK'
  BY Zenon, <1>2, <1>6, <1>7 DEF StoreInv, StoreTypeOK, Live, Early
<1>9. EpochsBegin'
  BY SMTT(60), <1>3, <1>4, <1>5 DEF StoreInv, EpochsBegin, Epochs
<1>10. FreshIsCurrent'
  BY SMTT(60), <1>3, <1>4, <1>5 DEF StoreInv, FreshIsCurrent, Live, Early
<1>11. StoreMonotone
  <2> SUFFICES ASSUME NEW t \in Sessions
               PROVE  /\ row[t] \in Terminal => row'[t] = row[t]
                      /\ epoch'[t] >= epoch[t]
                      /\ \A e \in Epochs, d \in Sides :
                           cred[t][e][d] = "consumed" => cred'[t][e][d] = "consumed"
    BY Zenon DEF StoreMonotone
  <2>1. epoch[t] \in Nat
    BY SMTT(60) DEF StoreInv, StoreTypeOK
  <2>2. CASE t = s
    BY SMTT(60), <2>2, <1>1, <1>3, <1>5 DEF Terminal
  <2>3. CASE t # s
    BY SMTT(60), <2>1, <2>3, <1>4
  <2> QED BY Zenon, <2>2, <2>3
<1> QED BY Zenon, <1>8, <1>9, <1>10, <1>11 DEF StoreInv

(* BeginDesktopReconnect revokes the older credentials before it issues    *)
(* those of the next epoch.                                                *)
LEMMA ReconnectInv ==
    ASSUME StoreInv, UNCHANGED limit, NEW s \in Sessions, BeginReconnect(s)
    PROVE  StoreInv' /\ StoreMonotone
<1> DEFINE n == epoch[s] + 1
<1>1. /\ row[s] \in {"active", "reconnecting"}
      /\ row' = [row EXCEPT ![s] = "reconnecting"]
      /\ epoch' = [epoch EXCEPT ![s] = n]
      /\ window' = [window EXCEPT ![s] = @ + 1]
      /\ cred' = [cred EXCEPT ![s] = Issue(Revoked(@), n)]
      /\ until' = [until EXCEPT ![s][n] = window[s] + 1]
  BY Zenon DEF BeginReconnect, OpenWindow
<1>2. /\ epoch[s] \in 0 .. MaxEpoch /\ n \in Epochs
      /\ window[s] + 1 \in 0 .. MaxWindows
  <2>1. limit.epochs \in 0 .. MaxEpoch /\ limit.windows \in 0 .. MaxWindows
    BY Zenon, BoundAssumption DEF StoreInv, StoreTypeOK
  <2>2. epoch[s] \in 0 .. MaxEpoch /\ window[s] \in 0 .. MaxWindows
    BY Zenon DEF StoreInv, StoreTypeOK
  <2>3. epoch[s] < limit.epochs /\ window[s] < limit.windows
    BY Zenon DEF BeginReconnect, OpenWindow
  <2> QED BY SMTT(60), <2>1, <2>2, <2>3, BoundAssumption DEF Epochs
<1>3. \A e \in Epochs, d \in Sides :
        cred'[s][e][d] = IF e = n THEN "fresh"
                         ELSE IF cred[s][e][d] = "fresh" THEN "revoked" ELSE cred[s][e][d]
  BY Zenon, <1>1, <1>2 DEF StoreInv, StoreTypeOK, Issue, Revoked
<1>4. \A t \in Sessions \ {s} : row'[t] = row[t] /\ cred'[t] = cred[t] /\ epoch'[t] = epoch[t]
  BY Zenon, <1>1 DEF StoreInv, StoreTypeOK
<1>5. row'[s] = "reconnecting" /\ epoch'[s] = n
  BY Zenon, <1>1 DEF StoreInv, StoreTypeOK
<1>6. cred' \in [Sessions -> [Epochs -> [Sides -> CredStates]]]
  <2>1. Revoked(cred[s]) \in [Epochs -> [Sides -> CredStates]]
    BY DEF StoreInv, StoreTypeOK, Revoked, CredStates
  <2>2. Issue(Revoked(cred[s]), n) \in [Epochs -> [Sides -> CredStates]]
    BY Zenon, <2>1 DEF Issue, CredStates
  <2> QED BY Zenon, <1>1, <2>2 DEF StoreInv, StoreTypeOK
<1>7. /\ epoch' \in [Sessions -> 0 .. MaxEpoch]
      /\ window' \in [Sessions -> 0 .. MaxWindows]
      /\ until' \in [Sessions -> [Epochs -> 0 .. MaxWindows]]
  BY SMTT(60), <1>1, <1>2 DEF StoreInv, StoreTypeOK, Epochs
<1>8. StoreTypeOK'
  BY Zenon, <1>1, <1>6, <1>7 DEF StoreInv, StoreTypeOK, Live
<1>9. EpochsBegin'
  <2> SUFFICES ASSUME NEW t \in Sessions
               PROVE  /\ row'[t] = "none" <=> epoch'[t] = 0
                      /\ \A e \in Epochs, d \in Sides :
                           e > epoch'[t] => cred'[t][e][d] = "none"
    BY Zenon DEF EpochsBegin
  <2>1. CASE t = s
    BY SMTT(60), <2>1, <1>2, <1>3, <1>5 DEF StoreInv, EpochsBegin, Epochs
  <2>2. CASE t # s
    BY SMTT(60), <2>2, <1>4 DEF StoreInv, EpochsBegin
  <2> QED BY Zenon, <2>1, <2>2
<1>10. FreshIsCurrent'
  BY SMTT(60), <1>3, <1>4, <1>5 DEF StoreInv, FreshIsCurrent, Live
<1>11. StoreMonotone
  <2> SUFFICES ASSUME NEW t \in Sessions
               PROVE  /\ row[t] \in Terminal => row'[t] = row[t]
                      /\ epoch'[t] >= epoch[t]
                      /\ \A e \in Epochs, d \in Sides :
                           cred[t][e][d] = "consumed" => cred'[t][e][d] = "consumed"
    BY Zenon DEF StoreMonotone
  <2>1. \A d \in Sides : cred[s][n][d] = "none"
    BY <1>2 DEF StoreInv, EpochsBegin
  <2>2. epoch[t] \in Nat
    BY SMTT(60) DEF StoreInv, StoreTypeOK
  <2>3. CASE t = s
    BY SMTT(60), <2>1, <2>2, <2>3, <1>1, <1>3, <1>5 DEF Terminal
  <2>4. CASE t # s
    BY SMTT(60), <2>2, <2>4, <1>4
  <2> QED BY Zenon, <2>3, <2>4
<1> QED BY Zenon, <1>8, <1>9, <1>10, <1>11 DEF StoreInv

(* MarkDesktopTransportLost touches neither epoch nor credentials. *)
LEMMA LossInv ==
    ASSUME StoreInv, UNCHANGED limit, NEW s \in Sessions, NEW e, MarkTransportLost(s, e)
    PROVE  StoreInv' /\ StoreMonotone
<1>1. CASE UNCHANGED rowVars
  BY Zenon, <1>1, StoreUnchanged
<1>2. CASE /\ row[s] = "active" /\ row' = [row EXCEPT ![s] = "reconnecting"]
           /\ OpenWindow(s) /\ UNCHANGED <<epoch, cred, until>>
  <2>1. limit.windows \in 0 .. MaxWindows
    BY Zenon, BoundAssumption DEF StoreInv, StoreTypeOK
  <2>2. window' \in [Sessions -> 0 .. MaxWindows]
    BY <1>2, <2>1, BoundAssumption DEF OpenWindow, StoreInv, StoreTypeOK
  <2>3. StoreTypeOK'
    BY Zenon, <1>2, <2>2 DEF StoreInv, StoreTypeOK, Live
  <2>4. EpochsBegin' /\ FreshIsCurrent'
    BY SMTT(60), <1>2 DEF StoreInv, StoreTypeOK, EpochsBegin, FreshIsCurrent, Live
  <2>5. StoreMonotone
    BY SMTT(60), <1>2 DEF StoreInv, StoreTypeOK, StoreMonotone, Terminal
  <2> QED BY Zenon, <2>3, <2>4, <2>5 DEF StoreInv
<1> QED BY Zenon, <1>1, <1>2 DEF MarkTransportLost

(* The sockets: their types, and what a claim and a credential they hold   *)
(* have to do with each other.                                             *)
SocketTypeOK ==
    /\ pc \in [Handlers -> SocketStates]
    /\ request \in [Handlers -> [side : Sides, good : BOOLEAN,
                                  claim : Claims \cup {NoClaim}]]

RequestHasClaim ==
    \A h \in Handlers :
        pc[h] \notin {"idle", "closed"} => request[h].claim \in Claims

(* Consuming one fresh credential. *)
LEMMA UseInv ==
    ASSUME StoreInv, UNCHANGED limit, NEW s \in Sessions, NEW e \in Epochs, NEW side \in Sides,
           cred[s][e][side] = "fresh",
           cred' = [cred EXCEPT ![s][e][side] = "consumed"],
           UNCHANGED <<row, epoch, window, until>>
    PROVE  StoreInv' /\ StoreMonotone
<1>1. /\ cred \in [Sessions -> [Epochs -> [Sides -> CredStates]]]
      /\ epoch \in [Sessions -> 0 .. MaxEpoch]
      /\ row \in [Sessions -> {"none"} \cup Live \cup Terminal]
  BY Zenon DEF StoreInv, StoreTypeOK
<1>2. \A t \in Sessions, f \in Epochs, d \in Sides :
        cred'[t][f][d] = IF t = s /\ f = e /\ d = side THEN "consumed" ELSE cred[t][f][d]
  BY ZenonT(60), <1>1
<1>3. cred' \in [Sessions -> [Epochs -> [Sides -> CredStates]]]
  BY Zenon, <1>1 DEF CredStates
<1>4. StoreTypeOK'
  BY Zenon, <1>3 DEF StoreInv, StoreTypeOK
<1>5. epoch[s] = e /\ row[s] \in Live
  BY Zenon DEF StoreInv, FreshIsCurrent
<1>6. EpochsBegin'
  <2>1. \A t \in Sessions, f \in Epochs, d \in Sides :
          f > epoch[t] => cred'[t][f][d] = "none"
    <3> SUFFICES ASSUME NEW t \in Sessions, NEW f \in Epochs, NEW d \in Sides,
                        f > epoch[t]
                 PROVE  cred'[t][f][d] = "none"
      BY Zenon
    <3>1. cred[t][f][d] = "none"
      BY Zenon DEF StoreInv, EpochsBegin
    <3>2. ~(t = s /\ f = e /\ d = side)
      BY Zenon, <3>1
    <3> QED BY SMTT(60), <1>2, <3>1, <3>2
  <2> QED BY Zenon, <2>1 DEF StoreInv, EpochsBegin
<1>7. FreshIsCurrent'
  <2> SUFFICES ASSUME NEW t \in Sessions, NEW f \in Epochs, NEW d \in Sides,
                      cred'[t][f][d] = "fresh"
               PROVE  row[t] \in Live /\ epoch[t] = f
    BY SMTT(60) DEF FreshIsCurrent, Live, Early
  <2>1. cred[t][f][d] = "fresh"
    BY SMTT(60), <1>2
  <2> QED BY Zenon, <2>1 DEF StoreInv, FreshIsCurrent
<1>8. StoreMonotone
  BY SMTT(60), <1>1, <1>2 DEF StoreMonotone
<1> QED BY Zenon, <1>4, <1>6, <1>7, <1>8 DEF StoreInv

(* ConsumeDesktopJoinCredential, as the handler of a WebSocket calls it. *)
LEMMA ConsumeInv ==
    ASSUME StoreInv, UNCHANGED limit, SocketTypeOK, RequestHasClaim,
           NEW h \in Handlers, Consume(h)
    PROVE  StoreInv' /\ StoreMonotone
<1>1. request[h].claim \in Claims /\ request[h].side \in Sides
  BY Zenon DEF Consume, SocketTypeOK, RequestHasClaim
<1>2. request[h].claim.session \in Sessions /\ request[h].claim.epoch \in Epochs
  BY Zenon, <1>1, ClaimAssumption
<1>3. CASE ~Consumable(request[h])
  BY Zenon, <1>3, StoreUnchanged DEF Consume, rowVars
<1>4. CASE Consumable(request[h])
  BY Zenon, <1>1, <1>2, <1>4, UseInv DEF Consume, Consumable
<1> QED BY Zenon, <1>3, <1>4

(* A request that has not inserted its row has none. *)
NoRowYet ==
    \A s \in Sessions :
        creating[s] \in {"idle", "halfReserved", "reserved"} => row[s] = "none"

Creating == {"idle", "halfReserved", "reserved", "inserted", "cancelAgent",
             "cancelBrowser", "done"}

(* Every step is one transaction of the store, or none. *)
LEMMA StoreNext ==
    ASSUME StoreInv, NoRowYet, creating \in [Sessions -> Creating],
           SocketTypeOK, RequestHasClaim, Next
    PROVE  StoreInv' /\ StoreMonotone
<1>1. ASSUME NEW s \in Sessions, CreateRow(s) PROVE StoreInv' /\ StoreMonotone
  <2>1. row[s] = "none" /\ UNCHANGED limit
    BY Zenon, <1>1 DEF CreateRow, NoRowYet
  <2> QED BY Zenon, <1>1, <2>1, InsertInv, StoreUnchanged DEF CreateRow
<1>2. ASSUME NEW s \in Sessions, OfferRow(s) PROVE StoreInv' /\ StoreMonotone
  <2>1. {"requested"} \in SUBSET Live /\ Live \in SUBSET Live
    BY Zenon DEF Live, Early
  <2>2. "offered" \in Live \cup Terminal /\ "terminated" \in Live \cup Terminal
    BY Zenon DEF Live, Early, Terminal
  <2>3. UNCHANGED limit
    BY Zenon, <1>2 DEF OfferRow
  <2> QED BY Zenon, <1>2, <2>1, <2>2, <2>3, TransitionInv DEF OfferRow
<1>3. ASSUME NEW s \in Sessions, NEW e \in Epochs, SendOffer(s, e)
      PROVE  StoreInv' /\ StoreMonotone
  <2>1. /\ {"requested", "offered", "reconnecting"} \in SUBSET Live
        /\ "failed" \in Live \cup Terminal
    BY Zenon DEF Live, Early, Terminal
  <2>2. UNCHANGED limit
    BY Zenon, <1>3 DEF SendOffer, FailOffer
  <2> QED BY Zenon, <1>3, <2>1, <2>2, TransitionInv, StoreUnchanged DEF SendOffer, FailOffer
<1>4. ASSUME NEW s \in Sessions, NEW e \in Epochs, RecordLoss(s, e)
      PROVE  StoreInv' /\ StoreMonotone
  BY Zenon, <1>4, LossInv DEF RecordLoss
<1>5. ASSUME NEW s \in Sessions, Reconnect(s) PROVE StoreInv' /\ StoreMonotone
  BY Zenon, <1>5, ReconnectInv DEF Reconnect
<1>6. ASSUME NEW s \in Sessions, Terminate(s) \/ Expire(s)
      PROVE  StoreInv' /\ StoreMonotone
  <2>1. /\ Live \in SUBSET Live
        /\ "terminated" \in Live \cup Terminal /\ "expired" \in Live \cup Terminal
    BY Zenon DEF Terminal
  <2>2. UNCHANGED limit
    BY Zenon, <1>6 DEF Terminate, Expire
  <2> QED BY Zenon, <1>6, <2>1, <2>2, TransitionInv DEF Terminate, Expire
<1>7. ASSUME NEW s \in Sessions, NEW kind \in DOMAIN EventTransitions, ApplyEvent(s, kind)
      PROVE  StoreInv' /\ StoreMonotone
  <2>1. /\ EventTransitions[kind].from \in SUBSET Live
        /\ EventTransitions[kind].to \in Live \cup Terminal
    BY SMTT(60), <1>7 DEF EventTransitions, Live, Early, Terminal
  <2>2. /\ Transition(s, EventTransitions[kind].from, EventTransitions[kind].to)
        /\ UNCHANGED limit
    BY Zenon, <1>7 DEF ApplyEvent
  <2> HIDE DEF EventTransitions
  <2> QED BY Zenon, <2>1, <2>2, TransitionInv
<1>8. ASSUME NEW h \in Handlers, Consume(h) PROVE StoreInv' /\ StoreMonotone
  BY Zenon, <1>8, ConsumeInv DEF Consume, RestUnchanged
<1>9. CASE \/ \E s \in Sessions :
              ReserveAdmission(s) \/ ReleaseAdmission(s) \/ AgentEvent(s) \/ Revoke(s)
                \/ TimePasses(s)
           \/ \E o \in Objects :
              \/ JoinTimer(o) \/ FailSeen(o) \/ HardTimer(o)
              \/ \E reason \in {"transport_closed", "limit"} : TransportCloses(o, reason)
           \/ \E h \in Handlers :
              \/ \E s \in Sessions, side \in Sides, key \in Epochs : Prepare(h, s, side, key)
              \/ ReserveSide(h) \/ JoinRelay(h) \/ JoinReturns(h) \/ Leave(h)
           \/ CloudRestarts
  <2>1. UNCHANGED rowVars /\ UNCHANGED limit
    BY ZenonT(60), <1>9 DEF ReserveAdmission, ReserveFor, ReleaseAdmission, AgentEvent, Revoke,
                TimePasses, JoinTimer, FailSeen, HardTimer, TransportCloses, Prepare,
                ReserveSide, JoinRelay, JoinReturns, Leave, CloudRestarts, RestUnchanged
  <2> QED BY Zenon, <2>1, StoreUnchanged
<1> QED BY Zenon, <1>1, <1>2, <1>3, <1>4, <1>5, <1>6, <1>7, <1>8, <1>9 DEF Next, SocketSteps

(* A Join that was let in keeps its claim and its side. *)
JoinedHasClaim ==
    \A h \in Handlers :
        /\ joined[h] # NotJoined => joined[h].claim \in Claims
        /\ pc[h] \in {"idle", "prepared", "reserved", "consumed"} => joined[h] = NotJoined

(* Every step is one critical section of the relay, or none. *)
LEMMA RelayRefined ==
    ASSUME SocketTypeOK, RequestHasClaim, JoinedHasClaim, Next
    PROVE  [RelayNext]_relayVars
<1>1. \A s \in Sessions : First(s) \in Claims
  BY ClaimAssumption, BoundAssumption DEF First, Claim, Epochs
<1>2. "browser" \in Sides /\ "agent" \in Sides
  BY Zenon DEF Sides
<1>3. ASSUME NEW s \in Sessions, ReserveAdmission(s) PROVE [RelayNext]_relayVars
  BY Zenon, <1>1, <1>2, <1>3 DEF ReserveAdmission, ReserveFor, RelayNext
<1>4. ASSUME NEW s \in Sessions, ReleaseAdmission(s) PROVE [RelayNext]_relayVars
  BY Zenon, <1>1, <1>2, <1>4 DEF ReleaseAdmission, RelayNext
<1>5. ASSUME NEW s \in Sessions, Revoke(s) PROVE [RelayNext]_relayVars
  BY Zenon, <1>5 DEF Revoke, RelayNext
<1>6. ASSUME NEW o \in Objects,
             \/ JoinTimer(o) \/ FailSeen(o) \/ HardTimer(o)
             \/ \E reason \in {"transport_closed", "limit"} : TransportCloses(o, reason)
      PROVE  [RelayNext]_relayVars
  BY Zenon, <1>6 DEF JoinTimer, FailSeen, HardTimer, TransportCloses, RelayNext
<1>7. ASSUME NEW h \in Handlers, SocketSteps(h) PROVE [RelayNext]_relayVars
  <2>1. CASE ReserveSide(h)
    <3>1. request[h].claim \in Claims /\ request[h].side \in Sides
      BY Zenon, <2>1 DEF ReserveSide, SocketTypeOK, RequestHasClaim
    <3> QED BY Zenon, <2>1, <3>1 DEF ReserveSide, RelayNext
  <2>2. CASE Consume(h)
    BY Zenon, <2>2 DEF Consume, relayVars
  <2>3. CASE JoinRelay(h)
    <3>1. request[h].claim \in Claims /\ request[h].side \in Sides /\ joined[h] = NotJoined
      BY Zenon, <2>3 DEF JoinRelay, SocketTypeOK, RequestHasClaim, JoinedHasClaim
    <3> QED BY Zenon, <2>3, <3>1 DEF JoinRelay, RelayNext
  <2>4. CASE JoinReturns(h)
    BY Zenon, <2>4 DEF JoinReturns, RelayNext
  <2>5. CASE Leave(h)
    <3>1. request[h].claim \in Claims /\ request[h].side \in Sides
      BY Zenon, <2>5 DEF Leave, SocketTypeOK, RequestHasClaim
    <3> QED BY Zenon, <2>5, <3>1 DEF Leave, RelayNext
  <2> QED BY Zenon, <1>7, <2>1, <2>2, <2>3, <2>4, <2>5 DEF SocketSteps
<1>8. CASE CloudRestarts
  BY Zenon, <1>8 DEF CloudRestarts, RelayNext
<1>9. CASE \/ \E s \in Sessions :
              \/ CreateRow(s) \/ OfferRow(s) \/ Reconnect(s) \/ Terminate(s)
              \/ AgentEvent(s) \/ Expire(s) \/ TimePasses(s)
              \/ \E e \in Epochs : SendOffer(s, e) \/ RecordLoss(s, e)
              \/ \E kind \in DOMAIN EventTransitions : ApplyEvent(s, kind)
           \/ \E h \in Handlers, s \in Sessions, side \in Sides, key \in Epochs :
              Prepare(h, s, side, key)
  <2> HIDE DEF EventTransitions
  <2>1. UNCHANGED relayVars
    BY ZenonT(60), <1>9
    DEF CreateRow, OfferRow, Reconnect, Terminate, AgentEvent, Expire,
        TimePasses, SendOffer, FailOffer, RecordLoss, ApplyEvent, Prepare
  <2> QED BY Zenon, <2>1
<1> QED BY Zenon, <1>3, <1>4, <1>5, <1>6, <1>7, <1>8, <1>9 DEF Next

(* Who uses a credential: the handler that consumed it, and the Join made  *)
(* with it for ever after.                                                 *)
Holds(h, s, e, d) ==
    \/ /\ pc[h] = "consumed"
       /\ request[h].claim.session = s /\ request[h].claim.epoch = e
       /\ request[h].side = d
    \/ /\ joined[h] # NotJoined
       /\ joined[h].claim.session = s /\ joined[h].claim.epoch = e
       /\ joined[h].side = d

HeldIsConsumed ==
    \A h \in Handlers, s \in Sessions, e \in Epochs, d \in Sides :
        Holds(h, s, e, d) => cred[s][e][d] = "consumed"

OneHolder ==
    \A h, k \in Handlers, s \in Sessions, e \in Epochs, d \in Sides :
        Holds(h, s, e, d) /\ Holds(k, s, e, d) => h = k

(* JoinedOnce is not inductive: a handler between the consumption and the  *)
(* Join must count, and a credential that is held must not be fresh.       *)
SocketInv ==
    SocketTypeOK /\ RequestHasClaim /\ JoinedHasClaim /\ HeldIsConsumed /\ OneHolder

NobodyNew ==
    \A h \in Handlers, s \in Sessions, e \in Epochs, d \in Sides :
        Holds(h, s, e, d)' => Holds(h, s, e, d)

(* A step that makes nobody a holder keeps the credentials exclusive. *)
LEMMA NobodyNewInv ==
    ASSUME HeldIsConsumed, OneHolder, StoreMonotone, NobodyNew
    PROVE  HeldIsConsumed' /\ OneHolder'
<1>1. HeldIsConsumed'
  BY Zenon DEF HeldIsConsumed, StoreMonotone, NobodyNew
<1>2. OneHolder'
  BY DEF OneHolder, NobodyNew
<1> QED BY Zenon, <1>1, <1>2

(* A step of a socket that neither joins nor consumes. *)
LEMMA StepInv ==
    ASSUME SocketInv, StoreMonotone, UNCHANGED joined, NEW h \in Handlers,
           NEW next \in {"reserved", "leaving", "closed"}, Step(h, next),
           pc[h] \in SocketStates \ {"idle", "closed"},
           next = "reserved" => pc[h] = "prepared"
    PROVE  SocketInv'
<1>1. /\ pc' = [pc EXCEPT ![h] = next]
      /\ next # "closed" => request' = request
      /\ next = "closed" => request' = [request EXCEPT ![h] = NoRequest]
  BY Zenon DEF Step
<1>2. NoRequest \in [side : Sides, good : BOOLEAN, claim : Claims \cup {NoClaim}]
  BY Zenon DEF NoRequest, Sides
<1>3. SocketTypeOK'
  BY SMTT(60), <1>1, <1>2 DEF SocketInv, SocketTypeOK, SocketStates
<1>4. RequestHasClaim'
  BY Zenon, <1>1 DEF SocketInv, SocketTypeOK, RequestHasClaim
<1>5. JoinedHasClaim'
  BY Zenon, <1>1 DEF SocketInv, SocketTypeOK, JoinedHasClaim
<1>6. NobodyNew
  <2> SUFFICES ASSUME NEW k \in Handlers, NEW s \in Sessions, NEW e \in Epochs,
                      NEW d \in Sides, Holds(k, s, e, d)'
               PROVE  Holds(k, s, e, d)
    BY Zenon DEF NobodyNew
  <2>1. CASE k = h
    BY Zenon, <1>1, <2>1 DEF Holds, SocketInv, SocketTypeOK
  <2>2. CASE k # h
    <3>1. pc'[k] = pc[k] /\ request'[k] = request[k]
      BY Zenon, <1>1, <2>2 DEF SocketInv, SocketTypeOK
    <3> QED BY Zenon, <3>1 DEF Holds
  <2> QED BY Zenon, <2>1, <2>2
<1> QED BY Zenon, <1>3, <1>4, <1>5, <1>6, NobodyNewInv DEF SocketInv

(* A handler that has prepared its claim holds nothing yet. *)
LEMMA PrepareInv ==
    ASSUME SocketInv, StoreInv, StoreMonotone, NEW h \in Handlers, NEW s \in Sessions,
           NEW side \in Sides, NEW key \in Epochs, Prepare(h, s, side, key)
    PROVE  SocketInv'
<1> DEFINE w == IF row[s] = "reconnecting" THEN window[s] ELSE 0
           r == [side |-> side, claim |-> Claim(s, epoch[s], w),
                 good |-> key = epoch[s] /\ Timely(s, key)]
<1>1. /\ pc[h] = "idle" /\ pc' = [pc EXCEPT ![h] = "prepared"]
      /\ request' = [request EXCEPT ![h] = r]
      /\ UNCHANGED joined
  BY Zenon DEF Prepare, relayVars
<1>2. epoch[s] \in Epochs /\ w \in 0 .. MaxWindows
  <2>1. row[s] # "none"
    BY Zenon DEF Prepare
  <2>2. epoch[s] # 0 /\ epoch[s] \in 0 .. MaxEpoch
    BY Zenon, <2>1 DEF StoreInv, StoreTypeOK, EpochsBegin
  <2> QED BY SMTT(60), <2>2, BoundAssumption DEF StoreInv, StoreTypeOK, Epochs
<1>3. Claim(s, epoch[s], w) \in Claims
  BY Zenon, <1>2, ClaimAssumption DEF Claim
<1>4. (key = epoch[s] /\ Timely(s, key)) \in BOOLEAN
  BY Zenon
<1>5. r \in [side : Sides, good : BOOLEAN, claim : Claims \cup {NoClaim}] /\ r.claim \in Claims
  BY Zenon, <1>3, <1>4
<1> HIDE DEF r
<1>6. SocketTypeOK'
  BY Zenon, <1>1, <1>5 DEF SocketInv, SocketTypeOK, SocketStates
<1>7. RequestHasClaim'
  BY Zenon, <1>1, <1>5 DEF SocketInv, SocketTypeOK, RequestHasClaim
<1>8. JoinedHasClaim'
  BY Zenon, <1>1 DEF SocketInv, SocketTypeOK, JoinedHasClaim
<1>9. NobodyNew
  <2> SUFFICES ASSUME NEW k \in Handlers, NEW t \in Sessions, NEW e \in Epochs,
                      NEW d \in Sides, Holds(k, t, e, d)'
               PROVE  Holds(k, t, e, d)
    BY Zenon DEF NobodyNew
  <2>1. CASE k = h
    BY Zenon, <1>1, <2>1 DEF Holds, SocketInv, SocketTypeOK
  <2>2. CASE k # h
    <3>1. pc'[k] = pc[k] /\ request'[k] = request[k]
      BY Zenon, <1>1, <2>2 DEF SocketInv, SocketTypeOK
    <3> QED BY Zenon, <1>1, <3>1 DEF Holds
  <2> QED BY Zenon, <2>1, <2>2
<1> QED BY Zenon, <1>6, <1>7, <1>8, <1>9, NobodyNewInv DEF SocketInv

(* The credential was fresh, so nobody else holds it. *)
LEMMA ConsumerInv ==
    ASSUME SocketInv, StoreInv, StoreMonotone, NEW h \in Handlers, Consume(h)
    PROVE  SocketInv'
<1>1. UNCHANGED joined /\ pc[h] = "reserved"
  BY Zenon DEF Consume, relayVars
<1>2. CASE ~Consumable(request[h])
  BY Zenon, <1>1, <1>2, StepInv DEF Consume, SocketStates
<1>3. CASE Consumable(request[h])
  <2> DEFINE c == request[h].claim
             side == request[h].side
  <2>1. /\ pc' = [pc EXCEPT ![h] = "consumed"] /\ request' = request
        /\ cred[c.session][c.epoch][side] = "fresh"
        /\ cred' = [cred EXCEPT ![c.session][c.epoch][side] = "consumed"]
    BY Zenon, <1>3 DEF Consume, Consumable, Step
  <2>2. c \in Claims /\ side \in Sides
    BY Zenon, <1>1 DEF SocketInv, SocketTypeOK, RequestHasClaim
  <2>3. c.session \in Sessions /\ c.epoch \in Epochs
    BY Zenon, <2>2, ClaimAssumption
  <2>4. SocketTypeOK' /\ RequestHasClaim' /\ JoinedHasClaim'
    <3>1. SocketTypeOK'
      BY Zenon, <2>1 DEF SocketInv, SocketTypeOK, SocketStates
    <3>2. RequestHasClaim'
      BY Zenon, <1>1, <2>1 DEF SocketInv, SocketTypeOK, RequestHasClaim
    <3>3. JoinedHasClaim'
      BY Zenon, <1>1, <2>1 DEF SocketInv, SocketTypeOK, JoinedHasClaim
    <3> QED BY Zenon, <3>1, <3>2, <3>3
  <2>5. \A k \in Handlers, s \in Sessions, e \in Epochs, d \in Sides :
          Holds(k, s, e, d)' =>
             \/ Holds(k, s, e, d)
             \/ k = h /\ s = c.session /\ e = c.epoch /\ d = side
    <3>1. pc' = [pc EXCEPT ![h] = "consumed"] /\ request' = request /\ joined' = joined
      BY Zenon, <1>1, <2>1
    <3> QED BY ZenonT(60), <1>1, <2>1, <3>1 DEF Holds, SocketInv, SocketTypeOK
  <2>6. cred'[c.session][c.epoch][side] = "consumed"
    BY ZenonT(60), <2>1, <2>2, <2>3 DEF StoreInv, StoreTypeOK
  <2>7. \A k \in Handlers : ~Holds(k, c.session, c.epoch, side)
    BY Zenon, <2>1, <2>2, <2>3 DEF SocketInv, HeldIsConsumed
  <2> HIDE DEF c, side
  <2>8. HeldIsConsumed'
    <3> SUFFICES ASSUME NEW k \in Handlers, NEW s \in Sessions, NEW e \in Epochs, NEW d \in Sides,
                        Holds(k, s, e, d)'
                 PROVE  cred'[s][e][d] = "consumed"
      BY Zenon DEF HeldIsConsumed
    <3>1. CASE Holds(k, s, e, d)
      <4>1. cred[s][e][d] = "consumed"
        BY Zenon, <3>1 DEF SocketInv, HeldIsConsumed
      <4> QED BY Zenon, <4>1 DEF StoreMonotone
    <3>2. CASE k = h /\ s = c.session /\ e = c.epoch /\ d = side
      BY Zenon, <3>2, <2>6
    <3> QED BY Zenon, <2>5, <3>1, <3>2
  <2>9. OneHolder'
    <3> SUFFICES ASSUME NEW k \in Handlers, NEW l \in Handlers,
                        NEW s \in Sessions, NEW e \in Epochs, NEW d \in Sides,
                        Holds(k, s, e, d)', Holds(l, s, e, d)'
                 PROVE  k = l
      BY Zenon DEF OneHolder
    <3>1. CASE Holds(k, s, e, d) /\ Holds(l, s, e, d)
      BY Zenon, <3>1 DEF SocketInv, OneHolder
    <3> QED BY Zenon, <2>5, <2>7, <3>1
  <2> QED BY Zenon, <2>4, <2>8, <2>9 DEF SocketInv
<1> QED BY Zenon, <1>2, <1>3

(* The Join takes the credential over from the handler. *)
LEMMA JoinerInv ==
    ASSUME SocketInv, StoreMonotone, RelayTypeOK, NEW h \in Handlers, JoinRelay(h)
    PROVE  SocketInv'
<1>1. pc[h] = "consumed" /\ joined[h] = NotJoined
  BY Zenon DEF JoinRelay, SocketInv, JoinedHasClaim
<1>2. CASE UNCHANGED relayVars /\ Step(h, "leaving")
  BY Zenon, <1>1, <1>2, StepInv DEF relayVars, SocketStates
<1>3. CASE Join(request[h].claim, request[h].side, h) /\ Step(h, "joined")
  <2>1. PICK o \in Objects :
          joined' = [joined EXCEPT ![h] = [object |-> o, claim |-> request[h].claim,
                                           side |-> request[h].side]]
    BY Zenon, <1>3 DEF Join
  <2>2. pc' = [pc EXCEPT ![h] = "joined"] /\ request' = request
    BY Zenon, <1>3 DEF Step
  <2>3. request[h].claim \in Claims /\ request[h].side \in Sides
    BY Zenon, <1>1 DEF SocketInv, SocketTypeOK, RequestHasClaim
  <2>4. /\ joined'[h].claim = request[h].claim
        /\ joined'[h].side = request[h].side
        /\ \A k \in Handlers \ {h} : joined'[k] = joined[k]
    BY Zenon, <2>1 DEF RelayTypeOK
  <2>5. SocketTypeOK'
    BY Zenon, <2>2 DEF SocketInv, SocketTypeOK, SocketStates
  <2>6. RequestHasClaim'
    BY Zenon, <1>1, <2>2 DEF SocketInv, SocketTypeOK, RequestHasClaim
  <2>7. JoinedHasClaim'
    BY Zenon, <2>2, <2>3, <2>4 DEF SocketInv, SocketTypeOK, JoinedHasClaim
  <2>8. NobodyNew
    <3> SUFFICES ASSUME NEW k \in Handlers, NEW s \in Sessions, NEW e \in Epochs,
                        NEW d \in Sides, Holds(k, s, e, d)'
                 PROVE  Holds(k, s, e, d)
      BY Zenon DEF NobodyNew
    <3>1. CASE k = h
      BY Zenon, <1>1, <2>2, <2>4, <3>1 DEF Holds, SocketInv, SocketTypeOK
    <3>2. CASE k # h
      <4>1. pc'[k] = pc[k] /\ request'[k] = request[k] /\ joined'[k] = joined[k]
        BY Zenon, <2>2, <2>4, <3>2 DEF SocketInv, SocketTypeOK
      <4> QED BY Zenon, <4>1 DEF Holds
    <3> QED BY Zenon, <3>1, <3>2
  <2> QED BY Zenon, <2>5, <2>6, <2>7, <2>8, NobodyNewInv DEF SocketInv
<1> QED BY Zenon, <1>2, <1>3 DEF JoinRelay

(* The claim and the side of a Join outlive its object. *)
LEMMA ObjectGoneInv ==
    ASSUME SocketInv, StoreMonotone, RelayTypeOK, SocketTypeOK', RequestHasClaim',
           \A h \in Handlers :
              /\ joined'[h] \in {joined[h], [joined[h] EXCEPT !.object = NoObject]}
              /\ pc'[h] = pc[h] \/ pc'[h] \in {"leaving", "closed"}
              /\ pc'[h] = "consumed" => request'[h] = request[h]
    PROVE  SocketInv'
<1>1. ASSUME NEW h \in Handlers
      PROVE  /\ joined'[h].claim = joined[h].claim /\ joined'[h].side = joined[h].side
             /\ joined[h] = NotJoined => joined'[h] = NotJoined
  BY DEF RelayTypeOK, NotJoined
<1>2. JoinedHasClaim'
  BY Zenon, <1>1 DEF SocketInv, JoinedHasClaim
<1>3. NobodyNew
  BY ZenonT(60), <1>1 DEF NobodyNew, Holds
<1> QED BY Zenon, <1>2, <1>3, NobodyNewInv DEF SocketInv

(* A Join that returns keeps its claim. *)
LEMMA ReturnsInv ==
    ASSUME SocketInv, StoreMonotone, RelayTypeOK, NEW h \in Handlers, JoinReturns(h)
    PROVE  SocketInv'
<1>1. /\ pc[h] = "joined" /\ pc' = [pc EXCEPT ![h] = "leaving"] /\ request' = request
      /\ joined' = [joined EXCEPT ![h].object = NoObject]
  BY Zenon DEF JoinReturns, JoinDone, Step
<1>2. SocketTypeOK' /\ RequestHasClaim'
  BY Zenon, <1>1 DEF SocketInv, SocketTypeOK, RequestHasClaim, SocketStates
<1>3. \A k \in Handlers :
         /\ joined'[k] \in {joined[k], [joined[k] EXCEPT !.object = NoObject]}
         /\ pc'[k] = pc[k] \/ pc'[k] \in {"leaving", "closed"}
  BY Zenon, <1>1 DEF SocketInv, SocketTypeOK, RelayTypeOK
<1> QED BY Zenon, <1>1, <1>2, <1>3, ObjectGoneInv

(* A restart ends all handlers; what they joined with stays on record. *)
LEMMA RestartInv ==
    ASSUME SocketInv, StoreMonotone, RelayTypeOK, CloudRestarts
    PROVE  SocketInv'
<1>1. /\ pc' = [h \in Handlers |-> IF pc[h] = "idle" THEN "idle" ELSE "closed"]
      /\ request' = [h \in Handlers |-> NoRequest]
      /\ joined' = [h \in Handlers |-> [joined[h] EXCEPT !.object = NoObject]]
  BY Zenon DEF CloudRestarts, RelayLost
<1>2. NoRequest \in [side : Sides, good : BOOLEAN, claim : Claims \cup {NoClaim}]
  BY Zenon DEF NoRequest, Sides
<1>3. SocketTypeOK' /\ RequestHasClaim'
  BY Zenon, <1>1, <1>2 DEF SocketTypeOK, RequestHasClaim, SocketStates
<1>4. \A k \in Handlers :
         /\ joined'[k] \in {joined[k], [joined[k] EXCEPT !.object = NoObject]}
         /\ pc'[k] = pc[k] \/ pc'[k] \in {"leaving", "closed"}
         /\ pc'[k] # "consumed"
  BY Zenon, <1>1
<1> QED BY Zenon, <1>3, <1>4, ObjectGoneInv

(* Every step keeps the credentials exclusive to the handlers that         *)
(* consumed them.                                                          *)
LEMMA SocketNext ==
    ASSUME SocketInv, StoreInv, StoreMonotone, RelayTypeOK, Next
    PROVE  SocketInv'
<1>1. ASSUME NEW h \in Handlers, SocketSteps(h) PROVE SocketInv'
  <2>1. CASE ReserveSide(h)
    <3>1. UNCHANGED joined
      BY Zenon, <2>1 DEF ReserveSide, Reserve, relayVars
    <3> QED BY Zenon, <2>1, <3>1, StepInv DEF ReserveSide, SocketStates
  <2>2. CASE Leave(h)
    <3>1. UNCHANGED joined
      BY Zenon, <2>2 DEF Leave, CancelReservation, relayVars
    <3> QED BY Zenon, <2>2, <3>1, StepInv DEF Leave, SocketStates
  <2> QED BY Zenon, <1>1, <2>1, <2>2, ConsumerInv, JoinerInv, ReturnsInv DEF SocketSteps
<1>2. ASSUME NEW h \in Handlers, NEW s \in Sessions, NEW side \in Sides,
             NEW key \in Epochs, Prepare(h, s, side, key)
      PROVE  SocketInv'
  BY Zenon, <1>2, PrepareInv
<1>3. CASE UNCHANGED <<pc, request, joined>>
  <2>1. SocketTypeOK' /\ RequestHasClaim' /\ JoinedHasClaim'
    BY Zenon, <1>3 DEF SocketInv, SocketTypeOK, RequestHasClaim, JoinedHasClaim
  <2>2. NobodyNew
    BY ZenonT(60), <1>3 DEF NobodyNew, Holds
  <2> QED BY Zenon, <2>1, <2>2, NobodyNewInv DEF SocketInv
<1>4. ASSUME NEW s \in Sessions,
             \/ ReserveAdmission(s) \/ ReleaseAdmission(s) \/ Revoke(s)
      PROVE  UNCHANGED <<pc, request, joined>>
  BY Zenon, <1>4 DEF ReserveAdmission, ReserveFor, Reserve, ReleaseAdmission, CancelReservation,
     Revoke, RevokeFinds, Catch, relayVars
<1>5. ASSUME NEW s \in Sessions,
             \/ CreateRow(s) \/ OfferRow(s) \/ Reconnect(s) \/ Terminate(s)
             \/ AgentEvent(s) \/ Expire(s) \/ TimePasses(s)
             \/ \E e \in Epochs : SendOffer(s, e) \/ RecordLoss(s, e)
             \/ \E kind \in DOMAIN EventTransitions : ApplyEvent(s, kind)
      PROVE  UNCHANGED <<pc, request, joined>>
  <2> HIDE DEF EventTransitions
  <2> QED BY Zenon, <1>5 DEF CreateRow, OfferRow, Reconnect, Terminate, AgentEvent, Expire,
       TimePasses, SendOffer, FailOffer, RecordLoss, ApplyEvent, relayVars
<1>6. ASSUME NEW o \in Objects,
             \/ JoinTimer(o) \/ FailSeen(o) \/ HardTimer(o)
             \/ \E reason \in {"transport_closed", "limit"} : TransportCloses(o, reason)
      PROVE  UNCHANGED <<pc, request, joined>>
  BY Zenon, <1>6 DEF JoinTimer, UnpairedSeen, Catch, FailSeen, FailCaught, HardTimer, Fail,
     TransportCloses
<1> QED BY Zenon, <1>1, <1>2, <1>3, <1>4, <1>5, <1>6, RestartInv DEF Next

(* The rest of TypeOK, and that no row exists before it is inserted. *)
CreateInv == creating \in [Sessions -> Creating] /\ NoRowYet

ServerTypeOK ==
    /\ passed \in [Sessions -> [join : BOOLEAN, hard : BOOLEAN, windows : 0 .. MaxWindows]]
    /\ offers \in [Sessions -> SUBSET Epochs]
    /\ known \in [Sessions -> BOOLEAN]
    /\ event \in Sessions \cup {NoEvent}
    /\ lost \subseteq Sessions \X Epochs
    /\ revoking \subseteq Sessions
    /\ restarts \in 0 .. limit.restarts

(* No row exists before the request that creates it has inserted it. *)
LEMMA CreateNext ==
    ASSUME CreateInv, StoreInv, StoreInv', Next
    PROVE  CreateInv'
<1>1. \A s \in Sessions :
         (row[s] = "none" <=> epoch[s] = 0) /\ (row'[s] = "none" <=> epoch'[s] = 0)
  BY Zenon DEF StoreInv, EpochsBegin
<1>2. epoch \in [Sessions -> 0 .. MaxEpoch]
  BY Zenon DEF StoreInv, StoreTypeOK
<1>3. ASSUME NEW s \in Sessions, ReserveAdmission(s) PROVE CreateInv'
  <2>1. UNCHANGED epoch
    BY Zenon, <1>3 DEF ReserveAdmission, ReserveFor, rowVars
  <2>2. /\ creating[s] \in {"idle", "halfReserved"}
        /\ \E next \in Creating : creating' = [creating EXCEPT ![s] = next]
    BY Zenon, <1>3 DEF ReserveAdmission, ReserveFor, Goto, Creating
  <2> QED BY Zenon, <1>1, <2>1, <2>2 DEF CreateInv, NoRowYet, Creating
<1>4. ASSUME NEW s \in Sessions, CreateRow(s) PROVE CreateInv'
  <2>1. /\ \E next \in {"inserted", "cancelAgent"} : creating' = [creating EXCEPT ![s] = next]
        /\ epoch' = epoch \/ epoch' = [epoch EXCEPT ![s] = 1]
    BY Zenon, <1>4 DEF CreateRow, InsertRow, Goto, rowVars
  <2> QED BY Zenon, <1>1, <1>2, <2>1 DEF CreateInv, NoRowYet, Creating
<1>5. ASSUME NEW s \in Sessions, ReleaseAdmission(s) \/ OfferRow(s) PROVE CreateInv'
  <2>1. /\ UNCHANGED epoch
        /\ \E next \in {"cancelBrowser", "done"} : creating' = [creating EXCEPT ![s] = next]
    BY Zenon, <1>5 DEF ReleaseAdmission, OfferRow, Transition, Goto, rowVars
  <2> QED BY Zenon, <1>1, <2>1 DEF CreateInv, NoRowYet, Creating
<1>6. ASSUME NEW s \in Sessions, Reconnect(s) PROVE CreateInv'
  <2>1. /\ UNCHANGED creating /\ row[s] # "none"
        /\ epoch' = [epoch EXCEPT ![s] = @ + 1]
    BY Zenon, <1>6 DEF Reconnect, BeginReconnect
  <2> QED BY Zenon, <1>1, <1>2, <2>1 DEF CreateInv, NoRowYet, Creating
<1>7. CASE CloudRestarts
  <2>1. /\ UNCHANGED epoch
        /\ creating' = [s \in Sessions |-> IF creating[s] = "idle" THEN "idle" ELSE "done"]
    BY Zenon, <1>7 DEF CloudRestarts, rowVars
  <2> QED BY Zenon, <1>1, <2>1 DEF CreateInv, NoRowYet, Creating
<1>8. CASE UNCHANGED <<creating, epoch>>
  BY Zenon, <1>1, <1>8 DEF CreateInv, NoRowYet, Creating
<1>9. ASSUME NEW s \in Sessions,
             \/ Terminate(s) \/ AgentEvent(s) \/ Expire(s) \/ TimePasses(s) \/ Revoke(s)
             \/ \E e \in Epochs : SendOffer(s, e) \/ RecordLoss(s, e)
             \/ \E kind \in DOMAIN EventTransitions : ApplyEvent(s, kind)
      PROVE  UNCHANGED <<creating, epoch>>
  <2> HIDE DEF EventTransitions
  <2> QED BY Zenon, <1>9 DEF Terminate, AgentEvent, Expire, TimePasses, Revoke, SendOffer,
       FailOffer, RecordLoss, MarkTransportLost, ApplyEvent, Transition, rowVars, serverVars
<1>10. ASSUME NEW o \in Objects,
             \/ JoinTimer(o) \/ FailSeen(o) \/ HardTimer(o)
             \/ \E reason \in {"transport_closed", "limit"} : TransportCloses(o, reason)
      PROVE  UNCHANGED <<creating, epoch>>
  BY Zenon, <1>10 DEF JoinTimer, FailSeen, HardTimer, TransportCloses, rowVars, serverVars
<1>11. ASSUME NEW h \in Handlers,
             \/ \E s \in Sessions, side \in Sides, key \in Epochs : Prepare(h, s, side, key)
             \/ SocketSteps(h)
      PROVE  UNCHANGED <<creating, epoch>>
  BY Zenon, <1>11 DEF Prepare, SocketSteps, ReserveSide, Consume, JoinRelay, JoinReturns, Leave,
     RestUnchanged, rowVars, serverVars
<1> QED BY Zenon, <1>3, <1>4, <1>5, <1>6, <1>7, <1>8, <1>9, <1>10, <1>11 DEF Next

(* The bounds of a behaviour are chosen once. *)
LEMMA LimitFixed == Next => UNCHANGED limit
<1>1. ASSUME NEW s \in Sessions,
             \/ ReserveAdmission(s) \/ CreateRow(s) \/ ReleaseAdmission(s) \/ OfferRow(s)
             \/ Reconnect(s) \/ Terminate(s) \/ AgentEvent(s) \/ Revoke(s) \/ Expire(s)
             \/ TimePasses(s)
      PROVE  UNCHANGED limit
  BY Zenon, <1>1 DEF ReserveAdmission, ReserveFor, CreateRow, ReleaseAdmission, OfferRow, Reconnect,
     Terminate, AgentEvent, Revoke, Expire, TimePasses
<1>2. ASSUME NEW s \in Sessions,
             \/ \E e \in Epochs : SendOffer(s, e) \/ RecordLoss(s, e)
             \/ \E kind \in DOMAIN EventTransitions : ApplyEvent(s, kind)
      PROVE  UNCHANGED limit
  <2> HIDE DEF EventTransitions
  <2> QED BY Zenon, <1>2 DEF SendOffer, FailOffer, RecordLoss, ApplyEvent
<1>3. ASSUME NEW o \in Objects,
             \/ JoinTimer(o) \/ FailSeen(o) \/ HardTimer(o)
             \/ \E reason \in {"transport_closed", "limit"} : TransportCloses(o, reason)
      PROVE  UNCHANGED limit
  BY Zenon, <1>3 DEF JoinTimer, FailSeen, HardTimer, TransportCloses
<1>4. ASSUME NEW h \in Handlers,
             \/ \E s \in Sessions, side \in Sides, key \in Epochs : Prepare(h, s, side, key)
             \/ SocketSteps(h)
      PROVE  UNCHANGED limit
  BY Zenon, <1>4 DEF Prepare, SocketSteps, ReserveSide, Consume, JoinRelay, JoinReturns, Leave,
     RestUnchanged
<1>5. CloudRestarts => UNCHANGED limit
  BY Zenon DEF CloudRestarts
<1> QED BY Zenon, <1>1, <1>2, <1>3, <1>4, <1>5 DEF Next

(* Every step keeps the types of the goroutines' variables. *)
LEMMA ServerNext ==
    ASSUME ServerTypeOK, StoreInv, RelayInv, Next
    PROVE  ServerTypeOK'
<1>1. UNCHANGED limit
  BY Zenon, LimitFixed
<1>2. limit.restarts \in Nat
  BY Zenon, BoundAssumption DEF StoreInv, StoreTypeOK
<1>3. ASSUME NEW s \in Sessions, TimePasses(s) PROVE ServerTypeOK'
  <2>1. window[s] \in 0 .. MaxWindows /\ passed[s].windows \in 0 .. MaxWindows
    BY Zenon DEF StoreInv, StoreTypeOK, ServerTypeOK
  <2>2. passed' \in [Sessions -> [join : BOOLEAN, hard : BOOLEAN, windows : 0 .. MaxWindows]]
    <3>1. CASE passed' = [passed EXCEPT ![s].join = TRUE]
      BY Zenon, <3>1 DEF ServerTypeOK
    <3>2. CASE /\ passed[s].windows < window[s]
               /\ passed' = [passed EXCEPT ![s].windows = @ + 1]
      <4>1. passed[s].windows + 1 \in 0 .. MaxWindows
        <5>1. passed[s].windows < window[s]
          BY Zenon, <3>2
        <5> QED BY SMTT(60), <2>1, <5>1, BoundAssumption
      <4> QED BY Zenon, <3>2, <4>1 DEF ServerTypeOK
    <3>3. CASE passed' = [passed EXCEPT ![s] =
                             [join |-> TRUE, hard |-> TRUE, windows |-> window[s]]]
      BY Zenon, <2>1, <3>3 DEF ServerTypeOK
    <3> QED BY Zenon, <1>3, <3>1, <3>2, <3>3 DEF TimePasses
  <2> QED BY Zenon, <1>1, <1>3, <2>2 DEF TimePasses, ServerTypeOK, serverVars
<1>4. ASSUME NEW s \in Sessions,
             \/ ReserveAdmission(s) \/ CreateRow(s) \/ ReleaseAdmission(s) \/ Expire(s)
      PROVE  ServerTypeOK'
  BY Zenon, <1>1, <1>4 DEF ReserveAdmission, ReserveFor, CreateRow, ReleaseAdmission, Expire,
     ServerTypeOK, serverVars
<1>5. ASSUME NEW s \in Sessions, OfferRow(s) PROVE ServerTypeOK'
  <2>1. 1 \in Epochs
    BY SMTT(60), ClaimAssumption, BoundAssumption DEF Epochs
  <2> QED BY Zenon, <1>1, <1>5, <2>1 DEF OfferRow, ServerTypeOK
<1>6. ASSUME NEW s \in Sessions, NEW e \in Epochs, SendOffer(s, e) PROVE ServerTypeOK'
  <2>1. known' \in [Sessions -> BOOLEAN]
    <3>1. CASE known' = [known EXCEPT ![s] = @ \/ e = epoch[s]]
      <4>1. (known[s] \/ e = epoch[s]) \in BOOLEAN
        BY Zenon
      <4> QED BY Zenon, <3>1, <4>1 DEF ServerTypeOK
    <3> QED BY Zenon, <1>6, <3>1 DEF SendOffer, FailOffer, ServerTypeOK
  <2> QED BY Zenon, <1>1, <1>6, <2>1 DEF SendOffer, FailOffer, ServerTypeOK
<1>7. ASSUME NEW s \in Sessions, NEW e \in Epochs, RecordLoss(s, e) PROVE ServerTypeOK'
  BY Zenon, <1>1, <1>7 DEF RecordLoss, ServerTypeOK
<1>8. ASSUME NEW s \in Sessions, Reconnect(s) PROVE ServerTypeOK'
  <2>1. epoch[s] + 1 \in Epochs
    <3>1. epoch[s] < limit.epochs
      BY Zenon, <1>8 DEF Reconnect, BeginReconnect
    <3>2. epoch[s] \in 0 .. MaxEpoch /\ limit \in Limits
      BY Zenon DEF StoreInv, StoreTypeOK
    <3> QED BY SMTT(60), <3>1, <3>2, BoundAssumption DEF Epochs
  <2> QED BY Zenon, <1>1, <1>8, <2>1 DEF Reconnect, ServerTypeOK
<1>9. ASSUME NEW s \in Sessions, Terminate(s) \/ AgentEvent(s) \/ Revoke(s)
      PROVE  ServerTypeOK'
  BY Zenon, <1>1, <1>9 DEF Terminate, AgentEvent, Revoke, ServerTypeOK
<1>10. ASSUME NEW s \in Sessions, NEW kind \in DOMAIN EventTransitions, ApplyEvent(s, kind)
       PROVE  ServerTypeOK'
  <2> HIDE DEF EventTransitions
  <2> QED BY Zenon, <1>1, <1>10 DEF ApplyEvent, ServerTypeOK
<1>11. ASSUME NEW o \in Objects, JoinTimer(o) \/ FailSeen(o) \/ HardTimer(o)
       PROVE  ServerTypeOK'
  BY Zenon, <1>1, <1>11 DEF JoinTimer, FailSeen, HardTimer, ServerTypeOK, serverVars
<1>12. ASSUME NEW o \in Objects, NEW reason \in {"transport_closed", "limit"},
              TransportCloses(o, reason)
       PROVE  ServerTypeOK'
  <2>1. claimOf[o] \in Claims
    BY Zenon, <1>12 DEF TransportCloses, Fail, RelayInv, OpenHasClaim
  <2>2. claimOf[o].session \in Sessions /\ claimOf[o].epoch \in Epochs
    BY Zenon, <2>1, ClaimAssumption
  <2>3. lost' \in {lost, lost \cup {<<claimOf[o].session, claimOf[o].epoch>>}}
    BY Zenon, <1>12 DEF TransportCloses
  <2>4. lost' \subseteq Sessions \X Epochs
    BY SMTT(60), <2>2, <2>3 DEF ServerTypeOK
  <2> QED BY Zenon, <1>1, <1>12, <2>4 DEF TransportCloses, ServerTypeOK
<1>13. ASSUME NEW h \in Handlers,
             \/ \E s \in Sessions, side \in Sides, key \in Epochs : Prepare(h, s, side, key)
             \/ SocketSteps(h)
       PROVE  ServerTypeOK'
  BY Zenon, <1>1, <1>13 DEF Prepare, SocketSteps, ReserveSide, Consume, JoinRelay, JoinReturns,
     Leave, RestUnchanged, ServerTypeOK, serverVars
<1>14. CASE CloudRestarts
  <2>1. restarts \in Nat /\ restarts < limit.restarts /\ restarts' = restarts + 1
    BY SMTT(60), <1>2, <1>14 DEF CloudRestarts, ServerTypeOK
  <2>2. restarts' \in 0 .. limit'.restarts
    BY SMTT(60), <1>1, <1>2, <2>1
  <2>3. offers' \in [Sessions -> SUBSET Epochs]
    BY Zenon, <1>14 DEF CloudRestarts
  <2>4. UNCHANGED <<passed, known>> /\ event' = NoEvent /\ lost' = {} /\ revoking' = {}
    BY Zenon, <1>14 DEF CloudRestarts
  <2> QED BY Zenon, <2>2, <2>3, <2>4 DEF ServerTypeOK, NoEvent
<1> QED BY Zenon, <1>3, <1>4, <1>5, <1>6, <1>7, <1>8, <1>9, <1>10, <1>11, <1>12, <1>13, <1>14 DEF
     Next

-----------------------------------------------------------------------------
IInv ==
    /\ RelayInv
    /\ OneSessionPerAgent
    /\ StoreInv
    /\ CreateInv
    /\ SocketInv
    /\ ServerTypeOK

(* No row, no socket, an empty relay. *)
LEMMA InitInv == Init => IInv
<1> SUFFICES ASSUME Init PROVE IInv
  BY Zenon
<1>1. RelayInv
  BY Zenon, RelayInitInv DEF Init
<1>2. OneSessionPerAgent
  BY Zenon DEF Init, RelayInit, OneSessionPerAgent, Registered
<1>3. limit \in Limits /\ limit.restarts \in Nat /\ 0 \in 0 .. MaxEpoch /\ 0 \in 0 .. MaxWindows
  <2>1. limit \in Limits
    BY Zenon DEF Init
  <2> QED BY SMTT(60), <2>1, BoundAssumption
<1>4. StoreInv
  BY Zenon, <1>3 DEF Init, StoreInv, StoreTypeOK, EpochsBegin, FreshIsCurrent, CredStates
<1>5. CreateInv
  BY Zenon DEF Init, CreateInv, NoRowYet, Creating
<1>6. SocketInv
  <2>1. NoRequest \in [side : Sides, good : BOOLEAN, claim : Claims \cup {NoClaim}]
    BY Zenon DEF NoRequest, Sides
  <2>2. /\ pc = [h \in Handlers |-> "idle"] /\ request = [h \in Handlers |-> NoRequest]
        /\ joined = [h \in Handlers |-> NotJoined]
    BY Zenon DEF Init, RelayInit
  <2>3. SocketTypeOK /\ RequestHasClaim /\ JoinedHasClaim
    BY Zenon, <2>1, <2>2 DEF SocketTypeOK, RequestHasClaim, JoinedHasClaim, SocketStates
  <2>4. HeldIsConsumed /\ OneHolder
    <3>1. \A h \in Handlers, s \in Sessions, e \in Epochs, d \in Sides : ~Holds(h, s, e, d)
      BY Zenon, <2>2 DEF Holds
    <3> QED BY Zenon, <3>1 DEF HeldIsConsumed, OneHolder
  <2> QED BY Zenon, <2>3, <2>4 DEF SocketInv
<1>7. ServerTypeOK
  BY SMTT(60), <1>3 DEF Init, ServerTypeOK
<1> QED BY Zenon, <1>1, <1>2, <1>4, <1>5, <1>6, <1>7 DEF IInv

(* A step that changes nothing keeps the invariant. *)
LEMMA StutterInv ==
    ASSUME IInv, UNCHANGED vars
    PROVE  IInv'
<1>1. [RelayNext]_relayVars
  BY Zenon DEF vars
<1>2. RelayInv' /\ OneSessionPerAgent'
  BY Zenon, <1>1, RelayNextInv, RelayNextOnePerAgent, OnePerAgentAssumption DEF IInv
<1>3. StoreInv' /\ StoreMonotone
  BY Zenon, StoreUnchanged DEF IInv, vars
<1>4. CreateInv'
  BY Zenon DEF IInv, CreateInv, NoRowYet, Creating, vars, rowVars, serverVars
<1>5. SocketTypeOK' /\ RequestHasClaim' /\ JoinedHasClaim' /\ NobodyNew
  BY ZenonT(60) DEF IInv, SocketInv, SocketTypeOK, RequestHasClaim, JoinedHasClaim, NobodyNew, Holds,
         vars, relayVars
<1>6. SocketInv'
  BY Zenon, <1>3, <1>5, NobodyNewInv DEF IInv, SocketInv
<1>7. ServerTypeOK'
  BY Zenon DEF IInv, ServerTypeOK, vars, serverVars
<1> QED BY Zenon, <1>2, <1>3, <1>4, <1>6, <1>7 DEF IInv

(* Every step keeps the invariant, and the store only moves forward. *)
LEMMA NextInv ==
    ASSUME IInv, Next
    PROVE  IInv' /\ StoreMonotone
<1>1. StoreInv' /\ StoreMonotone
  BY Zenon, StoreNext DEF IInv, CreateInv, SocketInv
<1>2. [RelayNext]_relayVars
  BY Zenon, RelayRefined DEF IInv, SocketInv
<1>3. RelayInv' /\ OneSessionPerAgent'
  BY Zenon, <1>2, RelayNextInv, RelayNextOnePerAgent, OnePerAgentAssumption DEF IInv
<1>4. SocketInv'
  BY Zenon, <1>1, SocketNext DEF IInv, RelayInv
<1>5. CreateInv'
  BY Zenon, <1>1, CreateNext DEF IInv
<1>6. ServerTypeOK'
  BY Zenon, ServerNext DEF IInv
<1> QED BY Zenon, <1>1, <1>3, <1>4, <1>5, <1>6 DEF IInv

(* The inductive invariant holds in every reachable state. *)
LEMMA Invariance == Spec => []IInv
<1>1. IInv /\ [Next]_vars => IInv'
  BY Zenon, NextInv, StutterInv
<1> QED BY InitInv, <1>1, PTL DEF Spec

(* The variables keep their types. *)
THEOREM TypeCorrect == Spec => []TypeOK
<1>1. IInv => TypeOK
  BY Zenon DEF IInv, RelayInv, StoreInv, StoreTypeOK, CredStates, CreateInv, Creating, SocketInv,
     SocketTypeOK, ServerTypeOK, TypeOK
<1> QED BY Invariance, <1>1, PTL

(* A credential that can still be used belongs to the current epoch of a   *)
(* live session, whatever transactions the handlers, the agent's events    *)
(* and the expiry run.                                                     *)
THEOREM CredentialsCurrent == Spec => []FreshIsCurrent
<1>1. IInv => FreshIsCurrent
  BY Zenon DEF IInv, StoreInv
<1> QED BY Invariance, <1>1, PTL

(* Sessions, as driven by their handlers, use the relay as RelaySpec       *)
(* allows, so what holds of the relay for any caller holds here.           *)
THEOREM UsesRelay == Spec => RelaySpec
<1>1. Init => RelayInit
  BY Zenon DEF Init
<1>2. IInv /\ [Next]_vars => [RelayNext]_relayVars
  BY Zenon, RelayRefined DEF IInv, SocketInv, vars
<1> QED BY Invariance, <1>1, <1>2, PTL DEF Spec, RelaySpec

(* The registry names exactly the sessions that are not finished. *)
THEOREM RegistryExact == Spec => []RegisteredIffOpen
<1>1. IInv => RegisteredIffOpen
  BY Zenon DEF IInv, RelayInv
<1> QED BY Invariance, <1>1, PTL

(* Only a browser and an agent with one claim are connected to each other. *)
THEOREM PairsMatch == Spec => []PairedByClaim
<1>1. IInv => PairedByClaim
  BY Zenon, RelayInvPairs DEF IInv
<1> QED BY Invariance, <1>1, PTL

(* The relay never carries two sessions of one agent. *)
THEOREM AgentExclusive == Spec => []OneSessionPerAgent
<1>1. IInv => OneSessionPerAgent
  BY Zenon DEF IInv
<1> QED BY Invariance, <1>1, PTL

(* One WebSocket per session, epoch and side is ever let in. *)
THEOREM SingleUse == Spec => []JoinedOnce
<1>1. IInv => JoinedOnce
  <2> SUFFICES ASSUME IInv, NEW h \in Handlers, NEW k \in Handlers,
                      joined[h] # NotJoined, joined[k] # NotJoined,
                      joined[h].claim.session = joined[k].claim.session,
                      joined[h].claim.epoch = joined[k].claim.epoch,
                      joined[h].side = joined[k].side
               PROVE  h = k
    BY Zenon DEF JoinedOnce
  <2> DEFINE s == joined[h].claim.session
             e == joined[h].claim.epoch
             d == joined[h].side
  <2>1. joined[h].claim \in Claims
    BY Zenon DEF IInv, SocketInv, JoinedHasClaim
  <2>2. s \in Sessions /\ e \in Epochs /\ d \in Sides
    BY Zenon, <2>1, ClaimAssumption DEF IInv, RelayInv, RelayTypeOK
  <2>3. Holds(h, s, e, d) /\ Holds(k, s, e, d)
    BY Zenon DEF Holds
  <2> HIDE DEF s, e, d
  <2> QED BY Zenon, <2>2, <2>3 DEF IInv, SocketInv, OneHolder
<1> QED BY Invariance, <1>1, PTL

(* A session that has ended stays in the state it ended in, and epochs     *)
(* never go back, whichever transaction comes late.                        *)
THEOREM EndIsFinal == Spec => EndedStaysEnded
<1> DEFINE A == \A s \in Sessions :
                   /\ row[s] \in Terminal => row'[s] = row[s]
                   /\ epoch'[s] >= epoch[s]
<1>1. IInv /\ [Next]_vars => [A]_vars
  BY Zenon, NextInv DEF StoreMonotone
<1> QED BY Invariance, <1>1, PTL DEF Spec, EndedStaysEnded
=============================================================================

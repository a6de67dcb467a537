---------------------------- MODULE NotesProofs ----------------------------
(***************************************************************************)
(* Proofs about the notes of a home, with their attachments and the         *)
(* reconciliation with the agent, for any users, rows, requests and         *)
(* operations: notes lie in live notebooks, attachments have their files,   *)
(* and the hub holds open connections.                                      *)
(***************************************************************************)
EXTENDS NoteAttachments, HomeSync, TLAPS

RecordsInit == NotesInit /\ AttachmentsInit /\ SyncInit

RecordsNext ==
    \/ NotesWork /\ UNCHANGED <<attVars, homeSyncVars>>
    \/ AttachmentsWork /\ UNCHANGED homeSyncVars
    \/ HomeSyncWork /\ UNCHANGED attVars
    \/ RestartFiles /\ RestartSync

recordsVars == <<noteVars, attVars, homeSyncVars>>
RecordsSpec == RecordsInit /\ [][RecordsNext]_recordsVars
-----------------------------------------------------------------------------
(***************************************************************************)
(* What a request has in hand: the row it read is well formed and carries   *)
(* the key and the owner of the row it will be written over.                *)
(***************************************************************************)
Unique == \A i, j \in DOMAIN rows : rows[i].key = rows[j].key /\ rows[i].owner = rows[j].owner => i = j
RowsInv == (\A i \in DOMAIN rows : WellFormed(rows[i])) /\ Unique /\ NotebookHierarchy

IsFor(row, i) == WellFormed(row) /\ i \in DOMAIN rows /\ row.key = rows[i].key /\ row.owner = rows[i].owner

\* The same of a row to be written, which may be a new one.
MayWrite(row, i) == WellFormed(row) /\ (i # NoId => IsFor(row, i))

CallFields == {"pc", "user", "scope", "id", "note", "state", "todo", "applied"}
UploadFields == {"pc", "scope", "id", "note", "att"}
GrantFields == {"pc", "id", "target", "first", "row"}

CallInv(c) ==
    /\ "pc" \in DOMAIN c
    /\ c.pc = "ops" => /\ DOMAIN c = CallFields /\ IsFor(c.note, c.id)
                       /\ DOMAIN c.state = StateFields /\ c.todo \in Seq(Operations)
    /\ c.pc \in {"upload", "named", "attach", "detach"} => DOMAIN c = UploadFields /\ IsFor(c.note, c.id)
    /\ c.pc = "grant" => DOMAIN c = GrantFields /\ IsFor(c.row, c.id)
    /\ c.pc = "write" => MayWrite(c.row, c.id)
    /\ c.pc = "admin" => c.att \in DOMAIN atts

CallsInv == DOMAIN handlers = Handlers /\ \A h \in Handlers : CallInv(handlers[h])

\* The row that a run of the reconciliation has in hand.
InHand(s) ==
    /\ s.pc = "write" => MayWrite(s.row, s.id)
    /\ s.pc \in {"members", "share"} => {"id", "row"} \subseteq DOMAIN s /\ IsFor(s.row, s.id)

Holding == {"write", "members", "share"}

SyncInv == "pc" \in DOMAIN sync /\ InHand(sync)

AttsInv == \A a \in DOMAIN atts : DOMAIN atts[a] = {"note", "deleted"} /\ atts[a].note \in DOMAIN rows

LeftInv == \A r \in left : r.kind = "submit" => r.batch \in Seq(Operations)

NotesInv == RowsInv /\ CallsInv /\ SyncInv /\ AttsInv /\ LeftInv

\* What happens to the rows: they stay, or one is written that the database
\* accepts.
Writes(i, row) ==
    /\ WellFormed(row) /\ Accepts(i, row) /\ UpsertUserNote(i, row)
    /\ i \in DOMAIN rows => row.key = rows[i].key /\ row.owner = rows[i].owner

RowsStep == UNCHANGED rows \/ \E i, row : Writes(i, row)
-----------------------------------------------------------------------------
\* Rows keep their key and owner.
LEMMA WriteKeepsIdentity ==
    ASSUME NEW i, NEW row, Writes(i, row)
    PROVE  /\ DOMAIN rows' = DOMAIN rows \cup {i} /\ rows'[i] = row
           /\ \A j \in DOMAIN rows : rows'[j].key = rows[j].key /\ rows'[j].owner = rows[j].owner
           /\ \A j \in DOMAIN rows : j # i => rows'[j] = rows[j]
  BY Zenon DEF Writes, UpsertUserNote

LEMMA WriteKeepsUnique ==
    ASSUME NEW i, NEW row, Writes(i, row), Unique
    PROVE  Unique'
<1>0. /\ DOMAIN rows' = DOMAIN rows \cup {i} /\ rows'[i] = row
      /\ \A j \in DOMAIN rows : rows'[j].key = rows[j].key /\ rows'[j].owner = rows[j].owner
      /\ \A j \in DOMAIN rows : j # i => rows'[j] = rows[j]
  BY Zenon, WriteKeepsIdentity
<1>1. \A j \in DOMAIN rows \ {i} : rows[j].key = row.key => rows[j].owner # row.owner
  BY Zenon DEF Writes, Accepts, UniqueKeys
<1>2. SUFFICES ASSUME NEW j \in DOMAIN rows', NEW k \in DOMAIN rows', j # k,
                      rows'[j].key = rows'[k].key, rows'[j].owner = rows'[k].owner
               PROVE  FALSE
  BY Zenon DEF Unique
<1>3. CASE j # i /\ k # i
  BY Zenon, <1>0, <1>2, <1>3 DEF Unique
<1>4. CASE j = i
  BY Zenon, <1>0, <1>1, <1>2, <1>4
<1>5. CASE k = i
  BY Zenon, <1>0, <1>1, <1>2, <1>5
<1> QED
  BY Zenon, <1>3, <1>4, <1>5

\* The triggers keep the hierarchy.
LEMMA WriteKeepsHierarchy ==
    ASSUME NEW i, NEW row, Writes(i, row), RowsInv
    PROVE  NotebookHierarchy'
<1>0. /\ DOMAIN rows' = DOMAIN rows \cup {i} /\ rows'[i] = row
      /\ \A j \in DOMAIN rows : rows'[j].key = rows[j].key /\ rows'[j].owner = rows[j].owner
      /\ \A j \in DOMAIN rows : j # i => rows'[j] = rows[j]
  BY Zenon, WriteKeepsIdentity
<1>1. SUFFICES ASSUME NEW c \in DOMAIN rows', ~rows'[c].deleted, rows'[c].parent # NoKey
               PROVE  /\ rows'[c].type # "notebook"
                      /\ \E p \in DOMAIN rows' : /\ rows'[p].owner = rows'[c].owner /\ rows'[p].key = rows'[c].parent
                                                 /\ ~rows'[p].deleted /\ rows'[p].type = "notebook"
  BY Zenon DEF NotebookHierarchy, Hierarchical
<1>2. CASE c = i
  <2>1. rows'[c] = row
    BY Zenon, <1>0, <1>2
  <2>2. row.type # "notebook"
    BY Zenon, <1>1, <2>1 DEF Writes, WellFormed
  <2>3. PICK p \in DOMAIN rows : /\ rows[p].owner = row.owner /\ rows[p].key = row.parent
                                 /\ row.parent # row.key /\ ~rows[p].deleted /\ rows[p].type = "notebook"
    BY Zenon, <1>1, <2>1 DEF Writes, Accepts, validate_user_note_parent, GetProfileNote
  <2>4. p # i
    BY Zenon, <2>3 DEF Writes
  <2> QED
    BY Zenon, <1>0, <2>1, <2>2, <2>3, <2>4
<1>3. CASE c # i
  <2>1. c \in DOMAIN rows /\ rows'[c] = rows[c]
    BY Zenon, <1>0, <1>1, <1>3
  <2>2. PICK p \in DOMAIN rows : /\ rows[p].owner = rows[c].owner /\ rows[p].key = rows[c].parent
                                 /\ ~rows[p].deleted /\ rows[p].type = "notebook"
    BY Zenon, <1>1, <2>1 DEF RowsInv, NotebookHierarchy, Hierarchical
  <2>3. rows[c].type # "notebook"
    BY Zenon, <1>1, <2>1 DEF RowsInv, NotebookHierarchy, Hierarchical
  <2>4. p = i => ~row.deleted /\ row.type = "notebook"
    BY Zenon, <1>1, <2>1, <2>2 DEF Writes, Accepts, protect_user_note_notebook_parent
  <2>5. ~rows'[p].deleted /\ rows'[p].type = "notebook"
    BY Zenon, <1>0, <2>2, <2>4
  <2> QED
    BY Zenon, <1>0, <2>1, <2>2, <2>3, <2>5
<1> QED
  BY Zenon, <1>2, <1>3

LEMMA RowsStepKeepsRows ==
    ASSUME RowsInv, RowsStep
    PROVE  /\ RowsInv' /\ DOMAIN rows \subseteq DOMAIN rows'
           /\ \A j \in DOMAIN rows : rows'[j].key = rows[j].key /\ rows'[j].owner = rows[j].owner
<1>1. CASE UNCHANGED rows
  BY Zenon, <1>1 DEF RowsInv, Unique, NotebookHierarchy
<1>2. ASSUME NEW i, NEW row, Writes(i, row)
      PROVE  /\ RowsInv' /\ DOMAIN rows \subseteq DOMAIN rows'
             /\ \A j \in DOMAIN rows : rows'[j].key = rows[j].key /\ rows'[j].owner = rows[j].owner
  <2>1. \A j \in DOMAIN rows' : WellFormed(rows'[j])
    <3> TAKE j \in DOMAIN rows'
    <3>1. CASE j = i
      BY Zenon, <1>2, <3>1, WriteKeepsIdentity DEF Writes
    <3>2. CASE j # i
      BY ZenonT(30), <1>2, <3>2, WriteKeepsIdentity DEF RowsInv
    <3> QED
      BY Zenon, <3>1, <3>2
  <2>2. Unique' /\ NotebookHierarchy'
    BY Zenon, <1>2, WriteKeepsUnique, WriteKeepsHierarchy DEF RowsInv
  <2> QED
    BY Zenon, <1>2, <2>1, <2>2, WriteKeepsIdentity DEF RowsInv
<1> QED
  BY Zenon, <1>1, <1>2 DEF RowsStep

\* What a request has in hand stays for the row it read.
LEMMA RowsStepKeepsCall ==
    ASSUME RowsInv, RowsStep, NEW c, CallInv(c), DOMAIN atts \subseteq DOMAIN atts'
    PROVE  CallInv(c)'
<1>1. \A row, i : IsFor(row, i) => IsFor(row, i)'
  BY Zenon, RowsStepKeepsRows DEF IsFor
<1>2. \A row, i : MayWrite(row, i) => MayWrite(row, i)'
  BY Zenon, <1>1 DEF MayWrite
<1> QED
  BY Zenon, <1>1, <1>2 DEF CallInv

LEMMA RowsStepKeepsMayWrite ==
    ASSUME RowsInv, RowsStep, NEW row, NEW i, MayWrite(row, i)
    PROVE  MayWrite(row, i)'
  BY Zenon, RowsStepKeepsRows DEF MayWrite, IsFor
-----------------------------------------------------------------------------
(***************************************************************************)
(* The rows that the operators make.                                        *)
(***************************************************************************)
LEMMA Materialized ==
    ASSUME NEW base, WellFormed(base), NEW state, DOMAIN state = StateFields,
           state.type = "notebook" => state.parent = NoKey, NEW at
    PROVE  /\ WellFormed(materializeNoteFromState(base, state, at))
           /\ materializeNoteFromState(base, state, at).key = base.key
           /\ materializeNoteFromState(base, state, at).owner = base.owner
           /\ materializeNoteFromState(base, state, at).type = state.type
           /\ materializeNoteFromState(base, state, at).parent = state.parent
<1> DEFINE m == materializeNoteFromState(base, state, at)
<1>1. DOMAIN m = RowFields
  BY Zenon DEF materializeNoteFromState, WellFormed
<1>2. m.key = base.key /\ m.owner = base.owner /\ m.type = state.type /\ m.parent = state.parent
  BY Zenon DEF materializeNoteFromState, WellFormed, RowFields
<1>3. DOMAIN m.state = StateFields /\ m.state.type = state.type /\ m.state.parent = state.parent
  BY Zenon DEF materializeNoteFromState, WellFormed, RowFields, StateFields
<1> QED
  BY Zenon, <1>1, <1>2, <1>3 DEF WellFormed

LEMMA Decoded ==
    ASSUME NEW row, WellFormed(row)
    PROVE  /\ DOMAIN decodeCollabState(row) = StateFields
           /\ decodeCollabState(row).type = row.state.type
           /\ row.state.type = "notebook" => decodeCollabState(row).parent = NoKey
  BY Zenon DEF decodeCollabState, WellFormed, StateFields

LEMMA Versioned ==
    ASSUME NEW state, DOMAIN state = StateFields
    PROVE  /\ DOMAIN [state EXCEPT !.ver = @ + 1] = StateFields
           /\ [state EXCEPT !.ver = @ + 1].type = state.type
           /\ [state EXCEPT !.ver = @ + 1].parent = state.parent
  BY Zenon DEF StateFields

LEMMA Validated ==
    ASSUME NEW scope, NEW user, NEW note, NEW type, NEW parent,
           validateNotebookParent(scope, user, note, type, parent)
    PROVE  type = "notebook" => parent = NoKey
  BY Zenon DEF validateNotebookParent

LEMMA NewRowWellFormed ==
    ASSUME NEW key, NEW owner, NEW home
    PROVE  WellFormed(NewRow(key, owner, home))
  BY Zenon DEF NewRow, WellFormed, RowFields, StateFields

LEMMA Saved ==
    ASSUME NEW existing, WellFormed(existing), NEW request, NEW at,
           LET row == savedRow(existing, request, at) IN row.type = "notebook" => row.parent = NoKey
    PROVE  /\ WellFormed(savedRow(existing, request, at))
           /\ savedRow(existing, request, at).key = existing.key
           /\ savedRow(existing, request, at).owner = existing.owner
<1> DEFINE parent == IF request.parent = {} THEN existing.parent ELSE CHOOSE p \in request.parent : TRUE
           pinned == IF request.pinned = {} THEN existing.pinned ELSE TRUE \in request.pinned
           state == [type |-> request.type, parent |-> parent,
                     pinned |-> pinned /\ parent # NoKey /\ request.type # "notebook",
                     body |-> IF request.type = "notebook" THEN <<>> ELSE request.body,
                     ver |-> existing.ver + 1]
           m == materializeNoteFromState(existing, state, at)
           lock == IF request.mcpx = {} THEN m.mcpx ELSE TRUE \in request.mcpx
<1>1. savedRow(existing, request, at) = [m EXCEPT !.mcpx = lock]
  BY Zenon DEF savedRow
<1>2. DOMAIN state = StateFields /\ state.type = request.type /\ state.parent = parent
  BY Zenon DEF StateFields
<1>3. DOMAIN m = RowFields /\ m.type = state.type /\ m.parent = state.parent
  BY Zenon DEF materializeNoteFromState, WellFormed, RowFields
<1> HIDE DEF m, state, lock
<1>4. state.type = "notebook" => state.parent = NoKey
  BY Zenon, <1>1, <1>3 DEF RowFields
<1>5. WellFormed(m) /\ m.key = existing.key /\ m.owner = existing.owner
  BY ZenonT(30), <1>2, <1>4, Materialized DEF m
<1> QED
  BY Zenon, <1>1, <1>5 DEF WellFormed, RowFields

LEMMA Targets ==
    ASSUME RowsInv, NEW request, NEW target \in SaveTargets(request)
    PROVE  MayWrite(target[2], target[1])
<1>1. CASE \E i \in DOMAIN rows : target = <<i, rows[i]>>
  BY <1>1 DEF RowsInv, MayWrite, IsFor
<1>2. CASE \E k, user, home : target = <<NoId, NewRow(k, user, home)>>
  BY <1>2, NewRowWellFormed DEF MayWrite
<1>3. \A scope, user, key : resolveNote(scope, user, key) \subseteq DOMAIN rows
  BY Zenon DEF resolveNote, GetProfileNote, GetHomeNoteVisibleToUser, GetHomeNoteByKey
<1> QED
  BY <1>1, <1>2, <1>3 DEF SaveTargets
-----------------------------------------------------------------------------
(***************************************************************************)
(* What one step may do to the requests, the run and the attachments.       *)
(***************************************************************************)
CallsStep ==
    /\ DOMAIN handlers' = Handlers
    /\ \A h \in Handlers : \/ handlers'[h] = handlers[h]
                           \/ \E c : CallInv(c) /\ (c.pc = "join" => h \in conns) /\ handlers'[h] = c

SyncKeeps ==
    \/ UNCHANGED sync
    \/ \E s : sync' = s /\ "pc" \in DOMAIN s /\ InHand(s)

AttsStep ==
    /\ DOMAIN atts \subseteq DOMAIN atts'
    /\ \A a \in DOMAIN atts' : DOMAIN atts'[a] = {"note", "deleted"} /\ atts'[a].note \in DOMAIN rows'

LEMMA StepKeepsNotes ==
    ASSUME NotesInv, RowsStep, CallsStep, SyncKeeps, AttsStep, left' \subseteq left
    PROVE  NotesInv'
<1> USE DEF NotesInv
<1>1. RowsInv'
  BY Zenon, RowsStepKeepsRows
<1>2. CallsInv'
  <2> SUFFICES ASSUME NEW h \in Handlers PROVE CallInv(handlers[h])'
    BY Zenon DEF CallsInv, CallsStep
  <2>1. PICK c : CallInv(c) /\ handlers'[h] = c
    BY Zenon DEF CallsInv, CallsStep
  <2>2. CallInv(c)'
    BY Zenon, <2>1, RowsStepKeepsCall DEF AttsStep
  <2> QED
    BY Zenon, <2>1, <2>2
<1>3. SyncInv'
  <2>1. PICK s : sync' = s /\ "pc" \in DOMAIN s /\ InHand(s)
    BY Zenon DEF SyncKeeps, SyncInv
  <2>2. s.pc = "write" => MayWrite(s.row, s.id)'
    BY Zenon, <2>1, RowsStepKeepsMayWrite DEF InHand
  <2>3. s.pc \in {"members", "share"} => {"id", "row"} \subseteq DOMAIN s /\ IsFor(s.row, s.id)'
    BY Zenon, <2>1, RowsStepKeepsRows DEF InHand, IsFor
  <2> QED
    BY Zenon, <2>1, <2>2, <2>3 DEF SyncInv, InHand, MayWrite, IsFor
<1>4. AttsInv' /\ LeftInv'
  BY Zenon DEF AttsStep, AttsInv, LeftInv
<1> QED
  BY Zenon, <1>1, <1>2, <1>3, <1>4

LEMMA IdleCall == CallInv(Idle) /\ Idle.pc # "join"
  BY Zenon DEF CallInv, Idle

LEMMA GoesOn ==
    ASSUME CallsInv, NEW h, NEW c, CallInv(c), c.pc # "join", Goes(h, c)
    PROVE  CallsStep
  BY Zenon DEF CallsInv, CallsStep, Goes

LEMMA Finishes ==
    ASSUME CallsInv, NEW h, Done(h)
    PROVE  CallsStep
  BY Zenon, IdleCall, GoesOn DEF Done

LEMMA AttsStay ==
    ASSUME NotesInv, RowsStep, UNCHANGED atts
    PROVE  AttsStep
  BY Zenon, RowsStepKeepsRows DEF NotesInv, AttsInv, AttsStep

\* A write of a row that a request read, or of a new one.
LEMMA WriteOne ==
    ASSUME NEW row, NEW id, NEW i \in TargetIds(id), MayWrite(row, id), Accepts(i, row), UpsertUserNote(i, row)
    PROVE  RowsStep
<1>1. Writes(i, row)
  BY Zenon DEF Writes, TargetIds, FreshIds, MayWrite, IsFor
<1> QED
  BY Zenon, <1>1 DEF RowsStep

LEMMA WriteOver ==
    ASSUME NEW row, NEW i, IsFor(row, i), Accepts(i, row), UpsertUserNote(i, row)
    PROVE  RowsStep
<1>1. Writes(i, row)
  BY Zenon DEF Writes, IsFor
<1> QED
  BY Zenon, <1>1 DEF RowsStep
-----------------------------------------------------------------------------
(***************************************************************************)
(* The steps of requests for notes.                                         *)
(***************************************************************************)
\* What a request does that has a file in hand.
Filing == {"upload", "named", "attach", "unlink"}

NotesGo ==
    /\ DOMAIN handlers' = Handlers
    /\ \A h \in Handlers : \/ handlers'[h] = handlers[h]
                           \/ \E c : /\ CallInv(c) /\ c.pc \notin Filing /\ (c.pc = "join" => h \in conns)
                                    /\ handlers'[h] = c

LEMMA NotesGoOn ==
    ASSUME CallsInv, NEW h, NEW c, CallInv(c), c.pc \notin Filing, c.pc = "join" => h \in conns,
           Goes(h, c)
    PROVE  NotesGo
  BY Zenon DEF CallsInv, NotesGo, Goes

LEMMA NotesFinish ==
    ASSUME CallsInv, NEW h, Done(h)
    PROVE  NotesGo
<1>1. Idle.pc \notin Filing
  BY Zenon DEF Idle, Filing
<1> QED
  BY Zenon, <1>1, IdleCall, NotesGoOn DEF Done

LEMMA NotesStay ==
    ASSUME CallsInv, UNCHANGED handlers
    PROVE  NotesGo
  BY Zenon DEF CallsInv, NotesGo

LEMMA NotesGoIsCallsStep == NotesGo => CallsStep
  BY Zenon DEF NotesGo, CallsStep

LEMMA CommitStep ==
    ASSUME CallsInv, NEW h, NEW row, NEW id, NEW i \in TargetIds(id), MayWrite(row, id), NEW operations, NEW dirty,
           Commit(h, i, row, operations, dirty)
    PROVE  RowsStep /\ NotesGo
<1>1. NotesGo
  BY Zenon, NotesFinish DEF Commit
<1>2. RowsStep
  BY Zenon, WriteOne DEF Commit, SaveUserNoteWithOperations, dbVars, RowsStep
<1> QED
  BY Zenon, <1>1, <1>2

LEMMA SaveReadStep ==
    ASSUME NotesInv, NEW h \in Handlers, SaveRead(h)
    PROVE  RowsStep /\ NotesGo /\ left' \subseteq left
<1> USE DEF NotesInv
<1>1. RowsStep /\ left' \subseteq left
  BY Zenon DEF SaveRead, dbVars, RowsStep
<1>2. CASE Done(h)
  BY Zenon, <1>1, <1>2, NotesFinish
<1> DEFINE request == handlers[h]
           row(target) == savedRow(target[2], request, clock + 1)
           call(target) == [pc |-> "write", scope |-> request.scope, id |-> target[1], row |-> row(target),
                            expect |-> request.expect]
<1>3. ASSUME NEW target \in SaveTargets(request),
             validateNotebookParent(request.scope, request.user, target[2], row(target).type, row(target).parent),
             Goes(h, call(target))
      PROVE  NotesGo
  <2>1. MayWrite(target[2], target[1])
    BY Zenon, <1>3, Targets
  <2>2. row(target).type = "notebook" => row(target).parent = NoKey
    BY Zenon, <1>3, Validated
  <2>3. /\ WellFormed(row(target)) /\ row(target).key = target[2].key
        /\ row(target).owner = target[2].owner
    BY <2>1, <2>2, Saved DEF MayWrite
  <2>4. MayWrite(row(target), target[1])
    BY Zenon, <2>1, <2>3 DEF MayWrite, IsFor
  <2>5. CallInv(call(target)) /\ call(target).pc \notin Filing \cup {"join"}
    <3> HIDE DEF row
    <3> QED
      BY Zenon, <2>4 DEF CallInv, Filing
  <2> QED
    BY Zenon, <1>3, <2>5, NotesGoOn
<1>4. Done(h) \/ \E target \in SaveTargets(request) :
                    /\ validateNotebookParent(request.scope, request.user, target[2], row(target).type, row(target).parent)
                    /\ Goes(h, call(target))
  BY Zenon DEF SaveRead
<1> QED
  BY Zenon, <1>1, <1>2, <1>3, <1>4

LEMMA WriteNoteStep ==
    ASSUME NotesInv, NEW h \in Handlers, WriteNote(h)
    PROVE  RowsStep /\ NotesGo /\ left' \subseteq left
<1>1. MayWrite(handlers[h].row, handlers[h].id)
  BY Zenon DEF WriteNote, NotesInv, CallsInv, CallInv
<1>2. PICK i \in TargetIds(handlers[h].id) : Commit(h, i, handlers[h].row, {}, handlers[h].scope = "home")
  BY Zenon DEF WriteNote
<1>3. RowsStep /\ NotesGo
  BY Zenon, <1>1, <1>2, CommitStep DEF NotesInv
<1> QED
  BY Zenon, <1>3 DEF WriteNote

\* An operation changes the state it is applied to within its fields.
LEMMA AppliedState ==
    ASSUME NEW state, DOMAIN state = StateFields, NEW o \in Operations
    PROVE  DOMAIN applyCollaborationOperation(state, o) = StateFields
  BY Zenon, OperationsAssumption DEF applyCollaborationOperation

LEMMA SubmitOpStep ==
    ASSUME NotesInv, NEW h \in Handlers, SubmitOp(h)
    PROVE  RowsStep /\ NotesGo /\ left' \subseteq left
<1> DEFINE call == handlers[h]
           o == Head(call.todo)
           rest == [call EXCEPT !.todo = Tail(@)]
           next == [call EXCEPT !.todo = Tail(@), !.applied = @ \cup {o.id},
                                !.state = applyCollaborationOperation(@, o)]
<1>1. RowsStep /\ left' \subseteq left
  BY Zenon DEF SubmitOp, dbVars, RowsStep
<1>2. /\ DOMAIN call = CallFields /\ IsFor(call.note, call.id) /\ call.pc = "ops"
      /\ DOMAIN call.state = StateFields /\ call.todo \in Seq(Operations) /\ call.todo # <<>>
  BY Zenon DEF SubmitOp, NotesInv, CallsInv, CallInv
<1>3. o \in Operations /\ Tail(call.todo) \in Seq(Operations)
  BY <1>2
<1>4. DOMAIN applyCollaborationOperation(call.state, o) = StateFields
  BY Zenon, <1>2, <1>3, AppliedState
<1>5. CallInv(rest) /\ rest.pc = "ops"
  BY Zenon, <1>2, <1>3 DEF CallInv, CallFields
<1>6. CallInv(next) /\ next.pc = "ops"
  <2>1. /\ DOMAIN next = CallFields /\ next.pc = "ops" /\ next.note = call.note /\ next.id = call.id
        /\ next.todo = Tail(call.todo) /\ next.state = applyCollaborationOperation(call.state, o)
    BY Zenon, <1>2 DEF CallFields
  <2> QED
    BY Zenon, <1>2, <1>3, <1>4, <2>1 DEF CallInv, CallFields
<1>7. Goes(h, rest) \/ Goes(h, next)
  BY Zenon DEF SubmitOp
<1>8. NotesGo
  BY Zenon, <1>5, <1>6, <1>7, NotesGoOn DEF Filing, NotesInv
<1> QED
  BY Zenon, <1>1, <1>8

LEMMA SubmitCommitStep ==
    ASSUME NotesInv, NEW h \in Handlers, SubmitCommit(h)
    PROVE  RowsStep /\ NotesGo /\ left' \subseteq left
<1> DEFINE call == handlers[h]
           row == materializeNoteFromState(call.note, call.state, clock + 1)
<1>1. left' \subseteq left
  BY Zenon DEF SubmitCommit
<1>2. IsFor(call.note, call.id) /\ DOMAIN call.state = StateFields
  BY Zenon DEF SubmitCommit, NotesInv, CallsInv, CallInv
<1>3. CASE Done(h) /\ UNCHANGED dbVars
  BY Zenon, <1>1, <1>3, NotesFinish DEF dbVars, RowsStep, NotesInv
<1>4. CASE /\ validateNotebookParent(call.scope, call.user, call.note, call.state.type, call.state.parent)
           /\ Commit(h, call.id, row, call.applied, call.scope = "home" /\ shares[call.id] # {})
  <2>1. call.state.type = "notebook" => call.state.parent = NoKey
    BY Zenon, <1>4, Validated
  <2>2. WellFormed(row) /\ row.key = call.note.key /\ row.owner = call.note.owner
    BY <1>2, <2>1, Materialized DEF IsFor
  <2>3. IsFor(row, call.id)
    BY Zenon, <1>2, <2>2 DEF IsFor
  <2>4. NotesGo
    BY Zenon, <1>4, NotesFinish DEF Commit, NotesInv
  <2>5. RowsStep
    <3> HIDE DEF row, call
    <3> QED
      BY Zenon, <1>4, <2>3, WriteOver DEF Commit, SaveUserNoteWithOperations, dbVars, RowsStep
  <2> QED
    BY Zenon, <1>1, <2>4, <2>5
<1> QED
  BY Zenon, <1>3, <1>4 DEF SubmitCommit

LEMMA GrantBindStep ==
    ASSUME NotesInv, NEW h \in Handlers, GrantBind(h)
    PROVE  RowsStep /\ NotesGo /\ left' \subseteq left
<1> DEFINE call == handlers[h]
           row == [call.row EXCEPT !.home = TRUE, !.at = clock + 1]
           bound == [call EXCEPT !.row = row]
<1>1. left' \subseteq left
  BY Zenon DEF GrantBind
<1>2. DOMAIN call = GrantFields /\ call.pc = "grant" /\ IsFor(call.row, call.id)
  BY Zenon DEF GrantBind, NotesInv, CallsInv, CallInv
<1>3. IsFor(row, call.id)
  BY Zenon, <1>2 DEF IsFor, WellFormed, RowFields
<1> HIDE DEF row
<1>4. DOMAIN bound = GrantFields /\ bound.pc = "grant" /\ bound.row = row /\ bound.id = call.id
  BY Zenon, <1>2 DEF GrantFields
<1>5. CallInv(bound)
  BY Zenon, <1>3, <1>4 DEF CallInv, GrantFields
<1>6. CASE Done(h) /\ UNCHANGED dbVars
  BY Zenon, <1>1, <1>6, NotesFinish DEF dbVars, RowsStep, NotesInv
<1>7. CASE Accepts(call.id, row) /\ UpsertUserNote(call.id, row) /\ Goes(h, bound)
  <2>1. RowsStep
    BY Zenon, <1>3, <1>7, WriteOver
  <2>2. NotesGo
    BY Zenon, <1>4, <1>5, <1>7, NotesGoOn DEF Filing, NotesInv
  <2> QED
    BY Zenon, <1>1, <2>1, <2>2
<1> QED
  BY Zenon, <1>6, <1>7 DEF GrantBind, row

LEMMA NoteStepKeeps ==
    ASSUME NotesInv, NEW h \in Handlers, NoteStep(h)
    PROVE  RowsStep /\ NotesGo /\ left' \subseteq left
<1>1. CASE GrantShare(h)
  BY Zenon, <1>1, NotesFinish DEF GrantShare, RowsStep, NotesInv
<1>2. CASE revokeSessions(h)
  BY Zenon, <1>2, NotesFinish DEF revokeSessions, dbVars, RowsStep, NotesInv
<1>3. CASE JoinRegister(h)
  BY Zenon, <1>3, NotesFinish DEF JoinRegister, dbVars, RowsStep, NotesInv
<1> QED
  BY Zenon, <1>1, <1>2, <1>3, SaveReadStep, WriteNoteStep, SubmitOpStep, SubmitCommitStep,
     GrantBindStep DEF NoteStep
-----------------------------------------------------------------------------
(***************************************************************************)
(* The arrival of requests for notes.                                       *)
(***************************************************************************)
LEMMA Resolved ==
    ASSUME RowsInv, NEW scope, NEW user, NEW key,
           NEW i \in resolveNote(scope, user, key) \cup findSharableNote(user, key)
    PROVE  IsFor(rows[i], i)
<1>1. i \in DOMAIN rows
  BY Zenon DEF resolveNote, findSharableNote, GetProfileNote, GetHomeNoteVisibleToUser,
     GetHomeNoteByKey, GetOwnedHomeNote
<1> QED
  BY Zenon, <1>1 DEF RowsInv, IsFor

LEMMA RenameNoteStep ==
    ASSUME NotesInv, NEW r, RenameNote(r)
    PROVE  NotesGo
<1> DEFINE state(i) == [decodeCollabState(rows[i]) EXCEPT !.ver = @ + 1]
           row(i) == materializeNoteFromState(rows[i], state(i), clock + 1)
           call(i) == [pc |-> "write", scope |-> r.scope, id |-> i, expect |-> NoRev, row |-> row(i)]
<1>1. PICK i \in resolveNote(r.scope, r.user, r.key) : Goes(r.via, call(i))
  BY Zenon DEF RenameNote
<1>2. IsFor(rows[i], i)
  BY Zenon, Resolved DEF NotesInv
<1>3. DOMAIN state(i) = StateFields /\ (state(i).type = "notebook" => state(i).parent = NoKey)
  BY <1>2, Decoded, Versioned DEF IsFor
<1>4. IsFor(row(i), i)
  <2> HIDE DEF state
  <2> QED
    BY <1>2, <1>3, Materialized DEF IsFor
<1> HIDE DEF row
<1>5. CallInv(call(i)) /\ call(i).pc \notin Filing \cup {"join"}
  BY Zenon, <1>4 DEF CallInv, MayWrite, IsFor, Filing
<1> QED
  BY Zenon, <1>1, <1>5, NotesGoOn DEF NotesInv

LEMMA DeleteNoteStep ==
    ASSUME NotesInv, NEW r, DeleteNote(r)
    PROVE  NotesGo
<1> DEFINE decoded(i) == decodeCollabState(rows[i])
           state(i) == [decoded(i) EXCEPT !.ver = @ + 1]
           row(i) == [rows[i] EXCEPT !.body = <<>>, !.rev = <<"deleted", <<>>, "text", NoKey, FALSE>>,
                                     !.state = state(i), !.ver = decoded(i).ver + 1,
                                     !.type = "text", !.at = clock + 1, !.deleted = TRUE]
           call(i) == [pc |-> "write", scope |-> r.scope, id |-> i, expect |-> NoRev, row |-> row(i)]
<1>1. PICK i \in resolveNote(r.scope, r.user, r.key) : Goes(r.via, call(i))
  BY Zenon DEF DeleteNote
<1>2. IsFor(rows[i], i)
  BY Zenon, Resolved DEF NotesInv
<1>3. /\ DOMAIN state(i) = StateFields /\ state(i).type = rows[i].state.type
      /\ state(i).type = "notebook" => state(i).parent = NoKey
  BY <1>2, Decoded, Versioned DEF IsFor
<1> HIDE DEF state, decoded
<1>4. /\ DOMAIN row(i) = RowFields /\ row(i).state = state(i) /\ row(i).type = "text"
      /\ row(i).parent = rows[i].parent /\ row(i).key = rows[i].key /\ row(i).owner = rows[i].owner
  BY Zenon, <1>2 DEF IsFor, WellFormed, RowFields
<1> HIDE DEF row
<1>5. IsFor(row(i), i)
  BY Zenon, <1>2, <1>3, <1>4 DEF IsFor, WellFormed
<1>6. CallInv(call(i)) /\ call(i).pc \notin Filing \cup {"join"}
  BY Zenon, <1>5 DEF CallInv, MayWrite, IsFor, Filing
<1> QED
  BY Zenon, <1>1, <1>6, NotesGoOn DEF NotesInv

LEMMA SubmitReadStep ==
    ASSUME NotesInv, NEW r, SubmitRead(r)
    PROVE  NotesGo
<1> DEFINE state(i) == decodeCollabState(rows[i])
           call(i) == [pc |-> "ops", user |-> r.user, scope |-> r.scope, id |-> i, note |-> rows[i],
                       state |-> state(i), todo |-> r.batch, applied |-> {}]
<1>1. PICK i \in resolveNote(r.scope, r.user, r.key) : Goes(r.via, call(i))
  BY Zenon DEF SubmitRead
<1>2. IsFor(rows[i], i)
  BY Zenon, Resolved DEF NotesInv
<1>3. DOMAIN state(i) = StateFields
  BY Zenon, <1>2, Decoded DEF IsFor
<1>4. r.batch \in Seq(Operations)
  BY Zenon DEF SubmitRead, Arrives, NotesInv, LeftInv
<1> HIDE DEF state
<1>5. CallInv(call(i)) /\ call(i).pc \notin Filing \cup {"join"}
  BY Zenon, <1>2, <1>3, <1>4 DEF CallInv, CallFields, Filing
<1> QED
  BY Zenon, <1>1, <1>5, NotesGoOn DEF NotesInv

LEMMA GrantReadStep ==
    ASSUME NotesInv, NEW r, GrantRead(r)
    PROVE  NotesGo
<1> DEFINE call(i) == [pc |-> "grant", id |-> i, target |-> r.target, first |-> ~rows[i].home, row |-> rows[i]]
<1>1. PICK i \in findSharableNote(r.user, r.key) : Goes(r.via, call(i))
  BY Zenon DEF GrantRead
<1>2. IsFor(rows[i], i)
  BY Zenon, Resolved DEF NotesInv
<1>3. CallInv(call(i)) /\ call(i).pc \notin Filing \cup {"join"}
  BY Zenon, <1>2 DEF CallInv, GrantFields, Filing
<1> QED
  BY Zenon, <1>1, <1>3, NotesGoOn DEF NotesInv

LEMMA PlainCall ==
    ASSUME NEW c, "pc" \in DOMAIN c, c.pc \in {"save", "evict", "join"}
    PROVE  CallInv(c) /\ c.pc \notin Filing
  BY Zenon DEF CallInv, Filing

LEMMA PlainRequestSteps ==
    ASSUME NotesInv, NEW r,
           PutNote(r) \/ AppendNote(r) \/ RevokeShare(r) \/ RemoveMember(r) \/ (r.via \in Conns /\ JoinRead(r))
    PROVE  NotesGo
<1>1. PICK c : /\ "pc" \in DOMAIN c /\ c.pc \in {"save", "evict", "join"} /\ Goes(r.via, c)
               /\ c.pc = "join" => r.via \in conns
  <2>1. CASE PutNote(r)
    BY <2>1 DEF PutNote
  <2>2. CASE AppendNote(r)
    <3>1. PICK i : Goes(r.via, [pc |-> "save", user |-> r.user, scope |-> r.scope, key |-> r.key,
                                expect |-> Expected(r), body |-> Append(rows[i].body, <<"append", r.n>>),
                                type |-> "text", parent |-> {}, pinned |-> {rows[i].pinned}, mcpx |-> {rows[i].mcpx}])
      BY Zenon, <2>2 DEF AppendNote
    <3> QED
      BY <3>1
  <2>3. CASE RevokeShare(r)
    <3>1. PICK i : Goes(r.via, [pc |-> "evict", user |-> r.target, notes |-> {i}, scopes |-> Scopes,
                                dirty |-> shares'[i] = {}])
      BY Zenon, <2>3 DEF RevokeShare
    <3> QED
      BY <3>1
  <2>4. CASE RemoveMember(r)
    BY <2>4 DEF RemoveMember
  <2>5. CASE r.via \in Conns /\ JoinRead(r)
    <3>1. PICK i : Goes(r.via, [pc |-> "join", id |-> i, scope |-> r.scope])
      BY Zenon, <2>5 DEF JoinRead
    <3>2. r.via \in conns
      BY Zenon, <2>5 DEF JoinRead, Arrives
    <3> QED
      BY <3>1, <3>2
  <2> QED
    BY Zenon, <2>1, <2>2, <2>3, <2>4, <2>5
<1> QED
  BY Zenon, <1>1, PlainCall, NotesGoOn DEF NotesInv

LEMMA NoteRequestKeeps ==
    ASSUME NotesInv, NEW r, NoteRequest(r)
    PROVE  RowsStep /\ NotesGo /\ left' \subseteq left
<1> USE DEF RowsStep, dbVars
<1>1. CASE FetchNote(r)
  BY Zenon, <1>1, NotesStay DEF FetchNote, Arrives, NotesInv
<1>2. CASE PutNote(r)
  BY Zenon, <1>2, PlainRequestSteps DEF PutNote, Arrives
<1>3. CASE AppendNote(r)
  BY Zenon, <1>3, PlainRequestSteps DEF AppendNote, Arrives
<1>4. CASE DeleteNote(r)
  BY Zenon, <1>4, DeleteNoteStep DEF DeleteNote, Arrives
<1>5. CASE GrantRead(r)
  BY Zenon, <1>5, GrantReadStep DEF GrantRead, Arrives
<1>6. CASE RevokeShare(r)
  BY Zenon, <1>6, PlainRequestSteps DEF RevokeShare, Arrives
<1>7. CASE RenameNote(r)
  BY Zenon, <1>7, RenameNoteStep DEF RenameNote, Arrives
<1>8. CASE r.via \in Conns /\ JoinRead(r)
  BY Zenon, <1>8, PlainRequestSteps DEF JoinRead, Arrives
<1>9. CASE LeaveNote(r)
  BY Zenon, <1>9, NotesStay DEF LeaveNote, Arrives, NotesInv
<1>10. CASE SubmitRead(r)
  BY Zenon, <1>10, SubmitReadStep DEF SubmitRead, Arrives
<1>11. CASE RemoveMember(r)
  BY Zenon, <1>11, PlainRequestSteps DEF RemoveMember, Arrives
<1>12. CASE Connect(r)
  BY Zenon, <1>12, NotesStay DEF Connect, NotesInv
<1> QED
  BY Zenon, <1>1, <1>2, <1>3, <1>4, <1>5, <1>6, <1>7, <1>8, <1>9, <1>10, <1>11, <1>12 DEF
     NoteRequest, handleHomeNotesHTTP, handleProfileNotesHTTP, handleCloudNotesCommand

LEMMA NotesWorkKeeps ==
    ASSUME NotesInv, NotesWork
    PROVE  RowsStep /\ NotesGo /\ left' \subseteq left
<1>1. ASSUME NEW c \in Conns, Disconnect(c)
      PROVE  RowsStep /\ NotesGo /\ left' \subseteq left
  BY Zenon, <1>1, NotesStay DEF Disconnect, dbVars, RowsStep, NotesInv
<1> QED
  BY Zenon, <1>1, NoteStepKeeps, NoteRequestKeeps DEF NotesWork
-----------------------------------------------------------------------------
(***************************************************************************)
(* The steps of uploads and deletions of attachments.                       *)
(***************************************************************************)
LEMMA WithBody ==
    ASSUME NEW note, NEW i, IsFor(note, i), NEW body
    PROVE  IsFor(withBody(note, body, i), i)
<1> DEFINE row == withBody(note, body, i)
<1>1. /\ DOMAIN row = RowFields /\ row.state = note.state /\ row.type = note.type
      /\ row.parent = note.parent /\ row.key = note.key /\ row.owner = note.owner
  BY Zenon DEF withBody, IsFor, WellFormed, RowFields
<1> QED
  BY Zenon, <1>1 DEF IsFor, WellFormed

\* A request with a row in hand, at its next step.
LEMMA NextUploadCall ==
    ASSUME NEW c, DOMAIN c = UploadFields, IsFor(c.note, c.id), NEW pc \in {"named", "attach", "unlink"}
    PROVE  CallInv([c EXCEPT !.pc = pc]) /\ [c EXCEPT !.pc = pc].pc = pc
<1> DEFINE d == [c EXCEPT !.pc = pc]
<1>1. DOMAIN d = UploadFields /\ d.note = c.note /\ d.id = c.id /\ d.pc = pc
  BY Zenon DEF UploadFields
<1> QED
  BY Zenon, <1>1 DEF CallInv, UploadFields

LEMMA AttachmentCall ==
    ASSUME NotesInv, NEW h \in Handlers, handlers[h].pc \in {"upload", "named", "attach", "detach"}
    PROVE  DOMAIN handlers[h] = UploadFields /\ IsFor(handlers[h].note, handlers[h].id)
  BY Zenon DEF NotesInv, CallsInv, CallInv

LEMMA UploadStarts ==
    ASSUME NotesInv, NEW via, NEW pc \in {"upload", "detach"}, NEW scope, NEW i \in DOMAIN rows, NEW att,
           Goes(via, [pc |-> pc, scope |-> scope, id |-> i, note |-> rows[i], att |-> att])
    PROVE  CallsStep
<1> DEFINE c == [pc |-> pc, scope |-> scope, id |-> i, note |-> rows[i], att |-> att]
<1>1. DOMAIN c = UploadFields /\ c.note = rows[i] /\ c.id = i /\ c.pc = pc
  BY Zenon DEF UploadFields
<1>2. IsFor(rows[i], i)
  BY Zenon DEF NotesInv, RowsInv, IsFor
<1>3. CallInv(c)
  BY Zenon, <1>1, <1>2 DEF CallInv, UploadFields
<1> QED
  BY Zenon, <1>3, GoesOn DEF NotesInv

LEMMA CreateStep ==
    ASSUME NotesInv, NEW h \in Handlers, CreateNoteAttachmentAndSaveNote(h)
    PROVE  RowsStep /\ AttsStep
<1> DEFINE i == handlers[h].id
           a == handlers[h].att
           row == noteWithAttachmentReference(handlers[h].note, a, i)
<1>1. IsFor(row, i)
  BY Zenon, AttachmentCall, WithBody DEF CreateNoteAttachmentAndSaveNote,
     noteWithAttachmentReference
<1>2. CASE UNCHANGED <<dbVars, atts>>
  BY Zenon, <1>2, AttsStay DEF dbVars, RowsStep
<1>3. CASE /\ Accepts(i, row) /\ UpsertUserNote(i, row)
           /\ atts' = [b \in DOMAIN atts \cup {a} |-> IF b = a THEN [note |-> i, deleted |-> FALSE] ELSE atts[b]]
  <2> HIDE DEF row
  <2>1. RowsStep
    BY Zenon, <1>1, <1>3, WriteOver
  <2>2. i \in DOMAIN rows /\ DOMAIN rows \subseteq DOMAIN rows'
    BY Zenon, <1>1, <2>1, RowsStepKeepsRows DEF IsFor, NotesInv
  <2> HIDE DEF i, a
  <2>3. AttsStep
    BY Zenon, <1>3, <2>2 DEF AttsStep, NotesInv, AttsInv
  <2> QED
    BY Zenon, <2>1, <2>3
<1> QED
  BY Zenon, <1>2, <1>3 DEF CreateNoteAttachmentAndSaveNote

LEMMA DeleteAttachmentStep ==
    ASSUME NotesInv, NEW h \in Handlers, DeleteNoteAttachmentAndSaveNote(h)
    PROVE  RowsStep /\ CallsStep /\ AttsStep
<1> DEFINE i == handlers[h].id
           a == handlers[h].att
           row == removeNoteAttachmentReferences(handlers[h].note, a, i)
<1>1. /\ IsFor(row, i)
      /\ CallInv([handlers[h] EXCEPT !.pc = "unlink"]) /\ [handlers[h] EXCEPT !.pc = "unlink"].pc = "unlink"
  BY Zenon, AttachmentCall, WithBody, NextUploadCall DEF DeleteNoteAttachmentAndSaveNote,
     removeNoteAttachmentReferences
<1>2. CASE Done(h) /\ UNCHANGED <<dbVars, atts>>
  BY Zenon, <1>2, AttsStay, Finishes DEF dbVars, RowsStep, NotesInv
<1>3. CASE /\ Accepts(i, row) /\ UpsertUserNote(i, row) /\ atts' = [atts EXCEPT ![a].deleted = TRUE]
           /\ a \in Live /\ Goes(h, [handlers[h] EXCEPT !.pc = "unlink"])
  <2> HIDE DEF row
  <2>1. RowsStep
    BY Zenon, <1>1, <1>3, WriteOver
  <2>2. DOMAIN rows \subseteq DOMAIN rows'
    BY Zenon, <2>1, RowsStepKeepsRows DEF NotesInv
  <2>3. CallsStep
    BY Zenon, <1>1, <1>3, GoesOn DEF NotesInv
  <2> HIDE DEF i, a
  <2>4. AttsStep
    <3>1. DOMAIN atts' = DOMAIN atts
      BY Zenon, <1>3
    <3>2. \A b \in DOMAIN atts : DOMAIN atts'[b] = {"note", "deleted"} /\ atts'[b].note \in DOMAIN rows
      BY Zenon, <1>3 DEF NotesInv, AttsInv
    <3> QED
      BY Zenon, <2>2, <3>1, <3>2 DEF AttsStep
  <2> QED
    BY Zenon, <2>1, <2>3, <2>4
<1> QED
  BY Zenon, <1>2, <1>3 DEF DeleteNoteAttachmentAndSaveNote

LEMMA AttachmentStepKeeps ==
    ASSUME NotesInv, NEW h \in Handlers, AttachmentStep(h)
    PROVE  RowsStep /\ CallsStep /\ AttsStep /\ left' \subseteq left
<1>1. CASE UploadTemp(h)
  <2>1. CallInv([handlers[h] EXCEPT !.pc = "named"]) /\ [handlers[h] EXCEPT !.pc = "named"].pc = "named"
    BY Zenon, <1>1, AttachmentCall, NextUploadCall DEF UploadTemp
  <2>2. RowsStep /\ UNCHANGED atts /\ left' \subseteq left
    BY Zenon, <1>1 DEF UploadTemp, dbVars, RowsStep
  <2> QED
    BY Zenon, <1>1, <2>1, <2>2, GoesOn, AttsStay DEF UploadTemp, NotesInv
<1>2. CASE UploadRename(h)
  <2>1. CallInv([handlers[h] EXCEPT !.pc = "attach"]) /\ [handlers[h] EXCEPT !.pc = "attach"].pc = "attach"
    BY Zenon, <1>2, AttachmentCall, NextUploadCall DEF UploadRename
  <2>2. RowsStep /\ UNCHANGED atts /\ left' \subseteq left
    BY Zenon, <1>2 DEF UploadRename, dbVars, RowsStep
  <2>3. CallsStep
    BY Zenon, <1>2, <2>1, GoesOn, Finishes DEF UploadRename, NotesInv
  <2> QED
    BY Zenon, <2>2, <2>3, AttsStay
<1>3. CASE CreateNoteAttachmentAndSaveNote(h)
  BY Zenon, <1>3, CreateStep, Finishes DEF CreateNoteAttachmentAndSaveNote, NotesInv
<1>4. CASE AdminReadsNote(h)
  <2>1. atts[handlers[h].att].note \in DOMAIN rows
    BY Zenon, <1>4 DEF AdminReadsNote, NotesInv, CallsInv, CallInv, AttsInv
  <2>2. CallsStep
    BY Zenon, <1>4, <2>1, UploadStarts DEF AdminReadsNote
  <2>3. RowsStep /\ UNCHANGED atts /\ left' \subseteq left
    BY Zenon, <1>4 DEF AdminReadsNote, dbVars, RowsStep, attVars
  <2> QED
    BY Zenon, <2>2, <2>3, AttsStay
<1>5. CASE DeleteNoteAttachmentAndSaveNote(h)
  BY Zenon, <1>5, DeleteAttachmentStep DEF DeleteNoteAttachmentAndSaveNote
<1>6. CASE Unlink(h)
  <2>1. RowsStep /\ UNCHANGED atts /\ left' \subseteq left /\ CallsStep
    BY Zenon, <1>6, Finishes DEF Unlink, dbVars, RowsStep, NotesInv
  <2> QED
    BY Zenon, <2>1, AttsStay
<1> QED
  BY Zenon, <1>1, <1>2, <1>3, <1>4, <1>5, <1>6 DEF AttachmentStep

LEMMA AttachmentRequestKeeps ==
    ASSUME NotesInv, NEW r, UploadRead(r) \/ DetachRead(r) \/ AdminDetach(r)
    PROVE  RowsStep /\ CallsStep /\ AttsStep /\ left' \subseteq left
<1>1. RowsStep /\ UNCHANGED atts /\ left' \subseteq left
  BY Zenon DEF UploadRead, DetachRead, AdminDetach, Arrives, dbVars, attVars, RowsStep
<1>2. \A scope, user, key : resolveNote(scope, user, key) \subseteq DOMAIN rows
  BY Zenon DEF resolveNote, GetProfileNote, GetHomeNoteVisibleToUser, GetHomeNoteByKey
<1>3. CASE UploadRead(r)
  BY Zenon, <1>1, <1>2, <1>3, UploadStarts, AttsStay DEF UploadRead
<1>4. CASE DetachRead(r)
  BY Zenon, <1>1, <1>2, <1>4, UploadStarts, AttsStay DEF DetachRead
<1>5. CASE AdminDetach(r)
  <2> DEFINE c == [pc |-> "admin", att |-> r.att,
                   scope |-> IF rows[atts[r.att].note].home THEN "home" ELSE "profile"]
  <2>1. CallInv(c) /\ Goes(r.via, c)
    BY Zenon, <1>5 DEF AdminDetach, CallInv, Live
  <2> QED
    BY Zenon, <1>1, <2>1, GoesOn, AttsStay DEF NotesInv
<1> QED
  BY Zenon, <1>3, <1>4, <1>5

LEMMA AttachmentsWorkKeeps ==
    ASSUME NotesInv, AttachmentsWork
    PROVE  RowsStep /\ CallsStep /\ AttsStep /\ left' \subseteq left
<1>1. CASE UNCHANGED <<noteVars, atts>>
  BY Zenon, <1>1, NotesStay, NotesGoIsCallsStep, AttsStay DEF noteVars, RowsStep, NotesInv
<1> QED
  BY Zenon, <1>1, AttachmentStepKeeps, AttachmentRequestKeeps DEF AttachmentsWork, Handlers,
     pruneStart, pruneFile, pruneEnd, maintenanceEnds, FileAges
-----------------------------------------------------------------------------
(***************************************************************************)
(* The steps of the reconciliation.                                         *)
(***************************************************************************)
\* The run goes on without a row in hand.
LEMMA SyncMoves ==
    ASSUME "pc" \in DOMAIN sync', sync'.pc \notin Holding
    PROVE  SyncKeeps
  BY Zenon DEF SyncKeeps, InHand, Holding

LEMMA StartKeeps ==
    ASSUME Start
    PROVE  SyncKeeps
<1>1. "pc" \in DOMAIN Begun /\ Begun.pc \notin Holding
  BY Zenon DEF Begun, Holding
<1> QED
  BY Zenon, <1>1, SyncMoves DEF Start, SyncKeeps

LEMMA StopKeeps ==
    ASSUME sync' = NoSync
    PROVE  SyncKeeps
  BY Zenon, SyncMoves DEF NoSync, Holding

LEMMA PullFailedKeeps ==
    ASSUME NotesInv, PullFailed
    PROVE  SyncKeeps
  BY Zenon, SyncMoves DEF PullFailed, NotesInv, SyncInv, Holding

LEMMA CommandKeeps ==
    ASSUME NEW effect, NEW done, NEW failed, Command(effect, done, failed),
           "pc" \in DOMAIN done, done.pc \notin Holding, "pc" \in DOMAIN failed, failed.pc \notin Holding
    PROVE  SyncKeeps /\ left' \subseteq left
<1>1. left' \subseteq left
  BY Zenon DEF Command, CommandFails, Happens
<1>2. sync' = [done EXCEPT !.own = @ + 1] \/ sync' = failed \/ sync' = [failed EXCEPT !.own = @ + 1]
  BY Zenon DEF Command
<1>3. "pc" \in DOMAIN sync' /\ sync'.pc \notin Holding
  BY Zenon, <1>2
<1> QED
  BY Zenon, <1>1, <1>3, SyncMoves

LEMMA SyncNoteKeeps ==
    ASSUME NotesInv, NEW n, SyncNote(n)
    PROVE  SyncKeeps /\ left' \subseteq left
<1>1. "pc" \in DOMAIN Rest(n) /\ Rest(n).pc = "notes" /\ "pc" \in DOMAIN Pushed(n) /\ Pushed(n).pc = "notes"
  BY Zenon DEF SyncNote, Rest, Pushed, NotesInv, SyncInv
<1>2. CASE sync' = Rest(n) /\ UNCHANGED left
  BY Zenon, <1>1, <1>2, SyncMoves DEF Holding
<1>3. CASE pushDelete(n)
  BY Zenon, <1>1, <1>3, CommandKeeps DEF Holding, pushDelete
<1>4. CASE pushSave(n)
  BY Zenon, <1>1, <1>4, CommandKeeps DEF Holding, pushSave
<1>5. CASE sync' = [Rest(n) EXCEPT !.pc = "fetch", !.key = n.key] /\ UNCHANGED left
  BY Zenon, <1>1, <1>5, SyncMoves DEF Holding
<1> QED
  BY Zenon, <1>2, <1>3, <1>4, <1>5 DEF SyncNote

LEMMA PullFetchKeeps ==
    ASSUME NotesInv, PullFetch
    PROVE  SyncKeeps /\ left' \subseteq left
<1>1. left' \subseteq left
  BY Zenon DEF PullFetch, CommandFails, Happens
<1>2. CASE PullFailed
  BY Zenon, <1>1, <1>2, PullFailedKeeps
<1>3. CASE sync' = Over([doc |-> local[sync.key]], [sync EXCEPT !.pc = "save"])
  <2> DEFINE g == [sync EXCEPT !.pc = "save"]
             f == [doc |-> local[sync.key]]
  <2>1. "pc" \in DOMAIN g /\ g.pc = "save" /\ "pc" \notin DOMAIN f
    BY Zenon DEF NotesInv, SyncInv
  <2> HIDE DEF f, g
  <2>2. "pc" \in DOMAIN sync' /\ sync'.pc = "save"
    BY Zenon, <1>3, <2>1 DEF Over, f, g
  <2> QED
    BY Zenon, <1>1, <2>2, SyncMoves DEF Holding
<1> QED
  BY Zenon, <1>2, <1>3 DEF PullFetch

LEMMA PullSaveReadKeeps ==
    ASSUME NotesInv, PullSaveRead
    PROVE  SyncKeeps
<1> DEFINE row(target) == savedRow(target[2], PullRequest, clock + 1)
           f(target) == [id |-> target[1], row |-> row(target)]
           g == [sync EXCEPT !.pc = "write"]
<1>1. CASE PullFailed
  BY Zenon, <1>1, PullFailedKeeps
<1>2. ASSUME NEW target \in SaveTargets(PullRequest),
             validateNotebookParent("home", HomeOwner, target[2], row(target).type, row(target).parent),
             sync' = Over(f(target), g)
      PROVE  SyncKeeps
  <2>1. MayWrite(target[2], target[1])
    BY Zenon, <1>2, Targets DEF NotesInv
  <2>2. row(target).type = "notebook" => row(target).parent = NoKey
    BY Zenon, <1>2, Validated
  <2>3. /\ WellFormed(row(target)) /\ row(target).key = target[2].key
        /\ row(target).owner = target[2].owner
    BY <2>1, <2>2, Saved DEF MayWrite
  <2>4. MayWrite(row(target), target[1])
    BY Zenon, <2>1, <2>3 DEF MayWrite, IsFor
  <2> HIDE DEF row
  <2>5. /\ DOMAIN f(target) = {"id", "row"} /\ f(target).id = target[1] /\ f(target).row = row(target)
        /\ "pc" \in DOMAIN g
    BY Zenon DEF NotesInv, SyncInv
  <2>a. g.pc = "write"
    BY Zenon DEF NotesInv, SyncInv
  <2> HIDE DEF f, g
  <2>6. "pc" \in DOMAIN sync' /\ sync'.row = row(target) /\ sync'.id = target[1]
    BY Zenon, <1>2, <2>5 DEF Over
  <2>7. sync'.pc = "write"
    BY Zenon, <1>2, <2>5, <2>a DEF Over
  <2> QED
    BY Zenon, <2>4, <2>6, <2>7 DEF SyncKeeps, InHand
<1> QED
  BY Zenon, <1>1, <1>2 DEF PullSaveRead

LEMMA PullSaveWriteKeeps ==
    ASSUME NotesInv, PullSaveWrite
    PROVE  RowsStep /\ SyncKeeps
<1>1. MayWrite(sync.row, sync.id)
  BY Zenon DEF PullSaveWrite, NotesInv, SyncInv, InHand
<1>2. CASE PullFailed /\ UNCHANGED rows
  BY Zenon, <1>2, PullFailedKeeps DEF RowsStep
<1>3. ASSUME NEW i \in TargetIds(sync.id), Accepts(i, sync.row), UpsertUserNote(i, sync.row),
             sync' = [sync EXCEPT !.pc = "owned", !.own = @ + 1, !.key = sync.row.key]
      PROVE  RowsStep /\ SyncKeeps
  <2>1. RowsStep
    BY Zenon, <1>1, <1>3, WriteOne
  <2>2. "pc" \in DOMAIN sync' /\ sync'.pc = "owned"
    BY Zenon, <1>3 DEF NotesInv, SyncInv
  <2> QED
    BY Zenon, <2>1, <2>2, SyncMoves DEF Holding
<1> QED
  BY Zenon, <1>2, <1>3 DEF PullSaveWrite

LEMMA PullOwnedKeeps ==
    ASSUME NotesInv, PullOwned
    PROVE  SyncKeeps
<1> DEFINE f(i) == [id |-> i, row |-> rows[i]]
           g == [sync EXCEPT !.pc = "members"]
<1>1. CASE PullFailed
  BY Zenon, <1>1, PullFailedKeeps
<1>2. ASSUME NEW i \in GetOwnedHomeNote(HomeOwner, sync.key), sync' = Over(f(i), g)
      PROVE  SyncKeeps
  <2>1. IsFor(rows[i], i)
    BY Zenon DEF GetOwnedHomeNote, GetHomeNoteByKey, NotesInv, RowsInv, IsFor
  <2>2. /\ DOMAIN f(i) = {"id", "row"} /\ f(i).id = i /\ f(i).row = rows[i]
        /\ "pc" \in DOMAIN g /\ g.pc = "members"
    BY Zenon DEF NotesInv, SyncInv
  <2> HIDE DEF f, g
  <2>3. {"pc", "id", "row"} \subseteq DOMAIN sync' /\ sync'.row = rows[i] /\ sync'.id = i
    BY Zenon, <1>2, <2>2 DEF Over
  <2>4. sync'.pc = "members"
    BY Zenon, <1>2, <2>2 DEF Over
  <2> QED
    BY Zenon, <2>1, <2>3, <2>4 DEF SyncKeeps, InHand
<1> QED
  BY Zenon, <1>1, <1>2 DEF PullOwned

LEMMA PullMembersKeeps ==
    ASSUME NotesInv, PullMembers
    PROVE  SyncKeeps
<1> DEFINE f == [to |-> members \ {HomeOwner}]
           g == [sync EXCEPT !.pc = "share"]
<1>1. {"pc", "id", "row"} \subseteq DOMAIN sync /\ IsFor(sync.row, sync.id)
  BY Zenon DEF PullMembers, NotesInv, SyncInv, InHand
<1>2. /\ DOMAIN f = {"to"} /\ DOMAIN g = DOMAIN sync
      /\ g.pc = "share" /\ g.row = sync.row /\ g.id = sync.id
  BY Zenon, <1>1
<1>3. sync' = Over(f, g)
  BY Zenon DEF PullMembers
<1> HIDE DEF f, g
<1>4. {"pc", "id", "row"} \subseteq DOMAIN sync'
  BY Zenon, <1>1, <1>2, <1>3 DEF Over
<1>5. sync'.pc = "share" /\ sync'.row = sync.row /\ sync'.id = sync.id
  BY Zenon, <1>1, <1>2, <1>3 DEF Over
<1>6. InHand(sync')
  <2>1. PICK s : s = sync'
    OBVIOUS
  <2> QED
    BY Zenon, <1>1, <1>4, <1>5, <2>1 DEF InHand
<1> QED
  BY Zenon, <1>4, <1>6 DEF SyncKeeps

LEMMA PullShareKeeps ==
    ASSUME NotesInv, PullShare
    PROVE  SyncKeeps
<1>1. CASE PullFailed
  BY Zenon, <1>1, PullFailedKeeps
<1>2. ASSUME NEW user, sync' = [sync EXCEPT !.to = @ \ {user}]
      PROVE  SyncKeeps
  <2>1. {"pc", "id", "row"} \subseteq DOMAIN sync /\ IsFor(sync.row, sync.id) /\ sync.pc = "share"
    BY Zenon DEF PullShare, NotesInv, SyncInv, InHand
  <2>2. /\ DOMAIN sync' = DOMAIN sync
        /\ sync'.pc = "share" /\ sync'.row = sync.row /\ sync'.id = sync.id
    BY Zenon, <1>2, <2>1
  <2>3. PICK s : s = sync'
    OBVIOUS
  <2>4. InHand(s)
    BY Zenon, <2>1, <2>2, <2>3 DEF InHand
  <2> QED
    BY Zenon, <2>1, <2>2, <2>3, <2>4 DEF SyncKeeps
<1> QED
  BY Zenon, <1>1, <1>2 DEF PullShare

LEMMA PullUpsertKeeps ==
    ASSUME NotesInv, PullUpsert
    PROVE  RowsStep /\ SyncKeeps
<1> DEFINE i == sync.id
           row == pulledRow(sync.row)
<1>1. CASE PullFailed /\ UNCHANGED rows
  BY Zenon, <1>1, PullFailedKeeps DEF RowsStep
<1>2. CASE /\ Accepts(i, row) /\ UpsertUserNote(i, row)
           /\ sync' = [sync EXCEPT !.pc = "notes", !.own = @ + 1]
  <2>1. IsFor(sync.row, i)
    BY Zenon DEF PullUpsert, NotesInv, SyncInv, InHand
  <2>2. /\ DOMAIN row = RowFields /\ row.state = sync.row.state /\ row.parent = NoKey
        /\ row.key = sync.row.key /\ row.owner = sync.row.owner
    BY Zenon, <2>1 DEF pulledRow, IsFor, WellFormed, RowFields
  <2>3. IsFor(row, i)
    <3> HIDE DEF row
    <3> QED
      BY Zenon, <2>1, <2>2 DEF IsFor, WellFormed
  <2>4. RowsStep
    BY Zenon, <1>2, <2>3, WriteOver
  <2>5. "pc" \in DOMAIN sync' /\ sync'.pc = "notes"
    BY Zenon, <1>2 DEF NotesInv, SyncInv
  <2> QED
    BY Zenon, <2>4, <2>5, SyncMoves DEF Holding
<1> QED
  BY Zenon, <1>1, <1>2 DEF PullUpsert

LEMMA SyncStepKeeps ==
    ASSUME NotesInv, SyncStep
    PROVE  RowsStep /\ NotesGo /\ SyncKeeps /\ left' \subseteq left
<1> USE DEF dbVars, noteVars, RowsStep
<1>0. "pc" \in DOMAIN sync
  BY Zenon DEF NotesInv, SyncInv
<1>1. CASE ManifestFails
  BY Zenon, <1>1, NotesStay, StopKeeps DEF ManifestFails, CommandFails, Happens, NotesInv
<1>2. CASE ManifestRead
  <2>1. "pc" \in DOMAIN sync' /\ sync'.pc = "list"
    BY Zenon, <1>0, <1>2 DEF ManifestRead
  <2> QED
    BY Zenon, <1>2, <2>1, NotesStay, SyncMoves DEF Holding, ManifestRead, NotesInv
<1>3. CASE ListRead
  <2>1. "pc" \in DOMAIN sync' /\ sync'.pc = "notes"
    BY Zenon, <1>0, <1>3 DEF ListRead
  <2> QED
    BY Zenon, <1>3, <2>1, NotesStay, SyncMoves DEF Holding, ListRead, NotesInv
<1>4. ASSUME NEW n, SyncNote(n)
      PROVE  RowsStep /\ NotesGo /\ SyncKeeps /\ left' \subseteq left
  BY Zenon, <1>4, NotesStay, SyncNoteKeeps DEF SyncNote, NotesInv
<1>5. ASSUME NEW key, SyncExtra(key)
      PROVE  RowsStep /\ NotesGo /\ SyncKeeps /\ left' \subseteq left
  <2>1. "pc" \in DOMAIN sync' /\ sync'.pc = "fetch"
    BY Zenon, <1>0, <1>5 DEF SyncExtra
  <2> QED
    BY Zenon, <1>5, <2>1, NotesStay, SyncMoves DEF Holding, SyncExtra, NotesInv
<1>6. CASE PullFetch
  BY Zenon, <1>6, NotesStay, PullFetchKeeps DEF PullFetch, NotesInv
<1>7. CASE PullSaveRead
  BY Zenon, <1>7, NotesStay, PullSaveReadKeeps DEF PullSaveRead, NotesInv
<1>8. CASE PullSaveWrite
  <2>1. NotesGo /\ left' \subseteq left
    BY Zenon, <1>8, NotesStay DEF PullSaveWrite, NotesInv
  <2> QED
    BY Zenon, <1>8, <2>1, PullSaveWriteKeeps
<1>9. CASE PullUpsert
  <2>1. NotesGo /\ left' \subseteq left
    BY Zenon, <1>9, NotesStay DEF PullUpsert, NotesInv
  <2> QED
    BY Zenon, <1>9, <2>1, PullUpsertKeeps
<1>10. CASE SyncEnd
  BY Zenon, <1>10, NotesStay, StopKeeps DEF SyncEnd, NotesInv
<1>11. CASE PullOwned
  BY Zenon, <1>11, NotesStay, PullOwnedKeeps DEF PullOwned, NotesInv
<1>12. CASE PullMembers
  BY Zenon, <1>12, NotesStay, PullMembersKeeps DEF PullMembers, NotesInv
<1>13. CASE PullShare
  BY Zenon, <1>13, NotesStay, PullShareKeeps DEF PullShare, Happens, NotesInv
<1> QED
  BY Zenon, <1>1, <1>2, <1>3, <1>4, <1>5, <1>6, <1>7, <1>8, <1>9, <1>10, <1>11, <1>12, <1>13 DEF SyncStep

LEMMA HomeSyncWorkKeeps ==
    ASSUME NotesInv, HomeSyncWork
    PROVE  RowsStep /\ NotesGo /\ SyncKeeps /\ left' \subseteq left
<1> USE DEF dbVars, RowsStep
<1>1. CASE scheduleHomeSync
  BY Zenon, <1>1, NotesStay, StartKeeps DEF scheduleHomeSync, NotesInv
<1>2. CASE AgentConnects
  BY Zenon, <1>2, NotesStay, StartKeeps DEF AgentConnects, Happens, NotesInv
<1>3. CASE AgentDisconnects
  BY Zenon, <1>3, NotesStay DEF AgentDisconnects, Happens, NotesInv, SyncKeeps
<1>4. CASE SyncStep
  BY Zenon, <1>4, SyncStepKeeps
<1>5. ASSUME NEW r, LocalEdit(r) \/ LocalRemove(r)
      PROVE  RowsStep /\ NotesGo /\ SyncKeeps /\ left' \subseteq left
  BY Zenon, <1>5, NotesStay DEF LocalEdit, LocalRemove, NotesInv, SyncKeeps
<1> QED
  BY Zenon, <1>1, <1>2, <1>3, <1>4, <1>5 DEF HomeSyncWork
-----------------------------------------------------------------------------
LEMMA RestartKeeps ==
    ASSUME Restart
    PROVE  RowsStep /\ NotesGo /\ left' \subseteq left
<1>1. Idle.pc \notin Filing
  BY Zenon DEF Idle, Filing
<1> QED
  BY Zenon, <1>1, IdleCall DEF Restart, Happens, dbVars, RowsStep, NotesGo

LEMMA NotesInvInit == RecordsInit => NotesInv
<1> SUFFICES ASSUME RecordsInit PROVE NotesInv
  OBVIOUS
<1>1. PICK s \in Scenarios : rows = s.rows /\ left = s.left
  BY Zenon DEF RecordsInit, NotesInit
<1>2. RowsInv /\ LeftInv
  BY Zenon, <1>1, StartsAssumption DEF RowsInv, Unique, NotebookHierarchy, LeftInv
<1>3. CallsInv
  BY Zenon, IdleCall DEF RecordsInit, NotesInit, CallsInv
<1>4. SyncInv
  BY Zenon DEF RecordsInit, SyncInit, NoSync, SyncInv, InHand
<1>5. AttsInv
  <2>1. atts = <<>>
    BY Zenon DEF RecordsInit, AttachmentsInit
  <2>2. DOMAIN atts = {}
    BY <2>1
  <2> QED
    BY Zenon, <2>2 DEF AttsInv
<1> QED
  BY Zenon, <1>2, <1>3, <1>4, <1>5 DEF NotesInv

LEMMA NotesInvNext == NotesInv /\ [RecordsNext]_recordsVars => NotesInv'
<1> SUFFICES ASSUME NotesInv, [RecordsNext]_recordsVars PROVE NotesInv'
  OBVIOUS
<1>1. CASE NotesWork /\ UNCHANGED <<attVars, homeSyncVars>>
  BY Zenon, <1>1, NotesWorkKeeps, NotesGoIsCallsStep, AttsStay, StepKeepsNotes DEF attVars,
     homeSyncVars, SyncKeeps
<1>2. CASE AttachmentsWork /\ UNCHANGED homeSyncVars
  BY Zenon, <1>2, AttachmentsWorkKeeps, StepKeepsNotes DEF homeSyncVars, SyncKeeps
<1>3. CASE HomeSyncWork /\ UNCHANGED attVars
  BY Zenon, <1>3, HomeSyncWorkKeeps, NotesGoIsCallsStep, AttsStay, StepKeepsNotes DEF attVars
<1>4. CASE RestartFiles /\ RestartSync
  BY Zenon, <1>4, RestartKeeps, NotesGoIsCallsStep, AttsStay, StopKeeps, StepKeepsNotes DEF
     RestartFiles, RestartSync
<1>5. CASE UNCHANGED recordsVars
  <2>1. RowsStep /\ SyncKeeps /\ left' \subseteq left /\ UNCHANGED atts /\ UNCHANGED handlers
    BY Zenon, <1>5 DEF recordsVars, noteVars, attVars, homeSyncVars, RowsStep, SyncKeeps
  <2> QED
    BY Zenon, <2>1, NotesStay, NotesGoIsCallsStep, AttsStay, StepKeepsNotes DEF NotesInv
<1> QED
  BY Zenon, <1>1, <1>2, <1>3, <1>4, <1>5 DEF RecordsNext

\* Whatever requests, uploads, deletions, members, connections, restarts and
\* runs of the reconciliation interleave, every live note lies in no notebook
\* or in a live notebook of its owner, which lies in none: the checks that
\* requests make before they write may be stale, the triggers are not
\* (validate_user_note_parent, protect_user_note_notebook_parent).
THEOREM NotebooksHold == RecordsSpec => []NotebookHierarchy
<1>1. NotesInv => NotebookHierarchy
  BY Zenon DEF NotesInv, RowsInv
<1> QED
  BY <1>1, NotesInvInit, NotesInvNext, PTL DEF RecordsSpec
-----------------------------------------------------------------------------
(***************************************************************************)
(* The hub.  A connection closes between two commands, so that one which    *)
(* is about to join is open.                                                *)
(***************************************************************************)
JoinsAreOpen == \A h \in Handlers : handlers[h].pc = "join" => h \in conns
HubInv == HubHoldsOpenConnections /\ JoinsAreOpen

LEMMA CallsStepKeepsJoins ==
    ASSUME HubInv, CallsStep, conns \subseteq conns'
    PROVE  JoinsAreOpen'
  BY Zenon DEF HubInv, JoinsAreOpen, CallsStep

LEMMA HubShrinks ==
    ASSUME HubInv, CallsStep, conns \subseteq conns', hub' \subseteq hub
    PROVE  HubInv'
  BY Zenon, CallsStepKeepsJoins DEF HubInv, HubHoldsOpenConnections

LEMMA DisconnectKeepsHub ==
    ASSUME HubInv, NEW c \in Conns, Disconnect(c)
    PROVE  HubInv'
<1>1. HubHoldsOpenConnections'
  <2>1. \A s \in hub' : s \in hub /\ s.conn # c
    BY Zenon DEF Disconnect, removeApp
  <2> QED
    BY Zenon, <2>1 DEF HubInv, HubHoldsOpenConnections, Disconnect
<1>2. handlers[c].pc # "join"
  BY DEF Disconnect, Idle
<1>3. JoinsAreOpen'
  BY Zenon, <1>2 DEF Disconnect, HubInv, JoinsAreOpen
<1> QED
  BY Zenon, <1>1, <1>3 DEF HubInv

LEMMA JoinKeepsHub ==
    ASSUME HubInv, CallsStep, NEW c \in Handlers, JoinRegister(c)
    PROVE  HubInv'
<1>1. c \in conns
  BY Zenon DEF JoinRegister, HubInv, JoinsAreOpen
<1>2. HubHoldsOpenConnections'
  BY <1>1 DEF JoinRegister, HubInv, HubHoldsOpenConnections
<1> QED
  BY Zenon, <1>2, CallsStepKeepsJoins DEF HubInv, JoinRegister

LEMMA NotesWorkHub ==
    ASSUME NotesWork
    PROVE  \/ conns \subseteq conns' /\ hub' \subseteq hub
           \/ \E c \in Conns : Disconnect(c)
           \/ \E c \in Handlers : JoinRegister(c)
<1>1. ASSUME NEW r, NoteRequest(r)
      PROVE  conns \subseteq conns' /\ hub' \subseteq hub
  <2>1. CASE UNCHANGED <<conns, hub>>
    BY Zenon, <2>1
  <2>2. CASE LeaveNote(r)
    BY Zenon, <2>2 DEF LeaveNote
  <2>3. CASE Connect(r)
    BY Zenon, <2>3 DEF Connect
  <2>4. CASE FetchNote(r) \/ PutNote(r) \/ AppendNote(r) \/ DeleteNote(r)
    BY Zenon, <2>1, <2>4 DEF FetchNote, PutNote, AppendNote, DeleteNote
  <2>5. CASE GrantRead(r) \/ RevokeShare(r) \/ RenameNote(r) \/ JoinRead(r)
    BY Zenon, <2>1, <2>5 DEF GrantRead, RevokeShare, RenameNote, JoinRead
  <2>6. CASE SubmitRead(r) \/ RemoveMember(r)
    BY Zenon, <2>1, <2>6 DEF SubmitRead, RemoveMember
  <2> QED
    BY Zenon, <1>1, <2>2, <2>3, <2>4, <2>5, <2>6 DEF NoteRequest, handleHomeNotesHTTP,
       handleProfileNotesHTTP, handleCloudNotesCommand
<1>2. ASSUME NEW h \in Handlers, NoteStep(h), ~JoinRegister(h)
      PROVE  conns \subseteq conns' /\ hub' \subseteq hub
  BY Zenon, <1>2 DEF NoteStep, SaveRead, WriteNote, SubmitOp, SubmitCommit, GrantBind, GrantShare,
     revokeSessions
<1> QED
  BY Zenon, <1>1, <1>2, NoteStepKeeps DEF NotesWork

LEMMA HubInvNext ==
    ASSUME NotesInv, HubInv, [RecordsNext]_recordsVars
    PROVE  HubInv'
<1>1. CASE NotesWork
  <2>1. CallsStep
    BY Zenon, <1>1, NotesWorkKeeps, NotesGoIsCallsStep
  <2> QED
    BY Zenon, <1>1, <2>1, NotesWorkHub, HubShrinks, DisconnectKeepsHub, JoinKeepsHub
<1>2. CASE AttachmentsWork
  <2>1. UNCHANGED <<conns, hub>>
    BY Zenon, <1>2 DEF AttachmentsWork, UploadRead, DetachRead, AdminDetach, AttachmentStep,
       UploadTemp, UploadRename, CreateNoteAttachmentAndSaveNote, AdminReadsNote,
       DeleteNoteAttachmentAndSaveNote, Unlink, pruneStart, pruneFile, pruneEnd, maintenanceEnds,
       FileAges, noteVars
  <2> QED
    BY Zenon, <1>2, <2>1, AttachmentsWorkKeeps, HubShrinks
<1>3. CASE HomeSyncWork
  <2>1. CASE SyncStep
    <3>1. UNCHANGED <<conns, hub>>
      BY Zenon, <2>1 DEF SyncStep, ManifestFails, ManifestRead, ListRead, SyncNote, SyncExtra,
         PullFetch, PullSaveRead, PullSaveWrite, PullOwned, PullMembers, PullShare, PullUpsert, SyncEnd, noteVars
    <3> QED
      BY Zenon, <1>3, <3>1, HomeSyncWorkKeeps, NotesGoIsCallsStep, HubShrinks
  <2>2. CASE ~SyncStep
    <3>1. UNCHANGED <<conns, hub>>
      BY Zenon, <1>3, <2>2 DEF HomeSyncWork, scheduleHomeSync, AgentConnects, AgentDisconnects,
         LocalEdit, LocalRemove
    <3> QED
      BY Zenon, <1>3, <3>1, HomeSyncWorkKeeps, NotesGoIsCallsStep, HubShrinks
  <2> QED
    BY Zenon, <2>1, <2>2
<1>4. CASE Restart
  BY Zenon, <1>4 DEF Restart, Idle, HubInv, HubHoldsOpenConnections, JoinsAreOpen
<1>5. CASE UNCHANGED recordsVars
  BY Zenon, <1>5 DEF recordsVars, noteVars, HubInv, HubHoldsOpenConnections, JoinsAreOpen
<1> QED
  BY Zenon, <1>1, <1>2, <1>3, <1>4, <1>5 DEF RecordsNext, RestartFiles

\* The hub never holds a session of a closed connection: a join that was
\* decided before other connections came and went, and the closing of a
\* connection that shares its login session with another, leave none behind
\* (noteCollaborationHub.join, removeApp).
THEOREM HubHolds == RecordsSpec => []HubHoldsOpenConnections
<1>1. RecordsInit => HubInv
  BY DEF RecordsInit, NotesInit, Idle, HubInv, HubHoldsOpenConnections, JoinsAreOpen
<1>2. NotesInv /\ HubInv /\ [RecordsNext]_recordsVars => (NotesInv /\ HubInv)'
  BY Zenon, NotesInvNext, HubInvNext
<1>3. NotesInv /\ HubInv => HubHoldsOpenConnections
  BY Zenon DEF HubInv
<1> QED
  BY <1>1, <1>2, <1>3, NotesInvInit, PTL DEF RecordsSpec
-----------------------------------------------------------------------------
(***************************************************************************)
(* Attachments and their files.  An identifier is in one hand at a time: in *)
(* a request still to come, in one upload, or in a row.  No upload has an   *)
(* old file, and what pruning may still remove is not live.                 *)
(***************************************************************************)
InUpload(c) == c.pc \in {"upload", "named", "attach"}
Coming == {r.att : r \in {q \in left : q.kind = "upload"}}
AllFiles == files \cup prune.todo

OneHand ==
    /\ \A r, q \in left : r.kind = "upload" /\ q.kind = "upload" /\ r.att = q.att => r = q
    /\ \A h \in Handlers : InUpload(handlers[h]) =>
         handlers[h].att \notin DOMAIN atts /\ handlers[h].att \notin Coming
    /\ \A h, g \in Handlers :
         InUpload(handlers[h]) /\ InUpload(handlers[g]) /\ handlers[h].att = handlers[g].att => h = g
    /\ \A a \in DOMAIN atts : a \notin Coming

FilesShape ==
    /\ DOMAIN prune = {"pc", "live", "todo"}
    /\ \A f \in AllFiles : DOMAIN f = {"att", "tmp", "old"} /\ f.att \notin Coming

YoungUploads == \A f \in AllFiles, h \in Handlers : f.old /\ InUpload(handlers[h]) => f.att # handlers[h].att

FileInPlace == \A h \in Handlers : handlers[h].pc = "attach" => File(handlers[h].att, FALSE) \in files

UnlinksDead == \A h \in Handlers : handlers[h].pc = "unlink" => handlers[h].att \notin Live /\ handlers[h].att \in DOMAIN atts

PrunesDead == \A f \in prune.todo : prunable(f) /\ ~f.tmp => f.att \notin Live

FilesInv ==
    OneHand /\ FilesShape /\ YoungUploads /\ FileInPlace /\ UnlinksDead /\ PrunesDead /\ LiveAttachmentsHaveFiles

\* A step of a request that has no file in hand.
NoFileInHand == \A h \in Handlers : handlers'[h] = handlers[h] \/ handlers'[h].pc \notin Filing

LEMMA NoFileKeepsFiles ==
    ASSUME FilesInv, NoFileInHand, left' \subseteq left, UNCHANGED attVars
    PROVE  FilesInv'
<1>1. Coming' \subseteq Coming
  BY Zenon DEF Coming
<1>2. UNCHANGED <<atts, files, prune>> /\ UNCHANGED Live /\ UNCHANGED AllFiles
  BY Zenon DEF attVars, Live, AllFiles
<1>3. \A h \in Handlers : \/ handlers'[h] = handlers[h]
                          \/ ~InUpload(handlers'[h]) /\ handlers'[h].pc \notin {"attach", "unlink"}
  BY Zenon DEF NoFileInHand, Filing, InUpload
<1>4. OneHand'
  BY Zenon, <1>1, <1>2, <1>3 DEF FilesInv, OneHand
<1>5. FilesShape' /\ PrunesDead' /\ LiveAttachmentsHaveFiles'
  BY Zenon, <1>1, <1>2 DEF FilesInv, FilesShape, PrunesDead, prunable, LiveAttachmentsHaveFiles
<1>6. YoungUploads' /\ FileInPlace' /\ UnlinksDead'
  BY Zenon, <1>2, <1>3 DEF FilesInv, YoungUploads, FileInPlace, UnlinksDead
<1> QED
  BY Zenon, <1>4, <1>5, <1>6 DEF FilesInv

\* The same with the pruning run cut short.
LEMMA RestartKeepsFiles ==
    ASSUME FilesInv, RestartFiles
    PROVE  FilesInv'
<1>1. Coming' \subseteq Coming
  BY Zenon DEF RestartFiles, Restart, Happens, Coming
<1>2. \A h \in Handlers : handlers'[h].pc = "idle"
  BY Zenon DEF RestartFiles, Restart, Idle
<1>3. UNCHANGED <<atts, files>> /\ UNCHANGED Live /\ AllFiles' = files /\ prune'.todo = {}
  BY Zenon DEF RestartFiles, Live, AllFiles, NoPrune
<1>4. OneHand'
  BY Zenon, <1>1, <1>2, <1>3 DEF FilesInv, OneHand, InUpload, RestartFiles, Restart, Happens
<1>5. FilesShape'
  BY Zenon, <1>1, <1>3 DEF FilesInv, FilesShape, AllFiles, RestartFiles, NoPrune
<1>6. YoungUploads' /\ FileInPlace' /\ UnlinksDead'
  BY Zenon, <1>2 DEF YoungUploads, FileInPlace, UnlinksDead, InUpload
<1>7. PrunesDead' /\ LiveAttachmentsHaveFiles'
  BY Zenon, <1>3 DEF FilesInv, PrunesDead, LiveAttachmentsHaveFiles
<1> QED
  BY Zenon, <1>4, <1>5, <1>6, <1>7 DEF FilesInv

LEMMA NotesGoHasNoFile == NotesGo => NoFileInHand
  BY Zenon DEF NotesGo, NoFileInHand

LEMMA OneHandler ==
    ASSUME CallsInv, NEW h, NEW c, Goes(h, c)
    PROVE  /\ \A g \in Handlers : g # h => handlers'[g] = handlers[g]
           /\ h \in Handlers => handlers'[h] = c
  BY Zenon DEF CallsInv, Goes

LEMMA PruneStartKeepsFiles ==
    ASSUME FilesInv, pruneStart
    PROVE  FilesInv'
<1>1. /\ UNCHANGED <<atts, files, handlers, left>> /\ UNCHANGED <<Live, Coming>>
      /\ DOMAIN prune' = {"pc", "live", "todo"} /\ prune'.todo = files /\ prune'.live = Live
      /\ AllFiles' = files
  BY Zenon DEF pruneStart, noteVars, ListLiveNoteAttachmentStorageKeys, Live, Coming, AllFiles
<1>2. OneHand' /\ FileInPlace' /\ UnlinksDead' /\ LiveAttachmentsHaveFiles'
  BY Zenon, <1>1 DEF FilesInv, OneHand, FileInPlace, UnlinksDead, LiveAttachmentsHaveFiles
<1>3. FilesShape' /\ YoungUploads'
  BY Zenon, <1>1 DEF FilesInv, FilesShape, YoungUploads, AllFiles
<1>4. PrunesDead'
  BY Zenon, <1>1 DEF PrunesDead, prunable
<1> QED
  BY Zenon, <1>2, <1>3, <1>4 DEF FilesInv

LEMMA PruneFileKeepsFiles ==
    ASSUME FilesInv, pruneFile
    PROVE  FilesInv'
<1>1. PICK f \in prune.todo : /\ files' = IF prunable(f) THEN files \ {f} ELSE files
                              /\ prune' = [prune EXCEPT !.todo = @ \ {f}]
  BY Zenon DEF pruneFile
<1>2. /\ UNCHANGED <<atts, handlers, left>> /\ UNCHANGED <<Live, Coming>>
      /\ DOMAIN prune' = {"pc", "live", "todo"} /\ prune'.todo = prune.todo \ {f} /\ prune'.live = prune.live
      /\ AllFiles' \subseteq AllFiles
  BY Zenon, <1>1 DEF pruneFile, noteVars, Live, Coming, AllFiles, FilesInv, FilesShape
<1>3. OneHand' /\ UnlinksDead'
  BY Zenon, <1>2 DEF FilesInv, OneHand, UnlinksDead
<1>4. FilesShape' /\ YoungUploads'
  BY Zenon, <1>2 DEF FilesInv, FilesShape, YoungUploads
<1>5. PrunesDead'
  BY Zenon, <1>2 DEF FilesInv, PrunesDead, prunable
<1>6. FileInPlace'
  <2>1. \A a : prunable(f) => f # File(a, FALSE)
    BY DEF prunable, File
  <2> QED
    BY Zenon, <1>1, <1>2, <2>1 DEF FilesInv, FileInPlace
<1>7. LiveAttachmentsHaveFiles'
  BY <1>1, <1>2 DEF FilesInv, LiveAttachmentsHaveFiles, PrunesDead
<1> QED
  BY Zenon, <1>3, <1>4, <1>5, <1>6, <1>7 DEF FilesInv

LEMMA PruneEndKeepsFiles ==
    ASSUME FilesInv, pruneEnd \/ maintenanceEnds
    PROVE  FilesInv'
<1>1. /\ UNCHANGED <<atts, files, handlers, left>> /\ UNCHANGED <<Live, Coming>>
      /\ DOMAIN prune' = {"pc", "live", "todo"} /\ prune'.todo = {} /\ AllFiles' = files
  <2>1. UNCHANGED <<atts, files, handlers, left>> /\ (prune' = NoPrune \/ prune' = LoopOver)
    BY Zenon DEF pruneEnd, maintenanceEnds, noteVars
  <2>2. DOMAIN NoPrune = {"pc", "live", "todo"} /\ NoPrune.todo = {}
    BY Zenon DEF NoPrune
  <2>3. DOMAIN LoopOver = {"pc", "live", "todo"} /\ LoopOver.todo = {}
    BY Zenon, <2>2 DEF LoopOver
  <2> QED
    BY Zenon, <2>1, <2>2, <2>3 DEF Live, Coming, AllFiles
<1>2. OneHand' /\ FileInPlace' /\ UnlinksDead' /\ LiveAttachmentsHaveFiles'
  BY Zenon, <1>1 DEF FilesInv, OneHand, FileInPlace, UnlinksDead, LiveAttachmentsHaveFiles
<1>3. FilesShape' /\ YoungUploads' /\ PrunesDead'
  BY Zenon, <1>1 DEF FilesInv, FilesShape, YoungUploads, AllFiles, PrunesDead
<1> QED
  BY Zenon, <1>2, <1>3 DEF FilesInv

LEMMA FileAgesKeepsFiles ==
    ASSUME FilesInv, NEW f \in files, FileAges(f)
    PROVE  FilesInv'
<1> DEFINE g == [f EXCEPT !.old = TRUE]
<1>1. /\ UNCHANGED <<atts, prune, handlers, left>> /\ UNCHANGED <<Live, Coming>>
      /\ files' = (files \ {f}) \cup {g}
  BY Zenon DEF FileAges, noteVars, Live, Coming
<1>2. DOMAIN g = {"att", "tmp", "old"} /\ g.att = f.att /\ g.tmp = f.tmp
  BY Zenon DEF FilesInv, FilesShape, AllFiles
<1>3. \A h \in Handlers : InUpload(handlers[h]) => handlers[h].att # f.att
  BY Zenon DEF FileAges, Uploading, InUpload
<1> HIDE DEF g
<1>4. AllFiles' \subseteq AllFiles \cup {g} /\ f \in AllFiles
  BY Zenon, <1>1 DEF AllFiles
<1>5. OneHand' /\ UnlinksDead' /\ PrunesDead'
  BY Zenon, <1>1 DEF FilesInv, OneHand, UnlinksDead, PrunesDead, prunable
<1>6. FilesShape'
  BY Zenon, <1>1, <1>2, <1>4 DEF FilesInv, FilesShape
<1>7. YoungUploads'
  BY Zenon, <1>1, <1>2, <1>3, <1>4 DEF FilesInv, YoungUploads
<1>8. FileInPlace'
  <2>1. \A h \in Handlers : handlers[h].pc = "attach" => f # File(handlers[h].att, FALSE)
    BY <1>3 DEF InUpload, File
  <2> QED
    BY Zenon, <1>1, <2>1 DEF FilesInv, FileInPlace
<1>9. LiveAttachmentsHaveFiles'
  BY Zenon, <1>1, <1>2 DEF FilesInv, LiveAttachmentsHaveFiles
<1> QED
  BY Zenon, <1>5, <1>6, <1>7, <1>8, <1>9 DEF FilesInv

LEMMA UploadReadKeepsFiles ==
    ASSUME NotesInv, FilesInv, NEW r, UploadRead(r)
    PROVE  FilesInv'
<1>1. PICK i : Goes(r.via, [pc |-> "upload", scope |-> r.scope, id |-> i, note |-> rows[i], att |-> r.att])
  BY Zenon DEF UploadRead
<1>2. /\ \A g \in Handlers : g # r.via => handlers'[g] = handlers[g]
      /\ r.via \in Handlers => handlers'[r.via].pc = "upload" /\ handlers'[r.via].att = r.att
  <2> DEFINE c == [pc |-> "upload", scope |-> r.scope, id |-> i, note |-> rows[i], att |-> r.att]
  <2>1. c.pc = "upload" /\ c.att = r.att
    OBVIOUS
  <2> HIDE DEF c
  <2>2. Goes(r.via, c)
    BY Zenon, <1>1 DEF c
  <2> QED
    BY Zenon, <2>1, <2>2, OneHandler DEF NotesInv
<1>3. /\ UNCHANGED <<atts, files, prune>> /\ UNCHANGED <<Live, AllFiles>>
      /\ r \in left /\ r.kind = "upload" /\ left' = left \ {r}
  BY Zenon DEF UploadRead, Arrives, attVars, Live, AllFiles
<1>4. r.att \in Coming /\ Coming' \subseteq Coming /\ r.att \notin Coming'
  BY Zenon, <1>3 DEF Coming, FilesInv, OneHand
<1>5. OneHand'
  <2>1. \A p, q \in left' : p.kind = "upload" /\ q.kind = "upload" /\ p.att = q.att => p = q
    BY Zenon, <1>3 DEF FilesInv, OneHand
  <2>2. \A h \in Handlers : InUpload(handlers'[h]) =>
          handlers'[h].att \notin DOMAIN atts' /\ handlers'[h].att \notin Coming'
    BY Zenon, <1>2, <1>3, <1>4 DEF FilesInv, OneHand
  <2>3. \A h \in Handlers : h # r.via /\ InUpload(handlers'[h]) => handlers'[h].att # r.att
    BY Zenon, <1>2, <1>4 DEF FilesInv, OneHand
  <2>4. \A h, g \in Handlers :
          InUpload(handlers'[h]) /\ InUpload(handlers'[g]) /\ handlers'[h].att = handlers'[g].att => h = g
    BY Zenon, <1>2, <2>3 DEF FilesInv, OneHand
  <2>5. \A a \in DOMAIN atts' : a \notin Coming'
    BY Zenon, <1>3, <1>4 DEF FilesInv, OneHand
  <2> QED
    BY Zenon, <2>1, <2>2, <2>4, <2>5 DEF OneHand, InUpload
<1>6. FilesShape' /\ PrunesDead' /\ LiveAttachmentsHaveFiles'
  BY Zenon, <1>3, <1>4 DEF FilesInv, FilesShape, PrunesDead, prunable, LiveAttachmentsHaveFiles
<1>7. YoungUploads'
  BY <1>2, <1>3, <1>4 DEF FilesInv, FilesShape, YoungUploads, InUpload
<1>8. FileInPlace' /\ UnlinksDead'
  BY Zenon, <1>2, <1>3 DEF FilesInv, FileInPlace, UnlinksDead
<1> QED
  BY Zenon, <1>5, <1>6, <1>7, <1>8 DEF FilesInv

\* The next step of an upload, or its end.
LEMMA UploadGoesOn ==
    ASSUME NotesInv, OneHand, NEW h \in Handlers, InUpload(handlers[h]), UNCHANGED <<atts, left>>,
           NEW pc \in {"named", "attach"}, Goes(h, [handlers[h] EXCEPT !.pc = pc]) \/ Done(h)
    PROVE  /\ OneHand' /\ UNCHANGED <<Live, Coming>>
           /\ \A g \in Handlers : g # h => handlers'[g] = handlers[g]
           /\ \A g \in Handlers : InUpload(handlers'[g]) => InUpload(handlers[g]) /\ handlers'[g].att = handlers[g].att
           /\ handlers'[h].pc \in {pc, "idle"}
<1> DEFINE c == [handlers[h] EXCEPT !.pc = pc]
<1>1. c.pc = pc /\ c.att = handlers[h].att
  BY Zenon, AttachmentCall DEF InUpload, UploadFields
<1> HIDE DEF c
<1>2. Idle.pc = "idle"
  BY Zenon DEF Idle
<1>3. handlers'[h] = c \/ handlers'[h] = Idle
  BY Zenon, OneHandler DEF Done, c, NotesInv
<1>4. \A g \in Handlers : g # h => handlers'[g] = handlers[g]
  BY Zenon, OneHandler DEF Done, NotesInv
<1>5. \A g \in Handlers : InUpload(handlers'[g]) => InUpload(handlers[g]) /\ handlers'[g].att = handlers[g].att
  BY Zenon, <1>1, <1>2, <1>3, <1>4 DEF InUpload
<1>6. UNCHANGED <<Live, Coming>>
  BY Zenon DEF Live, Coming
<1>7. OneHand'
  BY Zenon, <1>5, <1>6 DEF OneHand
<1> QED
  BY Zenon, <1>1, <1>2, <1>3, <1>4, <1>5, <1>6, <1>7

LEMMA UploadTempKeepsFiles ==
    ASSUME NotesInv, FilesInv, NEW h \in Handlers, UploadTemp(h)
    PROVE  FilesInv'
<1> DEFINE f == File(handlers[h].att, TRUE)
<1>1. f.att = handlers[h].att /\ DOMAIN f = {"att", "tmp", "old"} /\ ~f.old
  BY Zenon DEF File
<1> HIDE DEF f
<1>2. InUpload(handlers[h]) /\ UNCHANGED <<atts, left, prune>> /\ files' = files \cup {f}
  BY Zenon DEF UploadTemp, InUpload, f
<1>3. /\ OneHand' /\ UNCHANGED <<Live, Coming>>
      /\ \A g \in Handlers : g # h => handlers'[g] = handlers[g]
      /\ \A g \in Handlers : InUpload(handlers'[g]) => InUpload(handlers[g]) /\ handlers'[g].att = handlers[g].att
      /\ handlers'[h].pc \in {"named", "idle"}
  BY Zenon, <1>2, UploadGoesOn DEF UploadTemp, FilesInv
<1>4. AllFiles' = AllFiles \cup {f}
  BY Zenon, <1>2 DEF AllFiles
<1>5. FilesShape'
  BY Zenon, <1>1, <1>2, <1>3, <1>4 DEF FilesInv, FilesShape, OneHand
<1>6. YoungUploads'
  BY <1>1, <1>3, <1>4 DEF FilesInv, YoungUploads
<1>7. PrunesDead' /\ LiveAttachmentsHaveFiles'
  BY Zenon, <1>2, <1>3 DEF FilesInv, PrunesDead, prunable, LiveAttachmentsHaveFiles
<1>8. FileInPlace' /\ UnlinksDead'
  BY Zenon, <1>2, <1>3 DEF FilesInv, FileInPlace, UnlinksDead
<1> QED
  BY Zenon, <1>3, <1>5, <1>6, <1>7, <1>8 DEF FilesInv

LEMMA UploadRenameKeepsFiles ==
    ASSUME NotesInv, FilesInv, NEW h \in Handlers, UploadRename(h)
    PROVE  FilesInv'
<1> DEFINE t == File(handlers[h].att, TRUE)
           f == File(handlers[h].att, FALSE)
<1>1. f.att = handlers[h].att /\ DOMAIN f = {"att", "tmp", "old"} /\ ~f.old /\ t.tmp /\ \A a : t # File(a, FALSE)
  BY Zenon DEF File
<1> HIDE DEF f, t
<1>2. InUpload(handlers[h]) /\ UNCHANGED <<atts, left, prune>>
  BY Zenon DEF UploadRename, InUpload
<1>3. \/ files' = files \ {t} /\ Done(h)
      \/ files' = (files \ {t}) \cup {f} /\ (Done(h) \/ Goes(h, [handlers[h] EXCEPT !.pc = "attach"]))
  BY Zenon DEF UploadRename, f, t
<1>4. /\ OneHand' /\ UNCHANGED <<Live, Coming>>
      /\ \A g \in Handlers : g # h => handlers'[g] = handlers[g]
      /\ \A g \in Handlers : InUpload(handlers'[g]) => InUpload(handlers[g]) /\ handlers'[g].att = handlers[g].att
      /\ handlers'[h].pc \in {"attach", "idle"}
  BY Zenon, <1>2, <1>3, UploadGoesOn DEF FilesInv
<1>5. AllFiles' \subseteq AllFiles \cup {f} /\ files \ {t} \subseteq files'
  BY Zenon, <1>2, <1>3 DEF AllFiles
<1>6. FilesShape'
  BY Zenon, <1>1, <1>2, <1>4, <1>5 DEF FilesInv, FilesShape, OneHand
<1>7. YoungUploads'
  BY <1>1, <1>4, <1>5 DEF FilesInv, YoungUploads
<1>8. PrunesDead' /\ LiveAttachmentsHaveFiles'
  BY Zenon, <1>1, <1>2, <1>4, <1>5 DEF FilesInv, PrunesDead, prunable, LiveAttachmentsHaveFiles
<1>9. handlers'[h].pc = "attach" => f \in files' /\ handlers'[h].att = handlers[h].att
  <2>1. Done(h) => handlers'[h].pc = "idle"
    BY OneHandler DEF Done, Idle, NotesInv
  <2> QED
    BY Zenon, <1>3, <1>4, <2>1 DEF InUpload
<1>10. FileInPlace'
  BY Zenon, <1>1, <1>4, <1>5, <1>9 DEF FilesInv, FileInPlace, f
<1>11. UnlinksDead'
  BY Zenon, <1>2, <1>4 DEF FilesInv, UnlinksDead
<1> QED
  BY Zenon, <1>4, <1>6, <1>7, <1>8, <1>10, <1>11 DEF FilesInv

LEMMA CreateKeepsFiles ==
    ASSUME NotesInv, FilesInv, NEW h \in Handlers, CreateNoteAttachmentAndSaveNote(h)
    PROVE  FilesInv'
<1> DEFINE a == handlers[h].att
           f == File(a, FALSE)
           i == handlers[h].id
<1>1. f.att = a /\ ~f.tmp
  BY Zenon DEF File
<1> HIDE DEF f
<1>2. /\ handlers[h].pc = "attach" /\ InUpload(handlers[h]) /\ UNCHANGED <<left, prune>> /\ UNCHANGED Coming
      /\ f \in files /\ a \notin DOMAIN atts
  BY Zenon DEF CreateNoteAttachmentAndSaveNote, InUpload, Coming, FilesInv, FileInPlace, OneHand, f
<1>3. /\ \A g \in Handlers : g # h => handlers'[g] = handlers[g]
      /\ handlers'[h].pc = "idle"
  BY OneHandler DEF CreateNoteAttachmentAndSaveNote, Done, Idle, NotesInv
<1>4. \A g \in Handlers : InUpload(handlers'[g]) => /\ InUpload(handlers[g]) /\ handlers'[g] = handlers[g]
                                                   /\ handlers[g].att # a
  BY Zenon, <1>2, <1>3 DEF InUpload, FilesInv, OneHand
<1>5. CASE /\ UNCHANGED files
           /\ atts' = [b \in DOMAIN atts \cup {a} |-> IF b = a THEN [note |-> i, deleted |-> FALSE] ELSE atts[b]]
  <2>1. DOMAIN atts' = DOMAIN atts \cup {a} /\ \A b \in DOMAIN atts : atts'[b] = atts[b]
    BY Zenon, <1>2, <1>5
  <2>2. Live' \subseteq Live \cup {a}
    BY Zenon, <2>1 DEF Live
  <2>3. UNCHANGED AllFiles
    BY Zenon, <1>2, <1>5 DEF AllFiles
  <2>4. OneHand'
    BY Zenon, <1>2, <1>4, <2>1 DEF FilesInv, OneHand
  <2>5. FilesShape' /\ YoungUploads'
    BY <1>2, <1>4, <2>3 DEF FilesInv, FilesShape, YoungUploads
  <2>6. FileInPlace'
    BY Zenon, <1>3, <1>5 DEF FilesInv, FileInPlace
  <2>7. UnlinksDead'
    BY Zenon, <1>2, <1>3, <2>1, <2>2 DEF FilesInv, UnlinksDead
  <2>8. PrunesDead'
    <3>1. \A g \in prune.todo : g.old => g.att # a
      BY Zenon, <1>2 DEF FilesInv, YoungUploads, AllFiles
    <3> QED
      BY Zenon, <1>2, <2>2, <3>1 DEF FilesInv, PrunesDead, prunable
  <2>9. LiveAttachmentsHaveFiles'
    BY Zenon, <1>1, <1>2, <1>5, <2>2 DEF FilesInv, LiveAttachmentsHaveFiles
  <2> QED
    BY Zenon, <2>4, <2>5, <2>6, <2>7, <2>8, <2>9 DEF FilesInv
<1>6. CASE files' = files \ {f} /\ UNCHANGED atts
  <2>1. UNCHANGED Live /\ AllFiles' \subseteq AllFiles
    BY Zenon, <1>2, <1>6 DEF Live, AllFiles
  <2>2. OneHand'
    BY Zenon, <1>2, <1>4, <1>6 DEF FilesInv, OneHand
  <2>3. FilesShape' /\ YoungUploads'
    BY <1>2, <1>4, <2>1 DEF FilesInv, FilesShape, YoungUploads
  <2>4. FileInPlace'
    <3>1. \A b : b # a => File(b, FALSE) # f
      BY <1>1 DEF File
    <3> QED
      BY Zenon, <1>3, <1>4, <1>6, <3>1 DEF FilesInv, FileInPlace, InUpload
  <2>5. UnlinksDead'
    BY Zenon, <1>3, <1>6, <2>1 DEF FilesInv, UnlinksDead
  <2>6. PrunesDead'
    BY Zenon, <1>2, <2>1 DEF FilesInv, PrunesDead, prunable
  <2>7. LiveAttachmentsHaveFiles'
    BY <1>1, <1>2, <1>6, <2>1 DEF FilesInv, LiveAttachmentsHaveFiles, Live
  <2> QED
    BY Zenon, <2>2, <2>3, <2>4, <2>5, <2>6, <2>7 DEF FilesInv
<1> QED
  BY Zenon, <1>5, <1>6 DEF CreateNoteAttachmentAndSaveNote, f

LEMMA DeleteKeepsFiles ==
    ASSUME NotesInv, FilesInv, NEW h \in Handlers, DeleteNoteAttachmentAndSaveNote(h)
    PROVE  FilesInv'
<1> DEFINE a == handlers[h].att
           c == [handlers[h] EXCEPT !.pc = "unlink"]
<1>1. UNCHANGED <<files, prune, left>> /\ UNCHANGED <<AllFiles, Coming>> /\ handlers[h].pc = "detach"
  BY Zenon DEF DeleteNoteAttachmentAndSaveNote, AllFiles, Coming
<1>2. CASE Done(h) /\ UNCHANGED atts
  <2>1. NoFileInHand
    BY Zenon, <1>2, NotesFinish, NotesGoHasNoFile DEF NotesInv
  <2> QED
    BY Zenon, <1>1, <1>2, <2>1, NoFileKeepsFiles DEF attVars
<1>3. CASE a \in Live /\ atts' = [atts EXCEPT ![a].deleted = TRUE] /\ Goes(h, c)
  <2>1. c.pc = "unlink" /\ c.att = a
    BY Zenon, <1>1, AttachmentCall DEF UploadFields
  <2> HIDE DEF c
  <2>2. (\A g \in Handlers : g # h => handlers'[g] = handlers[g]) /\ handlers'[h].pc = "unlink" /\ handlers'[h].att = a
    BY Zenon, <1>3, <2>1, OneHandler DEF NotesInv
  <2>3. \A g \in Handlers : InUpload(handlers'[g]) => handlers'[g] = handlers[g] /\ InUpload(handlers[g])
    BY Zenon, <2>2 DEF InUpload
  <2>4. DOMAIN atts' = DOMAIN atts /\ a \in DOMAIN atts
    BY Zenon, <1>3 DEF Live
  <2>5. Live' \subseteq Live /\ a \notin Live'
    <3>1. \A b \in DOMAIN atts : b # a => atts'[b] = atts[b]
      BY Zenon, <1>3
    <3>2. a \notin Live'
      BY Zenon, <1>3, <2>4 DEF Live, NotesInv, AttsInv
    <3> QED
      BY Zenon, <2>4, <3>1, <3>2 DEF Live
  <2>6. OneHand'
    BY Zenon, <1>1, <2>3, <2>4 DEF FilesInv, OneHand
  <2>7. FilesShape' /\ YoungUploads'
    BY <1>1, <2>3 DEF FilesInv, FilesShape, YoungUploads
  <2>8. FileInPlace' /\ UnlinksDead'
    BY Zenon, <1>1, <2>2, <2>4, <2>5 DEF FilesInv, FileInPlace, UnlinksDead
  <2>9. PrunesDead' /\ LiveAttachmentsHaveFiles'
    BY Zenon, <1>1, <2>5 DEF FilesInv, PrunesDead, prunable, LiveAttachmentsHaveFiles
  <2> QED
    BY Zenon, <2>6, <2>7, <2>8, <2>9 DEF FilesInv
<1> QED
  BY Zenon, <1>2, <1>3 DEF DeleteNoteAttachmentAndSaveNote

LEMMA UnlinkKeepsFiles ==
    ASSUME NotesInv, FilesInv, NEW h \in Handlers, Unlink(h)
    PROVE  FilesInv'
<1> DEFINE a == handlers[h].att
<1>1. /\ UNCHANGED <<atts, prune, left>> /\ UNCHANGED <<Live, Coming>>
      /\ files' \subseteq files /\ \A f \in files : f.tmp \/ f.att # a => f \in files'
      /\ AllFiles' \subseteq AllFiles /\ a \notin Live /\ a \in DOMAIN atts
  BY Zenon DEF Unlink, Live, Coming, AllFiles, FilesInv, UnlinksDead
<1>2. NoFileInHand
  BY Zenon, NotesFinish, NotesGoHasNoFile DEF Unlink, NotesInv
<1>3. \A g \in Handlers : \/ handlers'[g] = handlers[g]
                          \/ ~InUpload(handlers'[g]) /\ handlers'[g].pc \notin {"attach", "unlink"}
  BY Zenon, <1>2 DEF NoFileInHand, Filing, InUpload
<1>4. OneHand'
  BY Zenon, <1>1, <1>3 DEF FilesInv, OneHand
<1>5. FilesShape' /\ YoungUploads'
  BY Zenon, <1>1, <1>3 DEF FilesInv, FilesShape, YoungUploads
<1>6. FileInPlace'
  <2>1. \A g \in Handlers : handlers[g].pc = "attach" => handlers[g].att # a
    BY Zenon, <1>1 DEF FilesInv, OneHand, InUpload
  <2>2. \A b : File(b, FALSE).att = b
    BY Zenon DEF File
  <2> QED
    BY Zenon, <1>1, <1>3, <2>1, <2>2 DEF FilesInv, FileInPlace
<1>7. UnlinksDead' /\ PrunesDead' /\ LiveAttachmentsHaveFiles'
  BY Zenon, <1>1, <1>3 DEF FilesInv, UnlinksDead, PrunesDead, prunable, LiveAttachmentsHaveFiles
<1> QED
  BY Zenon, <1>4, <1>5, <1>6, <1>7 DEF FilesInv

LEMMA AttachmentsWorkKeepsFiles ==
    ASSUME NotesInv, FilesInv, AttachmentsWork
    PROVE  FilesInv'
<1>1. ASSUME NEW r, DetachRead(r)
      PROVE  FilesInv'
  <2>1. PICK i : Goes(r.via, [pc |-> "detach", scope |-> r.scope, id |-> i, note |-> rows[i], att |-> r.att])
    BY Zenon, <1>1 DEF DetachRead
  <2> DEFINE c == [pc |-> "detach", scope |-> r.scope, id |-> i, note |-> rows[i], att |-> r.att]
  <2>2. c.pc \notin Filing
    BY Zenon DEF Filing
  <2> HIDE DEF c
  <2>3. NoFileInHand
    BY Zenon, <2>1, <2>2, OneHandler DEF NoFileInHand, c, NotesInv
  <2> QED
    BY Zenon, <1>1, <2>3, NoFileKeepsFiles DEF DetachRead, Arrives
<1>2. ASSUME NEW r, AdminDetach(r)
      PROVE  FilesInv'
  <2> DEFINE c == [pc |-> "admin", att |-> r.att,
                   scope |-> IF rows[atts[r.att].note].home THEN "home" ELSE "profile"]
  <2>1. c.pc \notin Filing
    BY Zenon DEF Filing
  <2> HIDE DEF c
  <2>2. Goes(r.via, c)
    BY Zenon, <1>2 DEF AdminDetach, c
  <2>3. NoFileInHand
    BY Zenon, <2>1, <2>2, OneHandler DEF NoFileInHand, NotesInv
  <2> QED
    BY Zenon, <1>2, <2>3, NoFileKeepsFiles DEF AdminDetach, Arrives
<1>3. ASSUME NEW h \in Handlers, AdminReadsNote(h)
      PROVE  FilesInv'
  <2> DEFINE i == atts[handlers[h].att].note
             c == [pc |-> "detach", scope |-> handlers[h].scope, id |-> i, note |-> rows[i], att |-> handlers[h].att]
  <2>1. c.pc \notin Filing
    BY Zenon DEF Filing
  <2> HIDE DEF c
  <2>2. Goes(h, c)
    BY Zenon, <1>3 DEF AdminReadsNote, c
  <2>3. NoFileInHand
    BY Zenon, <2>1, <2>2, OneHandler DEF NoFileInHand, NotesInv
  <2> QED
    BY Zenon, <1>3, <2>3, NoFileKeepsFiles DEF AdminReadsNote
<1> QED
  BY <1>1, <1>2, <1>3, UploadReadKeepsFiles, UploadTempKeepsFiles, UploadRenameKeepsFiles, CreateKeepsFiles,
     DeleteKeepsFiles, UnlinkKeepsFiles, PruneStartKeepsFiles, PruneFileKeepsFiles, PruneEndKeepsFiles,
     FileAgesKeepsFiles DEF AttachmentsWork, AttachmentStep, Handlers

LEMMA FilesInvInit == RecordsInit => FilesInv
<1> SUFFICES ASSUME RecordsInit PROVE FilesInv
  OBVIOUS
<1>1. PICK s \in Scenarios : left = s.left
  BY Zenon DEF RecordsInit, NotesInit
<1>2. atts = <<>> /\ files = {} /\ prune.todo = {} /\ DOMAIN prune = {"pc", "live", "todo"}
  BY Zenon DEF RecordsInit, AttachmentsInit, NoPrune
<1>3. DOMAIN atts = {} /\ Live = {} /\ AllFiles = {}
  BY <1>2 DEF Live, AllFiles
<1>4. \A h \in Handlers : handlers[h].pc = "idle"
  BY Zenon DEF RecordsInit, NotesInit, Idle
<1>5. OneHand
  BY Zenon, <1>1, <1>3, <1>4, UploadsAssumption DEF OneHand, InUpload
<1>6. FilesShape /\ YoungUploads /\ FileInPlace /\ UnlinksDead /\ PrunesDead /\ LiveAttachmentsHaveFiles
  BY Zenon, <1>2, <1>3, <1>4 DEF FilesShape, YoungUploads, FileInPlace, UnlinksDead, PrunesDead,
     LiveAttachmentsHaveFiles
<1> QED
  BY Zenon, <1>5, <1>6 DEF FilesInv

LEMMA FilesInvNext ==
    ASSUME NotesInv, FilesInv, [RecordsNext]_recordsVars
    PROVE  FilesInv'
<1>1. CASE NotesWork /\ UNCHANGED <<attVars, homeSyncVars>>
  BY Zenon, <1>1, NotesWorkKeeps, NotesGoHasNoFile, NoFileKeepsFiles
<1>2. CASE HomeSyncWork /\ UNCHANGED attVars
  BY Zenon, <1>2, HomeSyncWorkKeeps, NotesGoHasNoFile, NoFileKeepsFiles
<1>3. CASE UNCHANGED recordsVars
  <2>1. NoFileInHand /\ left' \subseteq left /\ UNCHANGED attVars
    BY Zenon, <1>3 DEF recordsVars, noteVars, NoFileInHand
  <2> QED
    BY Zenon, <2>1, NoFileKeepsFiles
<1> QED
  BY Zenon, <1>1, <1>2, <1>3, AttachmentsWorkKeepsFiles, RestartKeepsFiles DEF RecordsNext

\* Every attachment that a note lists has its file, whatever uploads, deletes,
\* stops of the server and pruning runs interleave: the file is in place
\* before its row commits (CreateNoteAttachmentAndSaveNote), and what pruning
\* removes is older than the retention and was not live when the run began
\* (pruneNoteAttachmentFiles).
THEOREM AttachmentsHaveFiles == RecordsSpec => []LiveAttachmentsHaveFiles
<1>1. NotesInv /\ FilesInv /\ [RecordsNext]_recordsVars => (NotesInv /\ FilesInv)'
  BY Zenon, NotesInvNext, FilesInvNext
<1>2. NotesInv /\ FilesInv => LiveAttachmentsHaveFiles
  BY Zenon DEF FilesInv
<1> QED
  BY <1>1, <1>2, NotesInvInit, FilesInvInit, PTL DEF RecordsSpec
=============================================================================

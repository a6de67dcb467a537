----------------------------- MODULE CloudNotes -----------------------------
(***************************************************************************)
(* The notes of a home in the cloud: the rows of user_notes with the        *)
(* constraints and triggers that guard them, their shares and recorded      *)
(* operations, the notes service behind the HTTP routes and the app         *)
(* WebSocket, and the collaboration hub.                                    *)
(*                                                                         *)
(* A request reads a row in one step and writes it in a later one; nothing  *)
(* is locked in between.  HTTP requests run in Requests; an app connection  *)
(* handles one command at a time.  A body is the sequence of the marks that *)
(* edits left in it, a revision the tuple of what is hashed.  Titles, sort  *)
(* order, formats and the responses are left out.                           *)
(***************************************************************************)
EXTENDS Naturals, Sequences, FiniteSets

CONSTANTS
    HomeOwner,      \* Home.UserID
    Guests,         \* the other users
    Ids,            \* internal identifiers of rows
    Names,          \* requested identifier -> the ones generateNoteID tries in turn
    Requests,       \* handlers of HTTP requests
    Conns,          \* app connections
    SessionOf,      \* login session of a connection; two connections may share it
    UserOf,         \* user of a connection
    Operations,     \* collaboration operations: [id, kind, at, value]
    Scenarios       \* start rows, shares and agent state of a behaviour, and its requests

ASSUME IdsAssumption == 0 \notin Ids

VARIABLES
    rows,           \* user_notes: internal identifier -> row
    shares,         \* note_shares: row -> users it is shared with
    recorded,       \* note_operations: row -> operations that apps submitted
    members,        \* users with a membership of the home
    clock,          \* time of the last write
    handlers,       \* what each request and connection is doing
    conns,          \* open app connections
    hub,            \* noteCollaborationHub.byNote
    copies,         \* what each user last fetched: revision and body
    agentOnline,    \* the primary agent of the home is connected
    syncState,      \* home_note_sync_state: status and pending counts
    syncAsked,      \* scheduleHomeSync goroutines that have not started
    left            \* requests and events that may still come

dbVars == <<rows, shares, recorded, members, clock>>
syncVars == <<syncState, syncAsked>>
noteVars == <<rows, shares, recorded, members, clock, handlers, conns, hub, copies, agentOnline,
              syncState, syncAsked, left>>

Users == Guests \cup {HomeOwner}
Handlers == Requests \cup Conns
NoKey == ""
NoId == 0
NoRev == <<>>
Idle == [pc |-> "idle"]
Scopes == {"profile", "home"}
-----------------------------------------------------------------------------
(***************************************************************************)
(* Queries.                                                                 *)
(***************************************************************************)
GetProfileNote(user, key) == {i \in DOMAIN rows : rows[i].owner = user /\ rows[i].key = key}

GetHomeNoteByKey(key) == {i \in DOMAIN rows : rows[i].home /\ rows[i].key = key}

GetHomeNoteVisibleToUser(user, key) ==
    {i \in GetHomeNoteByKey(key) : rows[i].owner = user \/ user \in shares[i]}

GetOwnedHomeNote(user, key) == {i \in GetHomeNoteByKey(key) : rows[i].owner = user}

\* ListSyncedHomeNotes, with the deleted ones.
ListSyncedHomeNotes == {i \in DOMAIN rows : rows[i].home /\ shares[i] # {}}

resolveNote(scope, user, key) ==
    IF scope = "profile" THEN GetProfileNote(user, key) ELSE GetHomeNoteVisibleToUser(user, key)

findSharableNote(user, key) ==
    IF GetOwnedHomeNote(user, key) # {} THEN GetOwnedHomeNote(user, key) ELSE GetProfileNote(user, key)
-----------------------------------------------------------------------------
(***************************************************************************)
(* What the database refuses: two rows with one key, a pinned note outside  *)
(* a notebook, a parent that is not a live notebook of the owner, and the   *)
(* end of a notebook that still has live notes.                             *)
(***************************************************************************)
UniqueKeys(i, row) ==
    \A j \in DOMAIN rows \ {i} :
        rows[j].key = row.key => rows[j].owner # row.owner /\ ~(rows[j].home /\ row.home)

PinnedCheck(row) == row.pinned => row.parent # NoKey /\ row.type # "notebook"

validate_user_note_parent(row) ==
    \/ row.parent = NoKey
    \/ \E p \in GetProfileNote(row.owner, row.parent) :
         row.deleted \/ (row.parent # row.key /\ ~rows[p].deleted /\ rows[p].type = "notebook")

\* Mutant: a notebook is only protected against deletion.
protectOnlyDeletion(i, row) ==
    i \in DOMAIN rows /\ ~rows[i].deleted /\ rows[i].type = "notebook" /\ row.deleted =>
        \A c \in DOMAIN rows :
            rows[c].owner = rows[i].owner /\ rows[c].parent = rows[i].key => rows[c].deleted

protect_user_note_notebook_parent(i, row) ==
    i \in DOMAIN rows /\ ~rows[i].deleted /\ rows[i].type = "notebook"
        /\ (row.deleted \/ row.type # "notebook") =>
        \A c \in DOMAIN rows :
            rows[c].owner = rows[i].owner /\ rows[c].parent = rows[i].key => rows[c].deleted

Accepts(i, row) ==
    /\ UniqueKeys(i, row) /\ PinnedCheck(row)
    /\ validate_user_note_parent(row) /\ protect_user_note_notebook_parent(i, row)

UpsertUserNote(i, row) ==
    rows' = [j \in DOMAIN rows \cup {i} |-> IF j = i THEN row ELSE rows[j]]

SaveUserNoteWithOperations(i, row, operations) ==
    /\ UpsertUserNote(i, row)
    /\ recorded' = [recorded EXCEPT ![i] = @ \cup operations]
-----------------------------------------------------------------------------
(***************************************************************************)
(* The collaboration state kept with a row, and the row made from it.       *)
(***************************************************************************)
decodeCollabState(row) ==
    [type |-> row.state.type,
     parent |-> IF row.state.parent = NoKey THEN row.parent ELSE row.state.parent,
     pinned |-> row.state.pinned \/ row.pinned,
     body |-> IF row.state.body = <<>> THEN row.body ELSE row.state.body,
     ver |-> IF row.state.ver < row.ver THEN row.ver ELSE row.state.ver]

materializeNoteFromState(base, state, at) ==
    LET pinned == state.pinned /\ state.parent # NoKey /\ state.type # "notebook"
        body == IF state.type = "notebook" THEN <<>> ELSE state.body
    IN  [base EXCEPT !.parent = state.parent, !.pinned = pinned, !.body = body, !.type = state.type,
                     !.rev = <<"all", body, state.type, state.parent, pinned>>,
                     !.state = [state EXCEPT !.pinned = pinned], !.ver = state.ver, !.at = at]

revisionAndChecksum(body, type) == <<"body", body, type, NoKey, FALSE>>

\* The checks of a parent before a write; the rows may change until then.
validateNotebookParent(scope, user, note, type, parent) ==
    \/ parent = NoKey
    \/ /\ type # "notebook" /\ parent # note.key
       /\ \E p \in IF scope = "home" THEN GetHomeNoteVisibleToUser(user, parent)
                                     ELSE GetProfileNote(note.owner, parent) :
            ~rows[p].deleted /\ rows[p].owner = note.owner /\ rows[p].type = "notebook"

Candidates(requested) == IF requested \in DOMAIN Names THEN Names[requested] ELSE <<requested>>

FreeKey(user, scope, key) == GetProfileNote(user, key) = {} /\ (scope = "home" => GetHomeNoteByKey(key) = {})

\* The first candidate that is free, if there is one.
generateNoteID(user, scope, requested) ==
    LET keys == Candidates(requested)
    IN  {keys[n] : n \in {m \in DOMAIN keys : /\ FreeKey(user, scope, keys[m])
                                             /\ \A l \in 1..(m - 1) : ~FreeKey(user, scope, keys[l])}}

insertAt(body, index, mark) ==
    LET n == IF index > Len(body) THEN Len(body) ELSE index
    IN  SubSeq(body, 1, n) \o <<mark>> \o SubSeq(body, n + 1, Len(body))

deleteAt(body, index, count) ==
    LET n == IF index > Len(body) THEN Len(body) ELSE index
        end == IF n + count > Len(body) THEN Len(body) ELSE n + count
    IN  SubSeq(body, 1, n) \o SubSeq(body, end + 1, Len(body))

applyCollaborationOperation(state, o) ==
    [CASE o.kind = "text_insert" -> [state EXCEPT !.body = insertAt(@, o.at, <<"op", o.id>>)]
       [] o.kind = "text_delete" -> [state EXCEPT !.body = deleteAt(@, o.at, o.value)]
       [] o.kind = "text_replace" -> [state EXCEPT !.body = <<<<"op", o.id>>>>]
       [] o.kind = "page_type" -> [state EXCEPT !.type = o.value]
       [] o.kind = "parent_id" -> [state EXCEPT !.parent = o.value]
       [] o.kind = "pinned" -> [state EXCEPT !.pinned = o.value]
     EXCEPT !.ver = @ + 1]
-----------------------------------------------------------------------------
(***************************************************************************)
(* The states a behaviour may start in.                                     *)
(***************************************************************************)
RowFields == {"key", "owner", "home", "parent", "type", "mcpx", "pinned", "body", "rev", "ver", "deleted", "at", "state"}
StateFields == {"type", "parent", "pinned", "body", "ver"}

\* A notebook lies in no notebook, whether one asks the row or its state.
WellFormed(row) ==
    /\ DOMAIN row = RowFields /\ DOMAIN row.state = StateFields
    /\ row.type = "notebook" \/ row.state.type = "notebook" => row.parent = NoKey
    /\ row.state.type = "notebook" => row.state.parent = NoKey

\* A live note lies in no notebook or in a live notebook of its owner, which
\* lies in none.
Hierarchical(table) ==
    \A i \in DOMAIN table :
        ~table[i].deleted /\ table[i].parent # NoKey =>
            /\ table[i].type # "notebook"
            /\ \E p \in DOMAIN table : /\ table[p].owner = table[i].owner /\ table[p].key = table[i].parent
                                       /\ ~table[p].deleted /\ table[p].type = "notebook"

ASSUME OperationsAssumption ==
    \A o \in Operations :
        o.kind \in {"text_insert", "text_delete", "text_replace", "page_type", "parent_id", "pinned"}

ASSUME StartsAssumption ==
    \A s \in Scenarios :
        /\ \A i \in DOMAIN s.rows : WellFormed(s.rows[i])
        /\ \A i, j \in DOMAIN s.rows : s.rows[i].key = s.rows[j].key /\ s.rows[i].owner = s.rows[j].owner => i = j
        /\ Hierarchical(s.rows)
        /\ \A r \in s.left : r.kind = "submit" => r.batch \in Seq(Operations)

NotesInit ==
    /\ \E l \in Scenarios :
         /\ rows = l.rows /\ shares = l.shares /\ left = l.left /\ agentOnline = l.online
    /\ recorded = [i \in Ids |-> {}]
    /\ members = Users
    /\ clock = 1
    /\ handlers = [h \in Handlers |-> Idle]
    /\ conns = {} /\ hub = {}
    /\ copies = [u \in Users |-> [rev |-> NoRev, body |-> <<>>]]
    /\ syncState = [status |-> "healthy", push |-> 0, pull |-> 0]
    /\ syncAsked = 0
-----------------------------------------------------------------------------
\* A request of the given kind arrives.  An HTTP request has a handler of its
\* own; an app connection takes its user's commands one after the other.
Arrives(r, kind) ==
    /\ r \in left /\ r.kind = kind /\ left' = left \ {r}
    /\ handlers[r.via] = Idle
    /\ r.via \in Conns => r.via \in conns /\ UserOf[r.via] = r.user

\* Home notes need a membership with the notes feature.
Allowed(r) == r.scope = "home" => r.user \in members

Goes(h, request) == handlers' = [handlers EXCEPT ![h] = request]
Done(h) == Goes(h, Idle)

\* The sync it schedules starts in a goroutine of its own.
markHomeNotesDirty(dirty) ==
    IF dirty
    THEN /\ syncState' = [status |-> IF agentOnline THEN "out_of_sync" ELSE "offline",
                          push |-> syncState.push + 1, pull |-> 0]
         /\ syncAsked' = IF agentOnline THEN syncAsked + 1 ELSE syncAsked
    ELSE UNCHANGED syncVars

\* The write that ends a request, or the error of the database.
Commit(h, i, row, operations, dirty) ==
    IF Accepts(i, row)
    THEN /\ SaveUserNoteWithOperations(i, row, operations)
         /\ clock' = clock + 1 /\ markHomeNotesDirty(dirty)
         /\ Done(h) /\ UNCHANGED <<shares, members>>
    ELSE Done(h) /\ UNCHANGED <<dbVars, syncVars>>
-----------------------------------------------------------------------------
(***************************************************************************)
(* Fetching, saving, appending, renaming and deleting.                      *)
(***************************************************************************)
FetchNote(r) ==
    /\ Arrives(r, "fetch") /\ Allowed(r)
    /\ \E i \in resolveNote(r.scope, r.user, r.key) :
         /\ ~rows[i].deleted
         /\ copies' = [copies EXCEPT ![r.user] = [rev |-> rows[i].rev, body |-> rows[i].body]]
    /\ UNCHANGED <<dbVars, handlers, conns, hub, agentOnline, syncVars>>

Expected(r) == IF r.expect THEN copies[r.user].rev ELSE NoRev

\* A save, with the revision the user fetched or without one; parent, pinned
\* and mcpx are empty sets when the request omits them.
PutNote(r) ==
    /\ Arrives(r, "put") /\ Allowed(r)
    /\ Goes(r.via, [pc |-> "save", user |-> r.user, scope |-> r.scope, key |-> r.key, expect |-> Expected(r),
                    body |-> Append(copies[r.user].body, <<"save", r.n>>), type |-> r.type,
                    parent |-> r.parent, pinned |-> r.pinned, mcpx |-> r.mcpx])
    /\ UNCHANGED <<dbVars, conns, hub, copies, agentOnline, syncVars>>

AppendNote(r) ==
    /\ Arrives(r, "append") /\ Allowed(r)
    /\ \E i \in resolveNote(r.scope, r.user, r.key) :
         /\ ~rows[i].deleted /\ rows[i].type = "text"
         /\ Goes(r.via, [pc |-> "save", user |-> r.user, scope |-> r.scope, key |-> r.key,
                         expect |-> Expected(r), body |-> Append(rows[i].body, <<"append", r.n>>),
                         type |-> "text", parent |-> {}, pinned |-> {rows[i].pinned}, mcpx |-> {rows[i].mcpx}])
    /\ UNCHANGED <<dbVars, conns, hub, copies, agentOnline, syncVars>>

NewRow(key, owner, home) ==
    [key |-> key, owner |-> owner, home |-> home, parent |-> NoKey, type |-> "text", mcpx |-> FALSE,
     pinned |-> FALSE, body |-> <<>>, rev |-> NoRev, ver |-> 0, deleted |-> FALSE, at |-> 0,
     state |-> [type |-> "text", parent |-> NoKey, pinned |-> FALSE, body |-> <<>>, ver |-> 0]]

\* newID returns an identifier that no row has; any one will do.
FreshIds == {i \in Ids \ DOMAIN rows : i = CHOOSE j \in Ids \ DOMAIN rows : TRUE}

\* The row that a write goes to: one that was read, or a new one.
TargetIds(id) == IF id = NoId THEN FreshIds ELSE {id}

\* The row a save will write over, or one it will insert under a free name.
SaveTargets(request) ==
    LET found == IF request.key = NoKey THEN {} ELSE resolveNote(request.scope, request.user, request.key)
    IN  IF found # {} THEN {<<i, rows[i]>> : i \in found}
        ELSE {<<NoId, NewRow(k, request.user, request.scope = "home")>> :
                 k \in generateNoteID(request.user, request.scope, request.key)}

savedRow(existing, request, at) ==
    LET parent == IF request.parent = {} THEN existing.parent ELSE CHOOSE p \in request.parent : TRUE
        pinned == IF request.pinned = {} THEN existing.pinned ELSE TRUE \in request.pinned
        state == [type |-> request.type, parent |-> parent,
                  pinned |-> pinned /\ parent # NoKey /\ request.type # "notebook",
                  body |-> IF request.type = "notebook" THEN <<>> ELSE request.body,
                  ver |-> existing.ver + 1]
    IN  [materializeNoteFromState(existing, state, at)
            EXCEPT !.mcpx = IF request.mcpx = {} THEN @ ELSE TRUE \in request.mcpx]

\* save, up to the write: a live note with another revision than the expected
\* one is a conflict.
SaveRead(h) ==
    /\ handlers[h].pc = "save"
    /\ LET request == handlers[h] IN
       \/ /\ SaveTargets(request) = {}
          /\ Done(h)
       \/ \E target \in SaveTargets(request) :
            LET row == savedRow(target[2], request, clock + 1)
            IN  IF \/ ~target[2].deleted /\ request.expect # NoRev /\ target[1] # NoId
                        /\ request.expect # target[2].rev
                   \/ ~validateNotebookParent(request.scope, request.user, target[2], row.type, row.parent)
                THEN Done(h)
                ELSE Goes(h, [pc |-> "write", scope |-> request.scope, id |-> target[1], row |-> row,
                              expect |-> request.expect])
    /\ UNCHANGED <<dbVars, conns, hub, copies, agentOnline, syncVars, left>>

\* saveTitleOnly changes nothing else, but writes the whole row from the state.
RenameNote(r) ==
    /\ Arrives(r, "rename") /\ Allowed(r)
    /\ \E i \in resolveNote(r.scope, r.user, r.key) :
         LET state == decodeCollabState(rows[i]) IN
         Goes(r.via, [pc |-> "write", scope |-> r.scope, id |-> i, expect |-> NoRev,
                      row |-> materializeNoteFromState(rows[i], [state EXCEPT !.ver = @ + 1], clock + 1)])
    /\ UNCHANGED <<dbVars, conns, hub, copies, agentOnline, syncVars>>

DeleteNote(r) ==
    /\ Arrives(r, "delete") /\ Allowed(r)
    /\ \E i \in resolveNote(r.scope, r.user, r.key) :
         LET state == decodeCollabState(rows[i]) IN
         Goes(r.via, [pc |-> "write", scope |-> r.scope, id |-> i, expect |-> NoRev,
                      row |-> [rows[i] EXCEPT !.body = <<>>, !.rev = <<"deleted", <<>>, "text", NoKey, FALSE>>,
                                  !.state = [state EXCEPT !.ver = @ + 1], !.ver = state.ver + 1,
                                  !.type = "text", !.at = clock + 1, !.deleted = TRUE]])
    /\ UNCHANGED <<dbVars, conns, hub, copies, agentOnline, syncVars>>

WriteNote(h) ==
    /\ handlers[h].pc = "write"
    /\ \E i \in TargetIds(handlers[h].id) : Commit(h, i, handlers[h].row, {}, handlers[h].scope = "home")
    /\ UNCHANGED <<conns, hub, copies, agentOnline, left>>
-----------------------------------------------------------------------------
(***************************************************************************)
(* Collaboration: submitOps reads the row, looks each operation up, applies *)
(* the new ones to the state it read and writes the row.                    *)
(***************************************************************************)
SubmitRead(r) ==
    /\ Arrives(r, "submit") /\ Allowed(r)
    /\ \E i \in resolveNote(r.scope, r.user, r.key) :
         /\ ~rows[i].deleted
         /\ Goes(r.via, [pc |-> "ops", user |-> r.user, scope |-> r.scope, id |-> i, note |-> rows[i],
                         state |-> decodeCollabState(rows[i]), todo |-> r.batch, applied |-> {}])
    /\ UNCHANGED <<dbVars, conns, hub, copies, agentOnline, syncVars>>

\* Mutant: the operations that the row already holds are not looked up.
SubmitOpUnchecked(h) ==
    /\ handlers[h].pc = "ops" /\ handlers[h].todo # <<>>
    /\ LET o == Head(handlers[h].todo) IN
       Goes(h, [handlers[h] EXCEPT !.todo = Tail(@), !.applied = @ \cup {o.id},
                                   !.state = applyCollaborationOperation(@, o)])
    /\ UNCHANGED <<dbVars, conns, hub, copies, agentOnline, syncVars, left>>

SubmitOp(h) ==
    /\ handlers[h].pc = "ops" /\ handlers[h].todo # <<>>
    /\ LET o == Head(handlers[h].todo) IN
       IF o.id \in recorded[handlers[h].id]
       THEN Goes(h, [handlers[h] EXCEPT !.todo = Tail(@)])
       ELSE Goes(h, [handlers[h] EXCEPT !.todo = Tail(@), !.applied = @ \cup {o.id},
                                        !.state = applyCollaborationOperation(@, o)])
    /\ UNCHANGED <<dbVars, conns, hub, copies, agentOnline, syncVars, left>>

SubmitCommit(h) ==
    /\ handlers[h].pc = "ops" /\ handlers[h].todo = <<>>
    /\ LET call == handlers[h] IN
       IF \/ call.applied = {}
          \/ ~validateNotebookParent(call.scope, call.user, call.note, call.state.type, call.state.parent)
       THEN Done(h) /\ UNCHANGED <<dbVars, syncVars>>
       ELSE Commit(h, call.id, materializeNoteFromState(call.note, call.state, clock + 1), call.applied,
                   call.scope = "home" /\ shares[call.id] # {})
    /\ UNCHANGED <<conns, hub, copies, agentOnline, left>>
-----------------------------------------------------------------------------
(***************************************************************************)
(* Shares and members.                                                      *)
(***************************************************************************)
\* GrantShare binds a profile note to the home: the row it read is written
\* back with the home's identifier.
GrantRead(r) ==
    /\ Arrives(r, "share") /\ Allowed(r)
    /\ r.target # r.user /\ r.target \in members
    /\ \E i \in findSharableNote(r.user, r.key) :
         /\ ~rows[i].home => GetHomeNoteByKey(r.key) = {}
         /\ Goes(r.via, [pc |-> "grant", id |-> i, target |-> r.target, first |-> ~rows[i].home, row |-> rows[i]])
    /\ UNCHANGED <<dbVars, conns, hub, copies, agentOnline, syncVars>>

GrantBind(h) ==
    /\ handlers[h].pc = "grant" /\ ~handlers[h].row.home
    /\ LET row == [handlers[h].row EXCEPT !.home = TRUE, !.at = clock + 1] IN
       IF Accepts(handlers[h].id, row)
       THEN /\ UpsertUserNote(handlers[h].id, row) /\ clock' = clock + 1
            /\ Goes(h, [handlers[h] EXCEPT !.row = row])
            /\ UNCHANGED <<shares, recorded, members>>
       ELSE Done(h) /\ UNCHANGED dbVars
    /\ UNCHANGED <<conns, hub, copies, agentOnline, syncVars, left>>

GrantShare(h) ==
    /\ handlers[h].pc = "grant" /\ handlers[h].row.home
    /\ shares' = [shares EXCEPT ![handlers[h].id] = @ \cup {handlers[h].target}]
    /\ markHomeNotesDirty(handlers[h].first) /\ Done(h)
    /\ UNCHANGED <<rows, recorded, members, clock, conns, hub, copies, agentOnline, left>>

\* RevokeShare, then revokeNoteUser.
RevokeShare(r) ==
    /\ Arrives(r, "revoke") /\ Allowed(r)
    /\ \E i \in findSharableNote(r.user, r.key) :
         /\ r.target \in shares[i]
         /\ shares' = [shares EXCEPT ![i] = @ \ {r.target}]
         /\ Goes(r.via, [pc |-> "evict", user |-> r.target, notes |-> {i}, scopes |-> Scopes,
                         dirty |-> shares'[i] = {}])
    /\ UNCHANGED <<rows, recorded, members, clock, conns, hub, copies, agentOnline, syncVars>>

\* The membership and the shares go first, then evictCollaborator runs.
RemoveMember(r) ==
    /\ Arrives(r, "remove") /\ r.target \in members \ {HomeOwner}
    /\ members' = members \ {r.target}
    /\ shares' = [i \in Ids |-> shares[i] \ {r.target}]
    /\ markHomeNotesDirty(TRUE)
    /\ Goes(r.via, [pc |-> "evict", user |-> r.target, notes |-> Ids, scopes |-> {"home"}, dirty |-> FALSE])
    /\ UNCHANGED <<rows, recorded, clock, conns, hub, copies, agentOnline>>

revokeSessions(h) ==
    /\ handlers[h].pc = "evict"
    /\ hub' = {s \in hub : ~(/\ UserOf[s.conn] = handlers[h].user /\ s.note \in handlers[h].notes
                              /\ s.scope \in handlers[h].scopes)}
    /\ markHomeNotesDirty(handlers[h].dirty) /\ Done(h)
    /\ UNCHANGED <<dbVars, conns, copies, agentOnline, left>>
-----------------------------------------------------------------------------
(***************************************************************************)
(* Connections and the hub.                                                 *)
(***************************************************************************)
Connect(r) ==
    /\ r \in left /\ r.kind = "connect" /\ r.via \notin conns /\ left' = left \ {r}
    /\ conns' = conns \cup {r.via}
    /\ UNCHANGED <<dbVars, handlers, hub, copies, agentOnline, syncVars>>

JoinRead(r) ==
    /\ Arrives(r, "join") /\ Allowed(r)
    /\ \E i \in resolveNote(r.scope, r.user, r.key) :
         ~rows[i].deleted /\ Goes(r.via, [pc |-> "join", id |-> i, scope |-> r.scope])
    /\ UNCHANGED <<dbVars, conns, hub, copies, agentOnline, syncVars>>

JoinRegister(c) ==
    /\ handlers[c].pc = "join"
    /\ hub' = hub \cup {[conn |-> c, note |-> handlers[c].id, scope |-> handlers[c].scope]}
    /\ Done(c)
    /\ UNCHANGED <<dbVars, conns, copies, agentOnline, syncVars, left>>

LeaveNote(r) ==
    /\ Arrives(r, "leave") /\ Allowed(r)
    /\ \E i \in resolveNote(r.scope, r.user, r.key) :
         hub' = {s \in hub : ~(s.conn = r.via /\ s.note = i)}
    /\ UNCHANGED <<dbVars, handlers, conns, copies, agentOnline, syncVars>>

\* Mutant: the sessions of a closed connection stay in the hub.
removeAppKeeps(c) == hub' = hub

\* removeApp drops what belongs to the login session of the connection.
removeApp(c) == hub' = {s \in hub : SessionOf[s.conn] # SessionOf[c]}

\* The read loop ends between two commands.
Disconnect(c) ==
    /\ c \in conns /\ handlers[c] = Idle
    /\ conns' = conns \ {c}
    /\ removeApp(c)
    /\ UNCHANGED <<dbVars, handlers, copies, agentOnline, syncVars, left>>

\* An event without a request.
Happens(kind) == \E r \in left : r.kind = kind /\ left' = left \ {r}

\* The server process ends and starts again; the database stays.
Restart ==
    /\ Happens("restart")
    /\ handlers' = [h \in Handlers |-> Idle]
    /\ conns' = {} /\ hub' = {} /\ agentOnline' = FALSE /\ syncAsked' = 0
    /\ UNCHANGED <<dbVars, copies, syncState>>
-----------------------------------------------------------------------------
handleHomeNotesHTTP(r) ==
    /\ r.via \in Requests /\ r.scope = "home"
    /\ FetchNote(r) \/ PutNote(r) \/ AppendNote(r) \/ DeleteNote(r) \/ GrantRead(r) \/ RevokeShare(r)

handleProfileNotesHTTP(r) ==
    /\ r.via \in Requests /\ r.scope = "profile"
    /\ FetchNote(r) \/ PutNote(r) \/ AppendNote(r) \/ DeleteNote(r)

handleCloudNotesCommand(r) ==
    /\ r.via \in Conns
    /\ \/ r.scope = "home" /\ (FetchNote(r) \/ PutNote(r) \/ RenameNote(r) \/ DeleteNote(r))
       \/ JoinRead(r) \/ LeaveNote(r) \/ SubmitRead(r)

\* A request or a command arrives; events have no handler.
NoteRequest(r) ==
    \/ /\ "scope" \in DOMAIN r
       /\ handleHomeNotesHTTP(r) \/ handleProfileNotesHTTP(r) \/ handleCloudNotesCommand(r) \/ RemoveMember(r)
    \/ Connect(r)

\* A request or a command goes on; it ends by itself.
NoteStep(h) ==
    \/ SaveRead(h) \/ WriteNote(h)
    \/ SubmitOp(h) \/ SubmitCommit(h)
    \/ GrantBind(h) \/ GrantShare(h)
    \/ revokeSessions(h)
    \/ JoinRegister(h)

NotesWork ==
    \/ \E r \in left : NoteRequest(r)
    \/ \E h \in Handlers : NoteStep(h)
    \/ \E c \in Conns : Disconnect(c)
-----------------------------------------------------------------------------
Marks(i, id) == Cardinality({n \in DOMAIN rows[i].body : rows[i].body[n] = <<"op", id>>})

Times(batch, o) == Cardinality({n \in DOMAIN batch : batch[n] = o})
Submissions == {r \in UNION {s.left : s \in Scenarios} : r.kind = "submit"}

\* An operation takes effect in one batch: however often and over however many
\* connections an app submits it, a note holds it no more often than one batch
\* does.  A batch that repeats an operation applies it each time, since
\* HasNoteOperation in submitOps finds only what an earlier batch recorded.
OpsAppliedOnce ==
    \A i \in DOMAIN rows, o \in Operations : o.kind = "text_insert" =>
        Marks(i, o.id) = 0 \/ \E r \in Submissions : Marks(i, o.id) <= Times(r.batch, o)

\* A live note lies in no notebook or in a live notebook of its owner, which
\* lies in none: the triggers hold against requests that checked the parent
\* before another request changed it.
NotebookHierarchy == Hierarchical(rows)

\* The hub sends to open connections only: whatever joins, leaves and closes
\* interleave, a closed connection leaves no session behind (removeApp).
HubHoldsOpenConnections == \A s \in hub : s.conn \in conns
==============================================================================

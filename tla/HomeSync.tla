------------------------------ MODULE HomeSync ------------------------------
(***************************************************************************)
(* The reconciliation of the shared home notes with the notes that the      *)
(* primary agent keeps as files: at most one run per home, started when the *)
(* agent connects and after every write of a home note; a request that      *)
(* finds a run in flight is dropped.  A run works from the manifest and the *)
(* rows it read at the start while requests and local edits go on.          *)
(*                                                                         *)
(* A command to the agent may fail before or after the agent carried it     *)
(* out.  The clocks of the two machines agree.                              *)
(***************************************************************************)
EXTENDS CloudNotes, Tables

VARIABLES
    local,      \* notes of the agent: key -> [body, type, at]
    sync        \* the run of reconcileHomeNotes

homeSyncVars == <<local, sync>>

NoSync == [pc |-> "none"]
inFlight == sync # NoSync

SyncInit == local = <<>> /\ sync = NoSync
-----------------------------------------------------------------------------
(***************************************************************************)
(* The notes service of the agent.                                          *)
(***************************************************************************)
revisionForDocument(doc) == <<"agent", doc.body, doc.type>>

AgentSave(key, body, type) ==
    local' = With(local, key, [body |-> IF type = "notebook" THEN <<>> ELSE body, type |-> type, at |-> clock + 1])

AgentDelete(key) == local' = Without(local, key)

\* Somebody edits, adds or removes a file below the notes root.
LocalEdit(r) ==
    /\ r \in left /\ r.kind = "edit" /\ left' = left \ {r}
    /\ IF r.key \in DOMAIN local
       THEN AgentSave(r.key, Append(local[r.key].body, <<"file", r.n>>), local[r.key].type)
       ELSE AgentSave(r.key, <<<<"file", r.n>>>>, "text")
    /\ clock' = clock + 1
    /\ UNCHANGED <<rows, shares, recorded, members, handlers, conns, hub, copies, agentOnline, syncVars, sync>>

LocalRemove(r) ==
    /\ r \in left /\ r.kind = "unlink" /\ r.key \in DOMAIN local /\ left' = left \ {r}
    /\ AgentDelete(r.key)
    /\ clock' = clock + 1
    /\ UNCHANGED <<rows, shares, recorded, members, handlers, conns, hub, copies, agentOnline, syncVars, sync>>
-----------------------------------------------------------------------------
(***************************************************************************)
(* Starting a run.                                                          *)
(***************************************************************************)
Begun == [pc |-> "manifest", began |-> clock, own |-> 0, pulls |-> 0, pushes |-> 0,
          manifest |-> <<>>, cloud |-> {}, todo |-> {}, extra |-> {}, key |-> NoKey]

\* homeSyncController.Start
Start == sync' = IF inFlight THEN sync ELSE Begun

scheduleHomeSync ==
    /\ syncAsked > 0 /\ syncAsked' = syncAsked - 1
    /\ Start
    /\ UNCHANGED <<dbVars, handlers, conns, hub, copies, agentOnline, syncState, left, local>>

AgentConnects ==
    /\ ~agentOnline /\ Happens("online")
    /\ agentOnline' = TRUE
    /\ Start
    /\ UNCHANGED <<dbVars, handlers, conns, hub, copies, syncVars, local>>

\* markHomeSyncOffline
AgentDisconnects ==
    /\ agentOnline /\ Happens("offline")
    /\ agentOnline' = FALSE
    /\ syncState' = [syncState EXCEPT !.status = "offline"]
    /\ UNCHANGED <<dbVars, handlers, conns, hub, copies, syncAsked, local, sync>>
-----------------------------------------------------------------------------
(***************************************************************************)
(* reconcileHomeNotes.                                                      *)
(***************************************************************************)
\* The command fails, or the agent refuses it.
CommandFails == (~agentOnline /\ UNCHANGED left) \/ Happens("fail")

\* Mutant: the flag of the run stays set when the agent cannot be asked.
ManifestFailsKeeps ==
    /\ sync.pc = "manifest" /\ CommandFails
    /\ syncState' = [status |-> "offline", push |-> 0, pull |-> 0]
    /\ sync' = [sync EXCEPT !.pc = "kept"]
    /\ UNCHANGED <<dbVars, handlers, conns, hub, copies, agentOnline, syncAsked, local>>

ManifestFails ==
    /\ sync.pc = "manifest" /\ CommandFails
    /\ \E status \in {"offline", "degraded"} :
         syncState' = [status |-> status, push |-> 0, pull |-> 0]
    /\ sync' = NoSync
    /\ UNCHANGED <<dbVars, handlers, conns, hub, copies, agentOnline, syncAsked, local>>

ManifestRead ==
    /\ sync.pc = "manifest" /\ agentOnline
    /\ sync' = [sync EXCEPT !.pc = "list", !.manifest = local]
    /\ UNCHANGED <<noteVars, local>>

ListRead ==
    /\ sync.pc = "list"
    /\ LET cloud == {rows[i] : i \in ListSyncedHomeNotes} IN
       sync' = [sync EXCEPT !.pc = "notes", !.cloud = cloud, !.todo = cloud,
                            !.extra = DOMAIN sync.manifest \ {n.key : n \in cloud}]
    /\ UNCHANGED <<noteVars, local>>

\* A command changes the agent's notes, or fails, with or without that change.
Command(effect, done, failed) ==
    \/ /\ agentOnline /\ effect
       /\ clock' = clock + 1 /\ sync' = [done EXCEPT !.own = @ + 1]
       /\ UNCHANGED left
    \/ /\ CommandFails
       /\ \/ UNCHANGED <<local, clock>> /\ sync' = failed
          \/ /\ agentOnline /\ effect
             /\ clock' = clock + 1 /\ sync' = [failed EXCEPT !.own = @ + 1]

Rest(n) == [sync EXCEPT !.todo = @ \ {n}]
Pushed(n) == [Rest(n) EXCEPT !.pushes = @ + 1]

pushDelete(n) == Command(AgentDelete(n.key), Rest(n), Pushed(n))

pushSave(n) == Command(AgentSave(n.key, n.body, n.type), Rest(n), Pushed(n))

\* Mutant: what the agent has is pulled, new or old.
NewerAtAgentAlways(n) == TRUE

NewerAtAgent(n) == sync.manifest[n.key].at > n.at

SameAtAgent(n) == revisionForDocument(sync.manifest[n.key]) = n.rev /\ sync.manifest[n.key].at = n.at

SyncNote(n) ==
    /\ sync.pc = "notes" /\ n \in sync.todo
    /\ LET hasLocal == n.key \in DOMAIN sync.manifest IN
       IF \/ n.deleted /\ ~hasLocal
          \/ ~n.deleted /\ hasLocal /\ SameAtAgent(n)
       THEN sync' = Rest(n) /\ UNCHANGED <<clock, local, left>>
       ELSE IF n.deleted THEN pushDelete(n)
       ELSE IF hasLocal /\ NewerAtAgent(n)
       THEN sync' = [Rest(n) EXCEPT !.pc = "fetch", !.key = n.key] /\ UNCHANGED <<clock, local, left>>
       ELSE pushSave(n)
    /\ UNCHANGED <<rows, shares, recorded, members, handlers, conns, hub, copies, agentOnline, syncVars>>

SyncExtra(key) ==
    /\ sync.pc = "notes" /\ sync.todo = {} /\ key \in sync.extra
    /\ sync' = [sync EXCEPT !.pc = "fetch", !.key = key, !.extra = @ \ {key}]
    /\ UNCHANGED <<noteVars, local>>
-----------------------------------------------------------------------------
(***************************************************************************)
(* pullLocalNote: fetch, SaveHome for the owner of the home, a share for    *)
(* every member, then the row as it was read after SaveHome once more, with *)
(* the time of the agent and what the agent does not know left empty.       *)
(***************************************************************************)
PullFailed == sync' = [sync EXCEPT !.pc = "notes", !.pulls = @ + 1]

PullFetch ==
    /\ sync.pc = "fetch"
    /\ \/ /\ agentOnline /\ sync.key \in DOMAIN local
          /\ sync' = Over([doc |-> local[sync.key]], [sync EXCEPT !.pc = "save"])
          /\ UNCHANGED left
       \/ /\ agentOnline /\ sync.key \notin DOMAIN local
          /\ PullFailed /\ UNCHANGED left
       \/ /\ CommandFails
          /\ PullFailed
    /\ UNCHANGED <<dbVars, handlers, conns, hub, copies, agentOnline, syncVars, local>>

PullRequest == [scope |-> "home", user |-> HomeOwner, key |-> sync.key, type |-> sync.doc.type,
                body |-> sync.doc.body, parent |-> {}, pinned |-> {}, mcpx |-> {}]

PullSaveRead ==
    /\ sync.pc = "save"
    /\ \/ /\ SaveTargets(PullRequest) = {}
          /\ PullFailed
       \/ \E target \in SaveTargets(PullRequest) :
            LET row == savedRow(target[2], PullRequest, clock + 1)
            IN  IF validateNotebookParent("home", HomeOwner, target[2], row.type, row.parent)
                THEN sync' = Over([id |-> target[1], row |-> row], [sync EXCEPT !.pc = "write"])
                ELSE PullFailed
    /\ UNCHANGED <<noteVars, local>>

PullSaveWrite ==
    /\ sync.pc = "write"
    /\ \E i \in TargetIds(sync.id) :
         IF Accepts(i, sync.row)
         THEN /\ UpsertUserNote(i, sync.row)
              /\ clock' = clock + 1
              /\ sync' = [sync EXCEPT !.pc = "owned", !.own = @ + 1, !.key = sync.row.key]
         ELSE PullFailed /\ UNCHANGED <<rows, clock>>
    /\ UNCHANGED <<shares, recorded, members, handlers, conns, hub, copies, agentOnline, syncVars, left, local>>

\* The row without parent, pin and lock, and live.
pulledRow(note) ==
    [note EXCEPT !.home = TRUE, !.parent = NoKey, !.type = sync.doc.type, !.mcpx = FALSE, !.pinned = FALSE,
                 !.body = sync.doc.body, !.rev = revisionAndChecksum(sync.doc.body, sync.doc.type),
                 !.deleted = FALSE, !.at = sync.doc.at]

PullOwned ==
    /\ sync.pc = "owned"
    /\ \/ /\ GetOwnedHomeNote(HomeOwner, sync.key) = {}
          /\ PullFailed
       \/ \E i \in GetOwnedHomeNote(HomeOwner, sync.key) :
            sync' = Over([id |-> i, row |-> rows[i]], [sync EXCEPT !.pc = "members"])
    /\ UNCHANGED <<noteVars, local>>

PullMembers ==
    /\ sync.pc = "members"
    /\ sync' = Over([to |-> members \ {HomeOwner}], [sync EXCEPT !.pc = "share"])
    /\ UNCHANGED <<noteVars, local>>

\* AddNoteShare, one member after the other.
PullShare ==
    /\ sync.pc = "share"
    /\ \E user \in sync.to :
         \/ /\ shares' = [shares EXCEPT ![sync.id] = @ \cup {user}]
            /\ sync' = [sync EXCEPT !.to = @ \ {user}]
            /\ UNCHANGED left
         \/ Happens("fail") /\ PullFailed /\ UNCHANGED shares
    /\ UNCHANGED <<rows, recorded, members, clock, handlers, conns, hub, copies, agentOnline, syncVars, local>>

PullUpsert ==
    /\ sync.pc = "share" /\ sync.to = {}
    /\ IF Accepts(sync.id, pulledRow(sync.row))
       THEN /\ UpsertUserNote(sync.id, pulledRow(sync.row))
            /\ clock' = clock + 1
            /\ sync' = [sync EXCEPT !.pc = "notes", !.own = @ + 1]
       ELSE PullFailed /\ UNCHANGED <<rows, clock>>
    /\ UNCHANGED <<shares, recorded, members, handlers, conns, hub, copies, agentOnline, syncVars, left, local>>

SyncEnd ==
    /\ sync.pc = "notes" /\ sync.todo = {} /\ sync.extra = {}
    /\ syncState' = [status |-> IF sync.pulls = 0 /\ sync.pushes = 0 THEN "healthy" ELSE "out_of_sync",
                     pull |-> sync.pulls, push |-> sync.pushes]
    /\ sync' = NoSync
    /\ UNCHANGED <<dbVars, handlers, conns, hub, copies, agentOnline, syncAsked, left, local>>

SyncStep ==
    \/ ManifestFails \/ ManifestRead \/ ListRead
    \/ (sync # NoSync /\ sync.pc = "notes" /\ \E n \in sync.todo : SyncNote(n))
    \/ (sync # NoSync /\ sync.pc = "notes" /\ \E key \in sync.extra : SyncExtra(key))
    \/ PullFetch \/ PullSaveRead \/ PullSaveWrite
    \/ PullOwned \/ PullMembers \/ PullShare \/ PullUpsert
    \/ SyncEnd

RestartSync == Restart /\ sync' = NoSync /\ UNCHANGED local

HomeSyncWork ==
    \/ scheduleHomeSync \/ AgentConnects \/ AgentDisconnects \/ SyncStep
    \/ \E r \in left : LocalEdit(r) \/ LocalRemove(r)

HomeSyncNext == HomeSyncWork \/ RestartSync
-----------------------------------------------------------------------------
Winner(n) == IF n.key \in DOMAIN sync.manifest /\ sync.manifest[n.key].at > n.at
             THEN sync.manifest[n.key].body ELSE n.body

\* Where a pulled text goes: SaveHome saves for the owner of the home, who gets
\* a note under the next free name when they do not see the one it belongs to.
PullsInto(key) ==
    IF GetHomeNoteVisibleToUser(HomeOwner, key) # {} THEN GetHomeNoteByKey(key)
    ELSE {i \in DOMAIN rows : rows[i].home /\ \E m \in DOMAIN Candidates(key) : rows[i].key = Candidates(key)[m]}

\* A run that reports healthy, and during which nobody else wrote, leaves the
\* newer of the two texts of every shared note at the agent and in the cloud,
\* there in the note itself unless the owner of the home does not see it, and
\* a note that was deleted in the cloud is gone from the agent
\* (reconcileHomeNotes, pullLocalNote).
QuietSyncAgrees ==
    [][SyncEnd /\ syncState'.status = "healthy" /\ clock = sync.began + sync.own =>
        \A n \in sync.cloud :
            IF n.deleted THEN n.key \notin DOMAIN local
            ELSE /\ n.key \in DOMAIN local /\ local[n.key].body = Winner(n)
                 /\ \E i \in PullsInto(n.key) : rows[i].body = Winner(n)]_<<noteVars, homeSyncVars>>
==============================================================================

--------------------------- MODULE NoteAttachments ---------------------------
(***************************************************************************)
(* Files attached to notes: an upload writes a file and then, in one        *)
(* transaction, the attachment and a reference to it in the body that the   *)
(* request read; a delete does the reverse; the pruning job removes files   *)
(* that no live attachment names.  The server may stop between any two      *)
(* steps.                                                                   *)
(*                                                                         *)
(* A file is old when its modification time lies before the retention that  *)
(* pruneNoteAttachmentFiles uses (30 days).  No request and no pruning run  *)
(* takes that long.  File names, sizes and content types are left out.      *)
(***************************************************************************)
EXTENDS CloudNotes

CONSTANT Attachments    \* identifiers that newID("natt") returns

VARIABLES
    atts,       \* note_attachments: identifier -> [note, deleted]
    files,      \* files below noteAttachmentRoot: [att, tmp, old]
    prune       \* the maintenance loop and its pruning run: [pc, live, todo]

\* newID("natt") returns no identifier twice.
ASSUME UploadsAssumption ==
    \A s \in Scenarios : \A r, q \in s.left :
        r.kind = "upload" /\ q.kind = "upload" /\ r.att = q.att => r = q

attVars == <<atts, files, prune>>
File(a, tmp) == [att |-> a, tmp |-> tmp, old |-> FALSE]
Live == {a \in DOMAIN atts : ~atts[a].deleted}
Uploading == {handlers[h].att : h \in {g \in Handlers : handlers[g].pc \in {"upload", "named", "attach"}}}
NoPrune == [pc |-> "idle", live |-> {}, todo |-> {}]
LoopOver == [NoPrune EXCEPT !.pc = "over"]

AttachmentsInit == atts = <<>> /\ files = {} /\ prune = NoPrune
-----------------------------------------------------------------------------
(***************************************************************************)
(* Upload.                                                                  *)
(***************************************************************************)
UploadRead(r) ==
    /\ Arrives(r, "upload") /\ Allowed(r)
    /\ \E i \in resolveNote(r.scope, r.user, r.key) :
         /\ ~rows[i].deleted
         /\ Goes(r.via, [pc |-> "upload", scope |-> r.scope, id |-> i, note |-> rows[i], att |-> r.att])
    /\ UNCHANGED <<dbVars, conns, hub, copies, agentOnline, syncVars, attVars>>

UploadTemp(h) ==
    /\ handlers[h].pc = "upload"
    /\ files' = files \cup {File(handlers[h].att, TRUE)}
    /\ Goes(h, [handlers[h] EXCEPT !.pc = "named"])
    /\ UNCHANGED <<dbVars, conns, hub, copies, agentOnline, syncVars, left, atts, prune>>

\* An empty body, one past maxNoteAttachmentBytes and a failed read leave no
\* file; otherwise the temporary file gets its name, and stays under it when
\* its mode cannot be set.
UploadRename(h) ==
    /\ handlers[h].pc = "named"
    /\ \/ /\ files' = files \ {File(handlers[h].att, TRUE)}
          /\ Done(h)
       \/ /\ files' = (files \ {File(handlers[h].att, TRUE)}) \cup {File(handlers[h].att, FALSE)}
          /\ Done(h) \/ Goes(h, [handlers[h] EXCEPT !.pc = "attach"])
    /\ UNCHANGED <<dbVars, conns, hub, copies, agentOnline, syncVars, left, atts, prune>>

\* The lock and the pin of the row are not in the update.
withBody(note, body, i) ==
    [note EXCEPT !.body = body, !.rev = revisionAndChecksum(body, note.type), !.at = clock + 1,
                 !.mcpx = rows[i].mcpx, !.pinned = rows[i].pinned]

noteWithAttachmentReference(note, a, i) == withBody(note, Append(note.body, <<"att", a>>), i)

removeNoteAttachmentReferences(note, a, i) ==
    withBody(note, SelectSeq(note.body, LAMBDA m : m # <<"att", a>>), i)

CreateNoteAttachmentAndSaveNote(h) ==
    /\ handlers[h].pc = "attach"
    /\ LET i == handlers[h].id
           a == handlers[h].att
           row == noteWithAttachmentReference(handlers[h].note, a, i)
       IN  IF Accepts(i, row)
           THEN /\ UpsertUserNote(i, row)
                /\ atts' = [b \in DOMAIN atts \cup {a} |->
                              IF b = a THEN [note |-> i, deleted |-> FALSE] ELSE atts[b]]
                /\ clock' = clock + 1 /\ markHomeNotesDirty(handlers[h].scope = "home")
                /\ UNCHANGED <<files, shares, recorded, members>>
           ELSE files' = files \ {File(a, FALSE)} /\ UNCHANGED <<dbVars, syncVars, atts>>
    /\ Done(h)
    /\ UNCHANGED <<conns, hub, copies, agentOnline, left, prune>>
-----------------------------------------------------------------------------
(***************************************************************************)
(* Delete.                                                                  *)
(***************************************************************************)
DetachRead(r) ==
    /\ Arrives(r, "detach") /\ Allowed(r)
    /\ \E i \in resolveNote(r.scope, r.user, r.key) :
         /\ ~rows[i].deleted /\ r.att \in Live /\ atts[r.att].note = i
         /\ Goes(r.via, [pc |-> "detach", scope |-> r.scope, id |-> i, note |-> rows[i], att |-> r.att])
    /\ UNCHANGED <<dbVars, conns, hub, copies, agentOnline, syncVars, attVars>>

\* The admin route finds the attachment, then reads its note.
AdminDetach(r) ==
    /\ Arrives(r, "admin") /\ r.att \in Live /\ ~rows[atts[r.att].note].deleted
    /\ Goes(r.via, [pc |-> "admin", att |-> r.att,
                    scope |-> IF rows[atts[r.att].note].home THEN "home" ELSE "profile"])
    /\ UNCHANGED <<dbVars, conns, hub, copies, agentOnline, syncVars, attVars>>

AdminReadsNote(h) ==
    /\ handlers[h].pc = "admin"
    /\ LET i == atts[handlers[h].att].note IN
       Goes(h, [pc |-> "detach", scope |-> handlers[h].scope, id |-> i, note |-> rows[i],
                att |-> handlers[h].att])
    /\ UNCHANGED <<dbVars, conns, hub, copies, agentOnline, syncVars, left, attVars>>

DeleteNoteAttachmentAndSaveNote(h) ==
    /\ handlers[h].pc = "detach"
    /\ LET i == handlers[h].id
           row == removeNoteAttachmentReferences(handlers[h].note, handlers[h].att, i)
       IN  IF handlers[h].att \in Live /\ Accepts(i, row)
           THEN /\ UpsertUserNote(i, row)
                /\ atts' = [atts EXCEPT ![handlers[h].att].deleted = TRUE]
                /\ clock' = clock + 1
                /\ Goes(h, [handlers[h] EXCEPT !.pc = "unlink"])
                /\ UNCHANGED <<shares, recorded, members>>
           ELSE Done(h) /\ UNCHANGED <<dbVars, atts>>
    /\ UNCHANGED <<conns, hub, copies, agentOnline, syncVars, left, files, prune>>

\* The file may stay when it cannot be removed; the answer says so.
Unlink(h) ==
    /\ handlers[h].pc = "unlink"
    /\ \/ files' = {f \in files : f.tmp \/ f.att # handlers[h].att}
       \/ UNCHANGED files
    /\ markHomeNotesDirty(handlers[h].scope = "home")
    /\ Done(h)
    /\ UNCHANGED <<dbVars, conns, hub, copies, agentOnline, left, atts, prune>>
-----------------------------------------------------------------------------
(***************************************************************************)
(* Pruning.                                                                 *)
(***************************************************************************)
\* Mutant: the keys of deleted attachments count as live.
ListAllStorageKeys == DOMAIN atts

ListLiveNoteAttachmentStorageKeys == Live

pruneStart ==
    /\ prune.pc = "idle"
    /\ prune' = [pc |-> "walk", live |-> ListLiveNoteAttachmentStorageKeys, todo |-> files]
    /\ UNCHANGED <<noteVars, atts, files>>

\* Mutant: young files are removed as well.
prunableAtAnyAge(f) == f.tmp \/ f.att \notin prune.live

prunable(f) == (f.tmp \/ f.att \notin prune.live) /\ f.old

\* The walk comes to a file; it may be gone when it is removed.
pruneFile ==
    /\ \E f \in prune.todo :
         /\ files' = IF prunable(f) THEN files \ {f} ELSE files
         /\ prune' = [prune EXCEPT !.todo = @ \ {f}]
    /\ UNCHANGED <<noteVars, atts>>

\* RunOnce fails: a statement does, the walk misses a file that was there when
\* it read the directory, or a file cannot be removed.  Any error ends
\* Jobs.Run, and only the next start of the server prunes again.
maintenanceEnds ==
    /\ \/ prune.pc = "idle"
       \/ \E f \in prune.todo : (f.tmp \/ f.att \notin prune.live) /\ (f \notin files \/ f.old)
    /\ prune' = LoopOver
    /\ UNCHANGED <<noteVars, atts, files>>

pruneEnd ==
    /\ prune.pc = "walk" /\ prune.todo = {}
    /\ prune' = NoPrune
    /\ UNCHANGED <<noteVars, atts, files>>

\* The retention passes over a file that no running request has in hand.
FileAges(f) ==
    /\ prune.pc # "walk" /\ f \in files /\ ~f.old /\ f.att \notin Uploading
    /\ files' = (files \ {f}) \cup {[f EXCEPT !.old = TRUE]}
    /\ UNCHANGED <<noteVars, atts, prune>>

RestartFiles == Restart /\ prune' = NoPrune /\ UNCHANGED <<atts, files>>
-----------------------------------------------------------------------------
AttachmentStep(h) ==
    \/ UploadTemp(h) \/ UploadRename(h) \/ CreateNoteAttachmentAndSaveNote(h)
    \/ AdminReadsNote(h) \/ DeleteNoteAttachmentAndSaveNote(h) \/ Unlink(h)

AttachmentsWork ==
    \/ \E r \in left : UploadRead(r) \/ DetachRead(r) \/ AdminDetach(r)
    \/ \E h \in Requests : AttachmentStep(h)
    \/ pruneStart \/ pruneFile \/ pruneEnd \/ maintenanceEnds
    \/ \E f \in files : FileAges(f)

AttachmentsNext == AttachmentsWork \/ RestartFiles
-----------------------------------------------------------------------------
\* Every attachment that a note lists has its file, whatever uploads, deletes,
\* stops of the server and pruning runs interleave (a file is in place before
\* its row commits, and pruning spares what is younger than the retention).
LiveAttachmentsHaveFiles == \A a \in Live : \E f \in files : f.att = a /\ ~f.tmp

Orphan(a) == a \notin Live /\ a \notin Uploading /\ \E f \in files : f.att = a
==============================================================================

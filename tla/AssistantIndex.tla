---------------------------- MODULE AssistantIndex ----------------------------
(***************************************************************************)
(* The assistant's search index: whoever changes a source enqueues a job    *)
(* for it, one worker claims the jobs and copies each source into the       *)
(* index.  One user of one home, so a job is told apart by its source.      *)
(*                                                                         *)
(* jobs is the table assistant_index_jobs in the order of updated_at: a     *)
(* statement that sets updated_at moves the row to the end, and a claim     *)
(* takes the first row that is queued and due.  A source is abstracted to   *)
(* the version of its text; chunks and embeddings are left out.  A user's   *)
(* own saves enqueue a job, other changes of a note do not, and errors of   *)
(* the job table are only logged: a scenario says which of them may come.   *)
(***************************************************************************)
EXTENDS Naturals, Sequences, SequencesExt

CONSTANTS
    Notes,          \* notes, profile and shared
    MaxAttempts,    \* 5: the attempt after which a failure waits 30 minutes
    Scenarios       \* the starts that are checked

\* Sources other than the notes; each has one job with an empty source id.
Snapshots == {"calendar", "project_docs", "homeassistant", "files"}
Sources == Notes \cup Snapshots

VARIABLES
    jobs,       \* rows [src, status, attempts, due]
    documents,  \* the index: source -> version
    source,     \* what there is to index: source -> [ver, state]
    settings,   \* source types that the user has enabled
    worker,     \* the job that is processed: [src, pc, saw]
    owed,       \* sources that were written and whose enqueue is still to come
    adrift,     \* sources whose row is left running and that no worker processes
    stale,      \* history: sources that changed and whose change no job will read
    left        \* requests and events that are still to come; lasting conditions

indexVars == <<jobs, documents, source, settings, worker, owed, adrift, stale>>

TypeOf(s) == IF s \in Notes THEN "notes" ELSE s
Idle == [src |-> "", pc |-> "idle", saw |-> [ver |-> 0, state |-> "live"]]
JobOf(s) == {i \in DOMAIN jobs : jobs[i].src = s}
ToEnd(q, row) == Append(SelectSeq(q, LAMBDA j : j.src # row.src), row)
Has(src) == JobOf(src) # {}
Row(s) == jobs[CHOOSE i \in JobOf(s) : TRUE]

Happens(r, kind) == r \in left /\ r.kind = kind /\ left' = left \ {r}

\* Conditions that last: statements of a kind fail now and then, and indexing
\* a source fails again and again (its text is refused, the agent is away).
Unreliable(kind) == \E r \in left : r.kind = kind
Broken(s) == \E r \in left : r.kind = "broken" /\ r.n = s
-----------------------------------------------------------------------------
(***************************************************************************)
(* Enqueueing.  A source has one row: a conflict makes it queued and due    *)
(* again, keeps its attempts, and does not look at its status, so that a    *)
(* row that is being processed becomes queued as well.                      *)
(***************************************************************************)
EnqueueAssistantIndexJob(q, s) ==
    LET old == {i \in DOMAIN q : q[i].src = s}
        attempts == IF old = {} THEN 0 ELSE q[CHOOSE i \in old : TRUE].attempts
    IN  ToEnd(q, [src |-> s, status |-> "queued", attempts |-> attempts, due |-> TRUE])

\* The rest of the request does not see an enqueue that fails.  History: the
\* change is read by no job then, nor when the worker, which has read the
\* source before, completes the row over the enqueue.
Enqueues(ss) ==
    \E lost \in IF Unreliable("enqueues") THEN SUBSET ss ELSE {{}} :
        /\ jobs' = FoldLeft(EnqueueAssistantIndexJob, jobs, SetToSeq(ss \ lost))
        /\ adrift' = adrift \ (ss \ lost)
        /\ stale' = stale \cup lost \cup (IF worker.pc = "read" THEN {} ELSE {worker.src} \cap ss)

\* The write of a source, and then the enqueue by the same request.
Writes(s, state) ==
    /\ source' = [source EXCEPT ![s] = [ver |-> @.ver + 1, state |-> state]]
    /\ owed' = owed \cup {s}

\* The user saves or deletes a note.  Another member, an operation on the
\* notes socket or a pull of reconcileHomeNotes writes it without a job of this
\* user, and so does the member who no longer shares it.
NoteChanges ==
    /\ \E r \in left, n \in Notes :
         /\ r.n = n
         /\ \/ Happens(r, "save") /\ source[n].state # "hidden" /\ Writes(n, "live") /\ UNCHANGED stale
            \/ /\ Happens(r, "delete") /\ source[n].ver > 0 /\ source[n].state # "hidden"
               /\ Writes(n, "deleted") /\ UNCHANGED stale
            \/ /\ source[n].ver > 0 /\ source[n].state = "live"
               /\ \E to \in {"live", "deleted", "hidden"} :
                    /\ Happens(r, CASE to = "live" -> "edited" [] to = "deleted" -> "removed" [] OTHER -> "unshare")
                    /\ source' = [source EXCEPT ![n] = [ver |-> IF to = "hidden" THEN @.ver ELSE @.ver + 1, state |-> to]]
               /\ stale' = stale \cup {n}
               /\ UNCHANGED owed
    /\ UNCHANGED <<jobs, documents, settings, worker, adrift>>

handleAssistantCalendarIndex ==
    /\ \E r \in left : Happens(r, "calendar-index")
    /\ Writes("calendar", "live")
    /\ UNCHANGED <<jobs, documents, settings, worker, adrift, stale>>

\* What the agent and the project's files show changes without any request.
SnapshotChanges ==
    /\ \E r \in left, s \in Snapshots \ {"calendar"} :
         /\ r.n = s /\ Happens(r, "changes")
         /\ source' = [source EXCEPT ![s].ver = @ + 1]
    /\ UNCHANGED <<jobs, documents, settings, worker, owed, adrift, stale>>

enqueueAssistantIndexJob(s) ==
    /\ s \in owed
    /\ owed' = owed \ {s}
    /\ Enqueues({s})
    /\ UNCHANGED <<documents, source, settings, worker, left>>

\* A prompt refreshes every enabled snapshot before its tool runs.
refreshAssistantIndex(enabled) == Enqueues(Snapshots \cap enabled)

\* A request turns sources on and off, and keeps those it does not name.
applyAssistantSettingsUpdate(current, r) == (current \ r.off) \cup r.on

handleAssistantSettings ==
    /\ \E r \in left : Happens(r, "settings") /\ settings' = applyAssistantSettingsUpdate(settings, r)
    /\ UNCHANGED <<jobs, documents, source, worker, owed, adrift, stale>>
-----------------------------------------------------------------------------
(***************************************************************************)
(* The worker.                                                              *)
(***************************************************************************)
RequeueRunningAssistantIndexJobs(q) ==
    FoldLeft(ToEnd, q, [i \in 1..Len(SelectSeq(q, LAMBDA j : j.status = "running")) |->
        [SelectSeq(q, LAMBDA j : j.status = "running")[i] EXCEPT !.status = "queued", !.due = TRUE]])

\* Mistake: the jobs of the stopped worker stay as they are.
StartWithoutRequeue == jobs' = jobs /\ worker' = Idle /\ adrift' = {}

startAssistantIndexWorker ==
    /\ \/ jobs' = RequeueRunningAssistantIndexJobs(jobs) /\ adrift' = {}
       \/ /\ Unreliable("updates")
          /\ adrift' = {s \in Sources : Has(s) /\ Row(s).status = "running"}
          /\ UNCHANGED jobs
    /\ worker' = Idle

\* Mistake: the job that was touched last is taken first.
ClaimsNewest ==
    /\ worker.pc = "idle"
    /\ \E i \in DOMAIN jobs :
         /\ jobs[i].status = "queued" /\ jobs[i].due
         /\ \A j \in (i + 1)..Len(jobs) : ~(jobs[j].status = "queued" /\ jobs[j].due)
         /\ jobs' = ToEnd(jobs, [jobs[i] EXCEPT !.status = "running"])
         /\ worker' = [Idle EXCEPT !.src = jobs[i].src, !.pc = "read"]
    /\ UNCHANGED <<documents, source, settings, owed, adrift, stale, left>>

\* Attempts are counted up to the one that matters.
ClaimAssistantIndexJob ==
    /\ worker.pc = "idle"
    /\ \E i \in DOMAIN jobs :
         /\ jobs[i].status = "queued" /\ jobs[i].due
         /\ \A j \in 1..(i - 1) : ~(jobs[j].status = "queued" /\ jobs[j].due)
         /\ jobs' = ToEnd(jobs, [jobs[i] EXCEPT !.status = "running", !.attempts = IF @ < MaxAttempts THEN @ + 1 ELSE @])
         /\ worker' = [Idle EXCEPT !.src = jobs[i].src, !.pc = "read"]
    /\ UNCHANGED <<documents, source, settings, owed, adrift, stale, left>>

\* A source that is turned off, and a note that does not exist or that the
\* user cannot see, leave the index as it is.
processAssistantIndexJob ==
    /\ worker.pc = "read"
    /\ LET s == worker.src IN
       /\ worker' = [worker EXCEPT !.saw = source[s],
                        !.pc = IF TypeOf(s) \in settings /\ source[s].ver > 0 /\ source[s].state # "hidden"
                               THEN "write" ELSE "complete"]
       /\ stale' = IF TypeOf(s) \in settings THEN stale \ {s} ELSE stale \cup {s}
    /\ UNCHANGED <<jobs, documents, source, settings, owed, adrift, left>>

UpsertAssistantDocumentWithChunks(s, version) ==
    documents' = [t \in DOMAIN documents \cup {s} |-> IF t = s THEN version ELSE documents[t]]

\* Mistake: a deleted note keeps its document.
KeepDocumentForSource(s) == documents' = documents

DeleteAssistantDocumentForSource(s) ==
    documents' = [t \in DOMAIN documents \ {s} |-> documents[t]]

\* One source, or every entry, entity, file or document of a snapshot.
indexAssistantNote(n, saw) == UpsertAssistantDocumentWithChunks(n, saw.ver)
indexAssistantCalendarEntries(saw) == UpsertAssistantDocumentWithChunks("calendar", saw.ver)
indexAssistantProjectDocs(saw) == UpsertAssistantDocumentWithChunks("project_docs", saw.ver)

\* Without the permission, and when the agent answers with an error, the job
\* completes and leaves the index as it is.
indexAssistantHomeAssistantStates(saw) ==
    UpsertAssistantDocumentWithChunks("homeassistant", saw.ver) \/ UNCHANGED documents
indexAssistantFiles(saw) == UpsertAssistantDocumentWithChunks("files", saw.ver) \/ UNCHANGED documents

WritesDocument ==
    /\ worker.pc = "write"
    /\ LET s == worker.src
           saw == worker.saw
       IN  \/ s \in Notes /\ saw.state = "deleted" /\ DeleteAssistantDocumentForSource(s)
           \/ s \in Notes /\ saw.state # "deleted" /\ indexAssistantNote(s, saw)
           \/ s = "calendar" /\ indexAssistantCalendarEntries(saw)
           \/ s = "project_docs" /\ indexAssistantProjectDocs(saw)
           \/ s = "homeassistant" /\ indexAssistantHomeAssistantStates(saw)
           \/ s = "files" /\ indexAssistantFiles(saw)
    /\ worker' = [worker EXCEPT !.pc = "complete"]
    /\ UNCHANGED <<jobs, source, settings, owed, adrift, stale, left>>

\* The statement names the row only: it completes a row that was enqueued
\* again while it was processed.
CompleteAssistantIndexJob(s) == jobs' = ToEnd(jobs, [Row(s) EXCEPT !.status = "completed"])

\* An error of the update is logged and the row stays as it is; nothing but
\* the next enqueue or start takes up a row that stays running.
Update(s, done) ==
    \/ done /\ UNCHANGED adrift
    \/ /\ Unreliable("updates")
       /\ adrift' = IF Row(s).status = "running" THEN adrift \cup {s} ELSE adrift
       /\ UNCHANGED jobs

Completes ==
    /\ worker.pc = "complete"
    /\ Update(worker.src, CompleteAssistantIndexJob(worker.src))
    /\ worker' = Idle
    /\ UNCHANGED <<documents, source, settings, owed, stale, left>>

\* After the attempt MaxAttempts the delay is 30 minutes.  The row fails for
\* good only if the clock shows the same time when the delay is added and when
\* the statement is made; otherwise it is queued however often it has failed.
FailAssistantIndexJob(s) ==
    \E status \in IF Row(s).attempts >= MaxAttempts THEN {"queued", "failed"} ELSE {"queued"} :
        jobs' = ToEnd(jobs, [Row(s) EXCEPT !.status = status, !.due = FALSE])

Fails ==
    /\ worker.pc \in {"read", "write"}
    /\ \/ \E r \in left : Happens(r, "fail")
       \/ Broken(worker.src) /\ UNCHANGED left
    /\ Update(worker.src, FailAssistantIndexJob(worker.src))
    /\ worker' = Idle
    /\ UNCHANGED <<documents, source, settings, owed, stale>>

\* The retry delay of a job is over.
RunAfterPasses(s) ==
    /\ \E i \in JobOf(s) :
         /\ jobs[i].status = "queued" /\ ~jobs[i].due
         /\ jobs' = [jobs EXCEPT ![i].due = TRUE]
    /\ UNCHANGED <<documents, source, settings, worker, owed, adrift, stale, left>>

processNextAssistantIndexJob ==
    \/ ClaimAssistantIndexJob
    \/ processAssistantIndexJob
    \/ WritesDocument
    \/ Completes
    \/ Fails

\* The enqueues that the stop prevents never happen.
RestartIndex ==
    /\ startAssistantIndexWorker
    /\ owed' = {} /\ stale' = stale \cup owed
    /\ UNCHANGED <<documents, source, settings>>
-----------------------------------------------------------------------------
IndexInit ==
    \E sc \in Scenarios :
        /\ left = sc.left /\ settings = sc.settings
        /\ source = [s \in Sources |-> [ver |-> IF s \in Notes \ sc.notes THEN 0 ELSE 1, state |-> "live"]]
        /\ jobs = <<>> /\ documents = <<>> /\ worker = Idle /\ owed = {} /\ adrift = {} /\ stale = {}

IndexWork ==
    \/ NoteChanges
    \/ handleAssistantCalendarIndex
    \/ SnapshotChanges
    \/ handleAssistantSettings
    \/ \E s \in owed : enqueueAssistantIndexJob(s)
    \/ processNextAssistantIndexJob
    \/ \E s \in Sources : RunAfterPasses(s)
-----------------------------------------------------------------------------
(***************************************************************************)
(* Every job that is enqueued is completed or fails in the end, whatever    *)
(* retries and restarts come between, and although a source that can never  *)
(* be indexed is tried for ever: it does not keep the others from their     *)
(* turn.  Only a row whose update failed stays as it is, until the source   *)
(* is enqueued or the server started again.                                 *)
(***************************************************************************)
JobsSettle ==
    <>[](\A s \in Sources : Has(s) => Row(s).status \in {"completed", "failed"} \/ s \in adrift \/ Broken(s))

(***************************************************************************)
(* When the job of a note is completed the index holds the note as it is    *)
(* now, and holds nothing of a deleted one, unless the note has changed     *)
(* since in a way that no job reads: without an enqueue of this user, with  *)
(* one that failed, that a stop prevented, or that the worker completed     *)
(* over, or while the source was turned off.  Whatever it missed, the next  *)
(* job that reads the note brings the index up to date.                     *)
(***************************************************************************)
IndexFollowsNotes ==
    \A n \in Notes \ (owed \cup stale) :
        Has(n) /\ Row(n).status = "completed" =>
            CASE source[n].state = "live" -> n \in DOMAIN documents /\ documents[n] = source[n].ver
              [] source[n].state = "deleted" -> n \notin DOMAIN documents
              [] OTHER -> TRUE
===============================================================================

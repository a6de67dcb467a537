---------------------------- MODULE FileMoveJobs ----------------------------
(***************************************************************************)
(* A managed file move: the job row in file_operation_jobs, the goroutines *)
(* of the cloud that write its status (the app's read loop, the relay's    *)
(* timer, the agent socket's read loop, the cancel, retry and rollback     *)
(* handlers), and the goroutines of the agent that copy the file, verify   *)
(* the copy and delete the source.                                         *)
(*                                                                         *)
(* One job and one file.  Between cloud and agent runs one connection with *)
(* a FIFO queue each way; a move goroutine keeps the connection its job    *)
(* was started on and its events are lost once that connection is gone.    *)
(* A statement of the store and a step on the file system are one action.  *)
(***************************************************************************)
EXTENDS Naturals, Sequences, FiniteSets

CONSTANTS Handlers,     \* requests for cancel, retry or rollback, each once
          Renames,      \* BOOLEAN, or {FALSE} to leave renames out
          MoveBreaks,    \* bound on lost connections and agent crashes
          MoveRestarts,  \* bound on restarts of the cloud
          Nil

ASSUME BoundAssumption == MoveBreaks \in Nat /\ MoveRestarts \in Nat
                          /\ Renames \subseteq BOOLEAN

ASSUME HandlersAssumption == IsFiniteSet(Handlers)

\* The app's submission and every retry start at most one attempt.
MaxAttempts == Cardinality(Handlers) + 1
Attempts == 1..MaxAttempts

VARIABLES
  status,     \* file_operation_jobs.status
  submit,     \* the app's read loop
  awaited,    \* the relay's pending entry of the app's files.move
  expiring,   \* its timer took the entry and is about to write the status
  op,         \* op[h]: what handler h does and how far it is
  toAgent, toCloud, \* the connection's queues
  loop,       \* the message the agent socket's read loop is applying
  attempt,    \* attempt[k]: state, cancelled or not, connection
  started,    \* number of attempts started
  moves,      \* Client.moves: the attempt registered for the job, or 0
  slot,       \* Client.moveSlots: the attempt that holds the only slot, or 0
  source, dest,     \* the file at its source and at its destination
  sameSource, \* the move is a rename within one source
  rolledBack, \* the agent has executed files.move_rollback (history)
  breaks, restarts

cloud == <<status, submit, awaited, expiring, op, loop>>
moveLink == <<toAgent, toCloud, breaks>>
agent == <<attempt, started, moves, slot>>
disk == <<source, dest, rolledBack>>
moveVars == <<cloud, moveLink, agent, disk, sameSource, restarts>>

Active == {"queued", "running"}
Final == {"completed", "failed", "cancelled", "rollback_required",
          "rolled_back"}
Idle == [kind |-> "none", at |-> "idle"]
Done == [kind |-> "none", at |-> "done"]
NoAttempt == [at |-> "none", cancelled |-> FALSE, conn |-> 0, result |-> "none"]
Ended == [NoAttempt EXCEPT !.at = "ended"]

MoveInit ==
  /\ status = "none" /\ submit = "idle" /\ awaited = FALSE /\ expiring = FALSE
  /\ op = [h \in Handlers |-> Idle]
  /\ toAgent = <<>> /\ toCloud = <<>> /\ loop = Nil
  /\ attempt = [k \in Attempts |-> NoAttempt]
  /\ started = 0 /\ moves = 0 /\ slot = 0
  /\ source = "present" /\ dest = "absent" /\ rolledBack = FALSE
  /\ sameSource \in Renames
  /\ breaks = 0 /\ restarts = 0

Command(c, from) == [cmd |-> c, from |-> from]
Response(to, result) == [kind |-> "response", to |-> to, status |-> result]
Event(result) == [kind |-> "event", to |-> Nil, status |-> result]

-----------------------------------------------------------------------------
(* The app's read loop: prepareManagedFileCommand, the relay, and           *)
(* markFileJobRunning.                                                      *)

Submit ==
  /\ submit = "idle"
  /\ submit' = "created" /\ status' = "queued"
  /\ UNCHANGED <<awaited, expiring, op, loop, moveLink, agent, disk, sameSource,
                 restarts>>

\* No agent, no slot, or the write fails: failFileJob.
SubmitFails ==
  /\ submit = "created"
  /\ submit' = "done" /\ status' = "failed"
  /\ UNCHANGED <<awaited, expiring, op, loop, moveLink, agent, disk, sameSource,
                 restarts>>

Dispatch ==
  /\ submit = "created"
  /\ submit' = "written" /\ awaited' = TRUE
  /\ toAgent' = Append(toAgent, Command("move", "app"))
  /\ UNCHANGED <<status, expiring, op, loop, toCloud, breaks, agent, disk,
                 sameSource, restarts>>

\* markFileJobRunning does not look at the status it overwrites.
MarkRunning ==
  /\ submit = "written"
  /\ submit' = "done" /\ status' = "running"
  /\ UNCHANGED <<awaited, expiring, op, loop, moveLink, agent, disk, sameSource,
                 restarts>>

\* The relay's timer takes the entry; handlePendingTimeout fails the job.
PendingTimeout ==
  /\ awaited
  /\ awaited' = FALSE /\ expiring' = TRUE
  /\ UNCHANGED <<status, submit, op, loop, moveLink, agent, disk, sameSource,
                 restarts>>

TimeoutJob ==
  /\ expiring
  /\ expiring' = FALSE /\ status' = "rollback_required"
  /\ UNCHANGED <<submit, awaited, op, loop, moveLink, agent, disk, sameSource,
                 restarts>>

-----------------------------------------------------------------------------
(* The agent socket's read loop: handleAgentResponse with                  *)
(* completePendingFileJob, and handleFileMoveJobEvent.  Both read the row, *)
(* drop what comes after a cancellation, and then write the status.        *)

Concerns(m) ==
  IF m.kind = "event"
  THEN status # "cancelled" \/ m.status \notin {"running", "completed"}
  ELSE m.to = "app" /\ awaited /\ status # "cancelled"

CloudReads ==
  /\ loop = Nil /\ toCloud # <<>>
  /\ LET m == Head(toCloud) IN
       /\ loop' = IF Concerns(m) THEN m ELSE Nil
       /\ awaited' = (awaited /\ m.to # "app")
       /\ op' = [h \in Handlers |->
                   IF m.to = h /\ op[h].at = "waiting"
                   THEN [op[h] EXCEPT !.at = IF m.status = "error"
                                             THEN "refused" ELSE "answered"]
                   ELSE op[h]]
  /\ toCloud' = Tail(toCloud)
  /\ UNCHANGED <<status, submit, expiring, toAgent, breaks, agent, disk,
                 sameSource, restarts>>

CloudUpdates ==
  /\ loop # Nil
  /\ status' = loop.status
  /\ loop' = Nil
  /\ UNCHANGED <<submit, awaited, expiring, op, moveLink, agent, disk,
                 sameSource, restarts>>

-----------------------------------------------------------------------------
(* The handlers behind cancel, retry and rollback. *)

StepTo(h, s) == op' = [op EXCEPT ![h].at = s]
Leave(h) == op' = [op EXCEPT ![h] = Done]

\* The row is read and the operation found applicable.
Applicable(kind) ==
  \/ kind = "cancel" /\ status \in {"queued", "running", "rollback_required"}
  \/ kind = "retry" /\ status \in {"failed", "cancelled"}
  \/ kind = "rollback" /\ status = "rollback_required"

Request(h, kind) ==
  /\ op[h] = Idle
  /\ Applicable(kind)
  /\ op' = [op EXCEPT ![h] = [kind |-> kind,
                              at |-> IF kind = "rollback" THEN "sending"
                                     ELSE "read"]]
  /\ UNCHANGED <<status, submit, awaited, expiring, loop, moveLink, agent, disk,
                 sameSource, restarts>>

\* Cancel and retry write the status before the agent is told.
UpdateFirst(h) ==
  /\ op[h].at = "read"
  /\ status' = IF op[h].kind = "cancel" THEN "cancelled" ELSE "running"
  /\ StepTo(h, "sending")
  /\ UNCHANGED <<submit, awaited, expiring, loop, moveLink, agent, disk,
                 sameSource, restarts>>

\* sendAgentCommand; cancel does not use the answer.
Send(h) ==
  /\ op[h].at = "sending"
  /\ LET c == IF op[h].kind = "retry" THEN "move" ELSE op[h].kind
     IN toAgent' = Append(toAgent, Command(c, h))
  /\ IF op[h].kind = "cancel" THEN Leave(h) ELSE StepTo(h, "waiting")
  /\ UNCHANGED <<status, submit, awaited, expiring, loop, toCloud, breaks,
                 agent, disk, sameSource, restarts>>

\* The agent is offline, the write fails or nothing comes back in time.
SendFails(h) ==
  /\ op[h].at \in {"sending", "waiting"}
  /\ IF op[h].kind = "retry" THEN StepTo(h, "refused") ELSE Leave(h)
  /\ UNCHANGED <<status, submit, awaited, expiring, loop, moveLink, agent, disk,
                 sameSource, restarts>>

\* The client went away: the request's context is cancelled, and with it the
\* wait and the statement that would follow.
RequestAbandoned(h) ==
  /\ op[h].at \in {"sending", "waiting"}
  /\ Leave(h)
  /\ UNCHANGED <<status, submit, awaited, expiring, loop, moveLink, agent, disk,
                 sameSource, restarts>>

\* A retry writes through UpdateFileOperationJobMonotonic when the agent has
\* accepted it; a rollback writes its outcome over whatever is there.
UpdateLast(h) ==
  /\ op[h].at \in {"answered", "refused"}
  /\ status' = IF op[h].kind = "rollback"
               THEN IF op[h].at = "refused" THEN status ELSE "rolled_back"
               ELSE IF op[h].at = "refused" THEN "failed"
               ELSE IF status \in Final THEN status ELSE "running"
  /\ Leave(h)
  /\ UNCHANGED <<submit, awaited, expiring, loop, moveLink, agent, disk,
                 sameSource, restarts>>

-----------------------------------------------------------------------------
(* The agent's read loop. *)

CancelRegistered ==
  [k \in Attempts |->
     IF k = moves THEN [attempt[k] EXCEPT !.cancelled = TRUE] ELSE attempt[k]]

\* startMoveJob cancels the attempt registered for the job, registers a new
\* one, answers, and starts it.
StartMove ==
  /\ toAgent # <<>> /\ Head(toAgent).cmd = "move"
  /\ started' = started + 1
  /\ attempt' = [CancelRegistered EXCEPT
                   ![started + 1] = [NoAttempt EXCEPT
                                       !.at = "waiting",
                                       !.conn = breaks + restarts]]
  /\ moves' = started + 1
  /\ toCloud' = Append(toCloud, Response(Head(toAgent).from, "running"))
  /\ toAgent' = Tail(toAgent)
  /\ UNCHANGED <<cloud, breaks, slot, disk, sameSource, restarts>>

\* The answer cannot be written: the new attempt is dropped, the connection
\* is given up.
StartMoveFails ==
  /\ toAgent # <<>> /\ Head(toAgent).cmd = "move"
  /\ breaks < MoveBreaks /\ breaks' = breaks + 1
  /\ attempt' = CancelRegistered /\ moves' = 0
  /\ toAgent' = <<>> /\ toCloud' = <<>>
  /\ UNCHANGED <<cloud, started, slot, disk, sameSource, restarts>>

CancelMove ==
  /\ toAgent # <<>> /\ Head(toAgent).cmd = "cancel"
  /\ attempt' = CancelRegistered
  /\ toAgent' = Tail(toAgent)
  /\ UNCHANGED <<cloud, toCloud, breaks, started, moves, slot, disk,
                 sameSource, restarts>>

\* RollbackMoveDestination, in the read loop itself; the deletion may fail.
RollbackMove ==
  /\ toAgent # <<>> /\ Head(toAgent).cmd = "rollback"
  /\ \/ /\ dest' = "absent" /\ rolledBack' = TRUE
        /\ toCloud' = Append(toCloud, Response(Head(toAgent).from, "rolled_back"))
     \/ /\ UNCHANGED <<dest, rolledBack>>
        /\ toCloud' = Append(toCloud, Response(Head(toAgent).from, "error"))
  /\ toAgent' = Tail(toAgent)
  /\ UNCHANGED <<cloud, breaks, agent, source, sameSource, restarts>>
-----------------------------------------------------------------------------
(* A move goroutine: runMoveJob and MoveBetweenSourcesWithProgress. *)

Step(k, s) == attempt' = [attempt EXCEPT ![k].at = s]
Finish(k, r) == attempt' = [attempt EXCEPT ![k].at = "reporting", ![k].result = r]

\* An event goes out on the connection the job was started on.
Emit(k, e) ==
  toCloud' = IF attempt[k].conn = breaks + restarts THEN Append(toCloud, e)
             ELSE toCloud

Quiet == UNCHANGED <<cloud, toAgent, breaks, started, sameSource, restarts>>

\* Mutant: a goroutine does not wait for the one before it.
TakeSlotAnyway(k) ==
  /\ attempt[k].at = "waiting"
  /\ slot' = k
  /\ Step(k, "planning")
  /\ Quiet /\ UNCHANGED <<toCloud, moves, disk>>

TakeSlot(k) ==
  /\ attempt[k].at = "waiting" /\ slot = 0
  /\ slot' = k
  /\ Step(k, "planning")
  /\ Quiet /\ UNCHANGED <<toCloud, moves, disk>>

WaitCancelled(k) ==
  /\ attempt[k].at = "waiting" /\ attempt[k].cancelled
  /\ Finish(k, "cancelled")
  /\ Quiet /\ UNCHANGED <<toCloud, moves, slot, disk>>

\* Within one source the move is a rename.
Rename(k) ==
  /\ attempt[k].at = "planning" /\ sameSource
  /\ \/ /\ source = "present"
        /\ source' = "gone" /\ dest' = "complete"
        /\ Finish(k, "completed")
     \/ Finish(k, "failed") /\ UNCHANGED <<source, dest>>
  /\ Quiet /\ UNCHANGED <<toCloud, moves, slot, rolledBack>>

\* planMove needs the source; the first progress event follows.
Plan(k) ==
  /\ attempt[k].at = "planning" /\ ~sameSource
  /\ \/ source = "present" /\ Step(k, "copying") /\ Emit(k, Event("running"))
     \/ Finish(k, "failed") /\ UNCHANGED toCloud
  /\ Quiet /\ UNCHANGED <<moves, slot, disk>>

\* copyMoveFile opens the source, then the destination, which it truncates.
OpenFiles(k) ==
  /\ attempt[k].at = "copying"
  /\ \/ /\ source = "present" /\ Step(k, "writing")
        /\ dest' = "partial"
     \/ Finish(k, "failed") /\ UNCHANGED dest
  /\ Quiet /\ UNCHANGED <<toCloud, moves, slot, source, rolledBack>>

\* The last chunk is written, or the copy ends early.
Copy(k) ==
  /\ attempt[k].at = "writing"
  /\ \/ /\ Step(k, "verifying")
        /\ dest' = IF dest = "partial" THEN "complete" ELSE dest
     \/ /\ Finish(k, IF attempt[k].cancelled THEN "cancelled" ELSE "failed")
        /\ UNCHANGED dest
  /\ Quiet /\ UNCHANGED <<toCloud, moves, slot, source, rolledBack>>

Verify(k) ==
  /\ attempt[k].at = "verifying"
  /\ \/ /\ source = "present" /\ dest = "complete" /\ ~attempt[k].cancelled
        /\ Step(k, "verified")
     \/ Finish(k, IF attempt[k].cancelled THEN "cancelled" ELSE "failed")
  /\ Quiet /\ UNCHANGED <<toCloud, moves, slot, disk>>

\* Mutant: success is reported before the source is deleted.
CheckCancelledReportsFirst(k) ==
  /\ attempt[k].at = "verified"
  /\ Finish(k, IF attempt[k].cancelled THEN "rollback_required" ELSE "completed")
  /\ Quiet /\ UNCHANGED <<toCloud, moves, slot, disk>>

\* The last look at the context before the source is deleted.
CheckCancelled(k) ==
  /\ attempt[k].at = "verified"
  /\ IF attempt[k].cancelled THEN Finish(k, "rollback_required")
     ELSE Step(k, "deleting")
  /\ Quiet /\ UNCHANGED <<toCloud, moves, slot, disk>>

DeleteSource(k) ==
  /\ attempt[k].at = "deleting"
  /\ \/ source = "present" /\ source' = "gone" /\ Finish(k, "completed")
     \/ UNCHANGED source /\ Finish(k, "rollback_required")
  /\ Quiet /\ UNCHANGED <<toCloud, moves, slot, dest, rolledBack>>

\* The final event, then the deferred release of the slot and deleteMove,
\* which goes by the job's ID.
Report(k) ==
  /\ attempt[k].at = "reporting"
  /\ Step(k, "reported")
  /\ Emit(k, Event(attempt[k].result))
  /\ Quiet /\ UNCHANGED <<moves, slot, disk>>

\* Mutant: a failed move keeps the slot.
ReleaseSlotOnSuccess(k) ==
  /\ attempt[k].at = "reported"
  /\ Step(k, "released")
  /\ slot' = IF slot = k /\ attempt[k].result = "completed" THEN 0 ELSE slot
  /\ Quiet /\ UNCHANGED <<toCloud, moves, disk>>

ReleaseSlot(k) ==
  /\ attempt[k].at = "reported"
  /\ Step(k, "released")
  /\ slot' = IF slot = k THEN 0 ELSE slot
  /\ Quiet /\ UNCHANGED <<toCloud, moves, disk>>

DeleteMove(k) ==
  /\ attempt[k].at = "released"
  /\ attempt' = [attempt EXCEPT ![k] = Ended]
  /\ moves' = 0
  /\ Quiet /\ UNCHANGED <<toCloud, slot, disk>>

-----------------------------------------------------------------------------
(* Lost connections, crashes and restarts. *)

ConnectionBreaks ==
  /\ breaks < MoveBreaks
  /\ breaks' = breaks + 1
  /\ toAgent' = <<>> /\ toCloud' = <<>>
  /\ UNCHANGED <<cloud, agent, disk, sameSource, restarts>>

AgentCrashes ==
  /\ breaks < MoveBreaks
  /\ breaks' = breaks + 1
  /\ toAgent' = <<>> /\ toCloud' = <<>>
  /\ attempt' = [k \in Attempts |-> IF k > started THEN NoAttempt ELSE Ended]
  /\ moves' = 0 /\ slot' = 0
  /\ UNCHANGED <<cloud, started, disk, sameSource, restarts>>

\* MarkInterruptedFileOperationJobs at startup; the agent carries on.
CloudRestarts ==
  /\ restarts < MoveRestarts
  /\ restarts' = restarts + 1
  /\ status' = IF status \in Active THEN "rollback_required" ELSE status
  /\ submit' = IF submit = "idle" THEN "idle" ELSE "done"
  /\ awaited' = FALSE /\ expiring' = FALSE /\ loop' = Nil
  /\ op' = [h \in Handlers |-> IF op[h] = Idle THEN Idle ELSE Done]
  /\ toAgent' = <<>> /\ toCloud' = <<>>
  /\ UNCHANGED <<breaks, agent, disk, sameSource>>
-----------------------------------------------------------------------------
AppStep == Submit \/ SubmitFails \/ Dispatch \/ MarkRunning
TimerStep == PendingTimeout \/ TimeoutJob
SocketStep == CloudReads \/ CloudUpdates
HandlerStep(h) ==
  UpdateFirst(h) \/ Send(h) \/ SendFails(h) \/ RequestAbandoned(h) \/ UpdateLast(h)
AgentStep == StartMove \/ CancelMove \/ RollbackMove
AttemptStep(k) ==
  \/ TakeSlot(k) \/ WaitCancelled(k) \/ Rename(k) \/ Plan(k) \/ OpenFiles(k)
  \/ Copy(k) \/ Verify(k) \/ CheckCancelled(k) \/ DeleteSource(k)
  \/ Report(k) \/ ReleaseSlot(k) \/ DeleteMove(k)

MoveNext ==
  \/ AppStep \/ TimerStep \/ SocketStep
  \/ \E h \in Handlers : HandlerStep(h)
  \/ \E h \in Handlers, kind \in {"cancel", "retry", "rollback"} :
       Request(h, kind)
  \/ AgentStep \/ StartMoveFails
  \/ \E k \in Attempts : AttemptStep(k)
  \/ ConnectionBreaks \/ AgentCrashes \/ CloudRestarts

MoveSpec == MoveInit /\ [][MoveNext]_moveVars

\* Every goroutine of both processes runs on.  No fairness for the user, the
\* timer, the network or crashes.
MoveFairness ==
  /\ WF_moveVars(SubmitFails \/ Dispatch \/ MarkRunning)
  /\ WF_moveVars(TimeoutJob) /\ WF_moveVars(SocketStep) /\ WF_moveVars(AgentStep)
  /\ \A h \in Handlers : WF_moveVars(HandlerStep(h))
  /\ \A k \in Attempts : WF_moveVars(AttemptStep(k))

-----------------------------------------------------------------------------
\* Whatever is retried, cancelled or crashes: as long as no rollback has been
\* executed, a complete copy of the file exists at one end or the other.  The
\* attempts of a job, of which an older one may still be running when a retry
\* starts the next, truncate the same destination; the slot keeps them apart.
CopySurvives ==
  source = "gone" /\ dest # "complete" => rolledBack

\* The row says "completed" only for a file that has left its source.
CompletedMeansMoved == status = "completed" => source = "gone"

\* Every move goroutine comes to its end: the slot is given back on every
\* path, so no retry waits for ever.
AttemptsEnd == <>[](\A k \in Attempts : attempt[k].at \in {"none", "ended"})

\* A job in rollback_required still has its source, so that rolling back -
\* deleting the destination - never destroys the only copy.
RollbackKeepsACopy == source = "present" \/ dest = "complete"

=============================================================================

----------------------------- MODULE FileUpload -----------------------------
(***************************************************************************)
(* Uploads of one file over one transfer lease: the PUT requests of the    *)
(* client (handleFileTransfer, MethodPut, of internal/cloud/server.go),    *)
(* the session and its row, the goroutine of the cloud that reads the      *)
(* agent's socket, the socket in both directions, and the agent's side     *)
(* (internal/agent/transfers.go) with the file it writes.                  *)
(*                                                                         *)
(* The client's file is the chunks 1..Size in this order; a hole that a    *)
(* write past the end leaves in the agent's file is chunk 0.               *)
(***************************************************************************)
EXTENDS TransferSession, Sequences, FiniteSets

CONSTANTS Puts,          \* PUT requests, each used at most once
          Size,          \* chunks of the client's file
          Limits,        \* values of the policy's limit in chunks, 0 for none
          MaxBreaks,     \* bound on lost connections of the agent
          MaxRestarts,   \* bound on restarts of the cloud
          WriteMayFail,  \* whether the agent's disk may refuse a write
          None

ASSUME UploadAssumption ==
    /\ Size \in Nat \ {0} /\ Limits \subseteq Nat
    /\ MaxBreaks \in Nat /\ MaxRestarts \in Nat
    /\ WriteMayFail \in BOOLEAN
    /\ None \notin Puts

VARIABLES
    pc,        \* pc[h]: where the handler of request h is
    sess,      \* sess[h]: the session object the handler works on
    off,       \* off[h]: the offset the attempt starts at
    lim,       \* lim[h]: maxUploadBytes as the request read it
    cur,       \* cur[h]: currentOffset of the body loop
    rec,       \* rec[h]: the row as authorizeTransfer read it
    mapped,    \* the session in transferRegistry.transfers
    objects,   \* the session objects, indexed in the order of creation
    attempts,  \* transferRegistry.attempts: the registered requests
    row,       \* the file_transfers row
    job,       \* the status of the file_operation_jobs row
    expired,   \* the lease's ExpiresAt has passed
    ready,     \* ready[h]: the ReadyCh of the attempt, capacity 1
    complete,  \* complete[h]: the CompleteCh of the attempt, capacity 1
    epoch,     \* number of the agent's current connection
    up,        \* the current connection is alive
    conn,      \* conn[h]: the connection the handler resolved
    down,      \* messages on the way to the agent
    uplink,    \* messages on the way to the cloud
    reader,    \* reader[e]: channel sends connection e's reader has to do
    handles,   \* handles[h]: size of the agent's uploadTransfer, or None
    file,      \* the agent's file
    late,      \* messages the read loops of lost connections still handle
    raced,     \* an upload was opened while one of them did
    restarts

handler == <<pc, sess, off, lim, cur, rec, conn>>
registry == <<mapped, objects, attempts>>
durable == <<row, job, expired>>
channels == <<ready, complete>>
link == <<epoch, up, down, uplink>>
agent == <<handles, file, late, raced>>
vars == <<handler, registry, durable, channels, link, reader, agent, restarts>>

\* The connections of the agent, numbered as they are made.
Epochs == 0..(MaxBreaks + MaxRestarts)

\* States in which a handler has begun its attempt and not ended it.
Live == {"begun", "persisted", "waitReady", "sending", "waitComplete",
         "failing", "finishing", "ending"}

Init ==
    /\ pc = [h \in Puts |-> "new"]
    /\ sess = [h \in Puts |-> 0]
    /\ off = [h \in Puts |-> 0]
    /\ lim = [h \in Puts |-> 0]
    /\ cur = [h \in Puts |-> 0]
    /\ rec = [h \in Puts |-> NewRow]
    /\ mapped = 1
    /\ objects = <<NewSession>>
    /\ attempts = {}
    /\ row = NewRow
    /\ job = "queued"
    /\ expired = FALSE
    /\ ready = [h \in Puts |-> <<>>]
    /\ complete = [h \in Puts |-> <<>>]
    /\ epoch = 0
    /\ up = TRUE
    /\ conn = [h \in Puts |-> 0]
    /\ down = <<>>
    /\ uplink = <<>>
    /\ reader = [e \in Epochs |-> <<>>]
    /\ handles = [h \in Puts |-> None]
    /\ file = <<>>
    /\ late = {} /\ raced = FALSE
    /\ restarts = 0

Goto(h, from, to) ==
    /\ pc[h] = from
    /\ pc' = [pc EXCEPT ![h] = to]

\* persistTransferJobStatus
JobStatus(status) ==
    CASE status = "active" -> "running"
      [] status = "completed" -> "completed"
      [] status = "failed" -> "failed"

Persist(h, s, status) ==
    /\ row' = Persisted(s, status)
    /\ job' = JobStatus(status)

-----------------------------------------------------------------------------
(* The PUT handler.                                                        *)

\* maxFileUploadBytes reads the policy, which may have changed since the last
\* request; the offset is the request's own or the session's next.  A declared
\* length beyond the limit fails the upload before it begins.
Offset(h, s) ==
    \E o \in 0..Size, max \in Limits, declared \in BOOLEAN :
        /\ off' = [off EXCEPT ![h] = o]
        /\ lim' = [lim EXCEPT ![h] = max]
        /\ IF declared /\ o < Size /\ max > 0 /\ Size > max
           THEN /\ pc' = [pc EXCEPT ![h] = "ended"]
                /\ Persist(h, s, "failed")
           ELSE /\ pc' = [pc EXCEPT ![h] = "authorized"]
                /\ UNCHANGED <<row, job>>

\* transferRegistry.Authorize finds the session.
Authorize(h) ==
    /\ pc[h] = "new"
    /\ mapped # 0 /\ ~expired
    /\ sess' = [sess EXCEPT ![h] = mapped]
    /\ Offset(h, objects[mapped])
    /\ UNCHANGED <<cur, rec, conn, registry, expired, channels, link, reader,
                   agent, restarts>>

\* transferRegistry.Get does not find it, or finds it expired and drops it.
Missed(h) ==
    /\ Goto(h, "new", "missed")
    /\ mapped = 0 \/ expired
    /\ mapped' = 0
    /\ UNCHANGED <<sess, off, lim, cur, rec, conn, objects, attempts, durable,
                   channels, link, reader, agent, restarts>>

\* authorizeTransfer reads the row and refuses one that cannot be resumed.
ReadRow(h) ==
    /\ pc[h] = "missed"
    /\ rec' = [rec EXCEPT ![h] = row]
    /\ pc' = [pc EXCEPT ![h] = IF expired \/ row.status = "failed"
                               THEN "ended" ELSE "restoring"]
    /\ UNCHANGED <<sess, off, lim, cur, conn, registry, durable, channels, link,
                   reader, agent, restarts>>

\* transferRegistry.Restore puts a new session object in the map, whatever
\* is there by now.
Restore(h) ==
    /\ pc[h] = "restoring"
    /\ objects' = Append(objects, RestoredSession(rec[h]))
    /\ mapped' = Len(objects) + 1
    /\ sess' = [sess EXCEPT ![h] = Len(objects) + 1]
    /\ Offset(h, RestoredSession(rec[h]))
    /\ UNCHANGED <<cur, rec, conn, attempts, expired, channels, link, reader,
                   agent, restarts>>

\* BeginAttempt, or writeTransferAttemptError.
Begin(h) ==
    /\ pc[h] = "authorized"
    /\ IF ~expired /\ MayBegin(objects[sess[h]], "upload", off[h])
       THEN /\ pc' = [pc EXCEPT ![h] = "begun"]
            /\ objects' = [objects EXCEPT ![sess[h]] = BeginAttempt(@)]
            /\ attempts' = attempts \cup {h}
       ELSE /\ pc' = [pc EXCEPT ![h] = "ended"]
            /\ UNCHANGED <<objects, attempts>>
    /\ UNCHANGED <<sess, off, lim, cur, rec, conn, mapped, durable, channels, link,
                   reader, agent, restarts>>

PersistActive(h) ==
    /\ Goto(h, "begun", "persisted")
    /\ Persist(h, objects[sess[h]], "active")
    /\ UNCHANGED <<sess, off, lim, cur, rec, conn, registry, expired, channels,
                   link, reader, agent, restarts>>

\* ResolveAgent and the write of the open message; an agent that is offline
\* ends the attempt without a trace in the row.
Open(h) ==
    /\ pc[h] = "persisted"
    /\ IF up
       THEN /\ pc' = [pc EXCEPT ![h] = "waitReady"]
            /\ conn' = [conn EXCEPT ![h] = epoch]
            /\ down' = Append(down, [type |-> "open", h |-> h, off |-> off[h]])
       ELSE /\ pc' = [pc EXCEPT ![h] = "ending"]
            /\ UNCHANGED <<conn, down>>
    /\ UNCHANGED <<sess, off, lim, cur, rec, registry, durable, channels, epoch, up,
                   uplink, reader, agent, restarts>>

\* waitTransferReady returns: an error is noted and persisted (FailPersist),
\* an offset other than the requested one is answered with a conflict.
Ready(h) ==
    /\ pc[h] = "waitReady" /\ ready[h] # <<>>
    /\ ready' = [ready EXCEPT ![h] = Tail(@)]
    /\ LET r == Head(ready[h]) IN
       IF r.error
       THEN /\ pc' = [pc EXCEPT ![h] = "failing"]
            /\ UNCHANGED <<objects, cur>>
       ELSE /\ objects' = [objects EXCEPT ![sess[h]] =
                              MarkReady(@, "upload", r.off, r.off)]
            /\ cur' = [cur EXCEPT ![h] = off[h]]
            /\ pc' = [pc EXCEPT ![h] = IF r.off # off[h] THEN "ending"
                                       ELSE "sending"]
    /\ UNCHANGED <<sess, off, lim, rec, conn, mapped, attempts, durable, complete,
                   link, reader, agent, restarts>>

\* The request's context ends, or the body cannot be read: the handler
\* returns without a word to the agent or to the row.
ClientGone(h) ==
    /\ pc[h] \in {"waitReady", "sending", "waitComplete"}
    /\ pc' = [pc EXCEPT ![h] = "ending"]
    /\ UNCHANGED <<sess, off, lim, cur, rec, conn, registry, durable, channels,
                   link, reader, agent, restarts>>

Connected(h) == up /\ conn[h] = epoch

\* Mutant: off by one.
TooLargeLate(h, n) == lim[h] > 0 /\ n > lim[h] + 1

\* The policy's limit against the size an upload would have.
TooLarge(h, n) == lim[h] > 0 /\ n > lim[h]

\* One turn of the body loop: the limit, the write to the agent, Advance.
SendChunk(h) ==
    /\ pc[h] = "sending" /\ cur[h] < Size
    /\ \/ /\ TooLarge(h, cur[h] + 1)
          /\ pc' = [pc EXCEPT ![h] = "failing"]
          /\ UNCHANGED <<cur, objects, down>>
       \/ /\ ~TooLarge(h, cur[h] + 1) /\ Connected(h)
          /\ down' = Append(down, [type |-> "data", h |-> h, off |-> cur[h]])
          /\ cur' = [cur EXCEPT ![h] = @ + 1]
          /\ objects' = [objects EXCEPT ![sess[h]] =
                            Advance(@, cur[h] + 1, cur[h] + 1)]
          /\ UNCHANGED pc
       \/ /\ ~TooLarge(h, cur[h] + 1) /\ ~Connected(h)
          /\ pc' = [pc EXCEPT ![h] = "ending"]
          /\ UNCHANGED <<cur, objects, down>>
    /\ UNCHANGED <<sess, off, lim, rec, conn, mapped, attempts, durable, channels,
                   epoch, up, uplink, reader, agent, restarts>>

\* The end of the body: the complete message, or a failed write.
SendComplete(h) ==
    /\ pc[h] = "sending" /\ cur[h] = Size
    /\ IF Connected(h)
       THEN /\ pc' = [pc EXCEPT ![h] = "waitComplete"]
            /\ down' = Append(down, [type |-> "complete", h |-> h, off |-> cur[h]])
       ELSE /\ pc' = [pc EXCEPT ![h] = "ending"]
            /\ UNCHANGED down
    /\ UNCHANGED <<sess, off, lim, cur, rec, conn, registry, durable, channels,
                   epoch, up, uplink, reader, agent, restarts>>

\* Mutant: the error of the result is not looked at.
CompletedIgnoresError(h) ==
    /\ pc[h] = "waitComplete" /\ complete[h] # <<>>
    /\ complete' = [complete EXCEPT ![h] = Tail(@)]
    /\ objects' = [objects EXCEPT ![sess[h]] =
                      Complete(@, Head(complete[h]).off, Head(complete[h]).off)]
    /\ pc' = [pc EXCEPT ![h] = "finishing"]
    /\ UNCHANGED <<sess, off, lim, cur, rec, conn, mapped, attempts, durable, ready,
                   link, reader, agent, restarts>>

\* waitTransferComplete returns.
Completed(h) ==
    /\ pc[h] = "waitComplete" /\ complete[h] # <<>>
    /\ complete' = [complete EXCEPT ![h] = Tail(@)]
    /\ LET r == Head(complete[h]) IN
       IF r.error
       THEN /\ pc' = [pc EXCEPT ![h] = "failing"]
            /\ UNCHANGED objects
       ELSE /\ objects' = [objects EXCEPT ![sess[h]] = Complete(@, r.off, r.off)]
            /\ pc' = [pc EXCEPT ![h] = "finishing"]
    /\ UNCHANGED <<sess, off, lim, cur, rec, conn, mapped, attempts, durable, ready,
                   link, reader, agent, restarts>>

\* persistTransferStatus with failed or completed.
PersistResult(h) ==
    /\ pc[h] \in {"failing", "finishing"}
    /\ Persist(h, objects[sess[h]],
               IF pc[h] = "failing" THEN "failed" ELSE "completed")
    /\ pc' = [pc EXCEPT ![h] = "ending"]
    /\ UNCHANGED <<sess, off, lim, cur, rec, conn, registry, expired, channels,
                   link, reader, agent, restarts>>

\* The deferred transferRegistry.EndAttempt.
End(h) ==
    /\ Goto(h, "ending", "ended")
    /\ attempts' = attempts \ {h}
    /\ objects' = [objects EXCEPT ![sess[h]] = EndAttempt(@)]
    /\ UNCHANGED <<sess, off, lim, cur, rec, conn, mapped, durable, channels, link,
                   reader, agent, restarts>>

-----------------------------------------------------------------------------
(* The agent: one loop takes the messages of the connection in order.  A   *)
(* loop that is inside a handler when its connection is lost finishes that *)
(* message only: runOnce does not wait for it before it dials again, and   *)
(* its answer and its next read fail.                                      *)

\* An answer on the current connection; one on a lost connection is lost too.
Reply(on, type, h, o) ==
    IF on THEN Append(uplink, [type |-> type, h |-> h, off |-> o]) ELSE uplink

\* openWriterLocal: offset 0 truncates, a later one cuts the file to the
\* offset and is refused beyond the end.
Opened(o) == SubSeq(file, 1, o)

\* Mutant: an offset beyond the end is accepted, and leaves a hole.
StartUploadPastEnd(on, h, o) ==
    /\ handles' = [handles EXCEPT ![h] = o]
    /\ file' = IF o <= Len(file) THEN Opened(o) ELSE file
    /\ uplink' = Reply(on, "ready", h, o)

\* startUploadTransfer
StartUpload(on, h, o) ==
    \/ /\ o <= Len(file)
       /\ handles' = [handles EXCEPT ![h] = o]
       /\ file' = Opened(o)
       /\ uplink' = Reply(on, "ready", h, o)
    \/ /\ o > Len(file) \/ WriteMayFail
       /\ uplink' = Reply(on, "error", h, 0)
       /\ UNCHANGED <<handles, file>>

\* A write at a handle's position; a file that has become shorter gets a hole.
WriteAt(f, pos, chunk) ==
    [i \in 1..(IF Len(f) > pos THEN Len(f) ELSE pos + 1) |->
        IF i = pos + 1 THEN chunk ELSE IF i <= Len(f) THEN f[i] ELSE 0]

\* handleTransferData: the chunk that follows the client's first o chunks is
\* chunk o + 1.
WriteChunk(on, h, o) ==
    \/ /\ handles[h] = None \/ o # handles[h]
       /\ uplink' = Reply(on, "error", h, 0)
       /\ UNCHANGED <<handles, file>>
    \/ /\ handles[h] # None /\ o = handles[h]
       /\ file' = WriteAt(file, o, o + 1)
       /\ handles' = [handles EXCEPT ![h] = @ + 1]
       /\ UNCHANGED uplink
    \/ /\ handles[h] # None /\ o = handles[h] /\ WriteMayFail
       /\ handles' = [handles EXCEPT ![h] = None]
       /\ uplink' = Reply(on, "error", h, 0)
       /\ UNCHANGED file

\* handleTransferComplete; closing the file may fail too.
FinishUpload(on, h, o) ==
    /\ \/ /\ handles[h] # None /\ o = handles[h]
          /\ uplink' = Reply(on, "complete", h, o)
       \/ /\ handles[h] = None \/ o # handles[h] \/ WriteMayFail
          /\ uplink' = Reply(on, "error", h, 0)
    /\ handles' = [handles EXCEPT ![h] = None]
    /\ UNCHANGED file

\* The handlers of readLoop for the messages of uploads.
Handle(on, m) ==
    \/ m.type = "open" /\ StartUpload(on, m.h, m.off)
    \/ m.type = "data" /\ WriteChunk(on, m.h, m.off)
    \/ m.type = "complete" /\ FinishUpload(on, m.h, m.off)

AgentHandles ==
    /\ up /\ down # <<>>
    /\ down' = Tail(down)
    /\ Handle(TRUE, Head(down))
    /\ raced' = (raced \/ (Head(down).type = "open" /\ late # {}))
    /\ UNCHANGED <<handler, registry, durable, channels, epoch, up, late, reader,
                   restarts>>

\* The connection is lost.  Its read loop may be inside the handler of the next
\* message, and that of an open message past the check of the file's size.
LoseLink ==
    /\ up' = FALSE /\ down' = <<>> /\ uplink' = <<>>
    /\ \/ UNCHANGED late
       \/ /\ up /\ down # <<>>
          /\ \E measured \in {FALSE, Head(down).type = "open"
                                       /\ Head(down).off \in 1..Len(file)} :
               late' = late \cup {[msg |-> Head(down), measured |-> measured]}
    /\ UNCHANGED <<handles, file, raced>>

\* Such a handler goes on.  A file that was found long enough is cut to the
\* offset, or extended by a hole, whatever has become of it.
Truncate(f, size) == [i \in 1..size |-> IF i <= Len(f) THEN f[i] ELSE 0]

LateHandler(w) ==
    /\ late' = late \ {w}
    /\ \/ ~w.measured /\ Handle(FALSE, w.msg)
       \/ /\ w.measured
          /\ handles' = [handles EXCEPT ![w.msg.h] = w.msg.off]
          /\ file' = Truncate(file, w.msg.off)
          /\ UNCHANGED uplink
    /\ raced' = (raced \/ (w.msg.type = "open" /\ late' # {}))
    /\ UNCHANGED <<handler, registry, durable, channels, epoch, up, down, reader,
                   restarts>>

-----------------------------------------------------------------------------
(* The cloud's reader of the agent's socket, one goroutine per connection. *)

\* handleTransferReady, handleTransferComplete, handleTransferError: the
\* sends a message asks for, none when the attempt is not registered.
Sends(m) ==
    LET r == [h |-> m.h, off |-> m.off, error |-> m.type = "error"] IN
    IF m.h \notin attempts THEN <<>>
    ELSE CASE m.type = "ready" -> <<[ch |-> "ready", val |-> r]>>
           [] m.type = "complete" -> <<[ch |-> "complete", val |-> r]>>
           [] m.type = "error" -> <<[ch |-> "ready", val |-> r],
                                    [ch |-> "complete", val |-> r]>>

ReaderTakes ==
    /\ up /\ uplink # <<>> /\ reader[epoch] = <<>>
    /\ uplink' = Tail(uplink)
    /\ reader' = [reader EXCEPT ![epoch] = Sends(Head(uplink))]
    /\ UNCHANGED <<handler, registry, durable, channels, epoch, up, down,
                   agent, restarts>>

\* A send goes through when the channel has room; there is no other way out.
ReaderSends(e) ==
    /\ reader[e] # <<>>
    /\ LET s == Head(reader[e]) IN
       \/ /\ s.ch = "ready" /\ ready[s.val.h] = <<>>
          /\ ready' = [ready EXCEPT ![s.val.h] = <<s.val>>]
          /\ UNCHANGED complete
       \/ /\ s.ch = "complete" /\ complete[s.val.h] = <<>>
          /\ complete' = [complete EXCEPT ![s.val.h] = <<s.val>>]
          /\ UNCHANGED ready
    /\ reader' = [reader EXCEPT ![e] = Tail(@)]
    /\ UNCHANGED <<handler, registry, durable, link, agent, restarts>>

-----------------------------------------------------------------------------
(* The environment.                                                        *)

\* The agent's socket is lost with everything on it; the agent keeps its
\* open uploads.
LinkBreaks ==
    /\ up /\ epoch < MaxBreaks + restarts
    /\ LoseLink
    /\ UNCHANGED <<handler, registry, durable, channels, epoch, reader, restarts>>

AgentReconnects ==
    /\ ~up
    /\ up' = TRUE /\ epoch' = epoch + 1
    /\ UNCHANGED <<handler, registry, durable, channels, down, uplink, reader,
                   agent, restarts>>

\* The lease expires.
Expire ==
    /\ ~expired
    /\ expired' = TRUE
    /\ UNCHANGED <<handler, registry, row, job, channels, link, reader, agent,
                   restarts>>

\* The cloud process ends, with the handlers, the registry and the sockets,
\* and starts again: MarkInterruptedFileOperationJobs.
CloudRestarts ==
    /\ restarts < MaxRestarts
    /\ restarts' = restarts + 1
    /\ pc' = [h \in Puts |-> IF pc[h] = "new" THEN "new" ELSE "ended"]
    /\ mapped' = 0 /\ objects' = <<>> /\ attempts' = {}
    /\ job' = IF job \in {"queued", "running"} THEN "rollback_required" ELSE job
    /\ ready' = [h \in Puts |-> <<>>] /\ complete' = [h \in Puts |-> <<>>]
    /\ LoseLink
    /\ reader' = [e \in Epochs |-> <<>>]
    /\ UNCHANGED <<sess, off, lim, cur, rec, conn, row, expired, epoch>>

Next ==
    \/ \E h \in Puts :
         \/ Authorize(h) \/ Missed(h) \/ ReadRow(h) \/ Restore(h) \/ Begin(h)
         \/ PersistActive(h) \/ Open(h) \/ Ready(h) \/ ClientGone(h)
         \/ SendChunk(h) \/ SendComplete(h) \/ Completed(h)
         \/ PersistResult(h) \/ End(h)
    \/ AgentHandles
    \/ \E w \in late : LateHandler(w)
    \/ ReaderTakes
    \/ \E e \in Epochs : ReaderSends(e)
    \/ LinkBreaks \/ AgentReconnects
    \/ Expire
    \/ CloudRestarts

Spec == Init /\ [][Next]_vars

-----------------------------------------------------------------------------
(* Properties.                                                             *)

\* The agent's file is the beginning of the client's: no chunk is missing,
\* repeated or out of place, whatever is retried, resumed or lost
\* (openWriterLocal, handleTransferData).
FileIsPrefix == \A i \in 1..Len(file) : file[i] = i

\* A transfer the store calls completed left the whole file at the agent
\* (persistTransferStatus after waitTransferComplete).
CompletedIsWhole == row.status = "completed" => file = [i \in 1..Size |-> i]

\* A chunk is in its place or missing, never in the place of another.
NoneMisplaced == \A i \in 1..Len(file) : file[i] \in {0, i}

\* ErrTransferBusy, "transfer is already active": a lease has one attempt at a
\* time.
OneAttempt ==
    \A h, k \in Puts : pc[h] \in Live /\ pc[k] \in Live => h = k

\* A lease has one attempt at a time and no chunk is ever in the place of
\* another.  Until an upload is opened while the read loop of a lost
\* connection is still inside a handler, whose truncation or write then comes
\* at any later time, the agent's file is the beginning of the client's and a
\* transfer the store calls completed left the whole file there
\* (OneAttempt, NoneMisplaced, FileIsPrefix, CompletedIsWhole).
UploadIsFaithful ==
    /\ OneAttempt /\ NoneMisplaced
    /\ ~raced => FileIsPrefix /\ CompletedIsWhole

\* No two requests race to restore the session after a restart.
OneRestore == Len(objects) <= 1

\* The message of the handler that acts in this step on the agent's file.
Handled == IF late' # late THEN {w.msg : w \in late \ late'} ELSE {Head(down)}

\* A chunk that makes the agent's file grow lies within the limit the request
\* that sent it had read (maxFileUploadBytes), declared length or not, resumed
\* or not, late or not, whatever the limits of the requests before it were.
GrowthWithinLimit ==
    [][Len(file') > Len(file) =>
         \A m \in Handled :
             m.type = "data" /\ lim[m.h] > 0 => Len(file') <= lim[m.h]]_vars
=============================================================================

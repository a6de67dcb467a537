---------------------------- MODULE FileDownload ----------------------------
(***************************************************************************)
(* Downloads of one file: the GET requests on a transfer lease             *)
(* (handleFileTransfer, MethodGet) and the previews of the same file       *)
(* (handleFilePreviewStream), the bounded channels of their attempts, the  *)
(* goroutine of the cloud that reads the agent's socket, and the agent's   *)
(* streaming goroutines (internal/agent/transfers.go).                     *)
(*                                                                         *)
(* The file is the chunks 0..Size-1; a frame carries its offset.           *)
(***************************************************************************)
EXTENDS TransferSession, Sequences

CONSTANTS Gets,       \* GET requests on the lease, each used at most once
          Previews,   \* preview requests, each used at most once
          Ranges,     \* byte ranges of previews, <<first, end>> in chunks
          Size,       \* chunks of the file
          DataCap,    \* capacity of DataCh, 16 in the code
          LinkCap,    \* messages the socket holds before a writer waits
          MaxBreaks,  \* bound on lost connections of the agent
          None

Requests == Gets \cup Previews

ASSUME DownloadAssumption ==
    /\ Size \in Nat \ {0} /\ DataCap \in Nat \ {0} /\ LinkCap \in Nat \ {0}
    /\ MaxBreaks \in Nat
    /\ Gets \cap Previews = {} /\ Ranges \subseteq Nat \X Nat

VARIABLES
    pc,        \* pc[h]: where the handler of request h is
    off,       \* off[h]: first chunk asked for
    upto,      \* upto[h]: the end of the range asked for, Size when open
    cur,       \* cur[h]: currentOffset, the next chunk to write to the client
    pending,   \* pending[h]: pendingComplete's offset, or None
    session,   \* the lease's session
    attempts,  \* transferRegistry.attempts
    row,       \* the file_transfers row
    ready,     \* ready[h], data[h], complete[h]: the attempt's channels
    data,
    complete,
    epoch,     \* number of the agent's current connection
    up,        \* the current connection is alive
    conn,      \* conn[h]: the connection the handler resolved
    down,      \* messages on the way to the agent
    uplink,    \* messages on the way to the cloud
    reader,    \* reader[e]: channel sends connection e's reader has to do
    stream,    \* stream[h]: the agent's goroutine, the next chunk and the end
    quit       \* the requests that returned before their stream's end (history)

handler == <<pc, off, upto, cur, pending, conn>>
lease == <<session, attempts, row>>
channels == <<ready, data, complete>>
link == <<epoch, up, down, uplink>>
vars == <<handler, lease, channels, link, reader, stream, quit>>

Live == {"begun", "persisted", "waitReady", "streaming", "failing",
         "finishing", "ending"}

Init ==
    /\ pc = [h \in Requests |-> "new"]
    /\ off = [h \in Requests |-> 0]
    /\ upto = [h \in Requests |-> Size]
    /\ cur = [h \in Requests |-> 0]
    /\ pending = [h \in Requests |-> None]
    /\ session = NewSession
    /\ attempts = {}
    /\ row = NewRow
    /\ ready = [h \in Requests |-> <<>>]
    /\ data = [h \in Requests |-> <<>>]
    /\ complete = [h \in Requests |-> <<>>]
    /\ epoch = 0
    /\ up = TRUE
    /\ conn = [h \in Requests |-> 0]
    /\ down = <<>>
    /\ uplink = <<>>
    /\ reader = [e \in 0..MaxBreaks |-> <<>>]
    /\ stream = [h \in Requests |-> None]
    /\ quit = {}

Goto(h, to) == pc' = [pc EXCEPT ![h] = to]

Connected(h) == up /\ conn[h] = epoch

-----------------------------------------------------------------------------
(* The handlers.                                                           *)

\* BeginAttempt on the lease, or writeTransferAttemptError.
Begin(h) ==
    /\ h \in Gets /\ pc[h] = "new"
    /\ \E o \in 0..Size :
        /\ off' = [off EXCEPT ![h] = o]
        /\ IF MayBegin(session, "download", o)
           THEN /\ Goto(h, "begun")
                /\ session' = BeginAttempt(session)
                /\ attempts' = attempts \cup {h}
           ELSE /\ Goto(h, "ended")
                /\ UNCHANGED <<session, attempts>>
    /\ UNCHANGED <<upto, cur, pending, conn, row, channels, link, reader, stream, quit>>

PersistActive(h) ==
    /\ pc[h] = "begun"
    /\ Goto(h, "persisted")
    /\ row' = Persisted(session, "active")
    /\ UNCHANGED <<off, upto, cur, pending, conn, session, attempts, channels,
                   link, reader, stream, quit>>

\* handleFilePreviewStream up to the open message: parseFilePreviewRange, and
\* an attempt on a session of the request's own.
BeginPreview(h) ==
    /\ h \in Previews /\ pc[h] = "new"
    /\ \E range \in Ranges :
        /\ off' = [off EXCEPT ![h] = range[1]]
        /\ upto' = [upto EXCEPT ![h] = range[2]]
    /\ attempts' = attempts \cup {h}
    /\ Goto(h, "persisted")
    /\ UNCHANGED <<cur, pending, conn, session, row, channels, link, reader,
                   stream, quit>>

\* ResolveAgent and the write of the open message.
Open(h) ==
    /\ pc[h] = "persisted"
    /\ IF up
       THEN /\ Goto(h, "waitReady")
            /\ conn' = [conn EXCEPT ![h] = epoch]
            /\ down' = Append(down, [type |-> "open", h |-> h])
       ELSE /\ Goto(h, "ending")
            /\ UNCHANGED <<conn, down>>
    /\ UNCHANGED <<off, upto, cur, pending, lease, channels, epoch, up, uplink,
                   reader, stream, quit>>

\* What a handler does with an error of the agent: only a lease has a row.
AfterError(h) == IF h \in Gets THEN "failing" ELSE "ending"

\* A preview's range must lie within the file.
Satisfiable(h) == h \in Previews => off[h] < Size /\ upto[h] <= Size

\* waitTransferReady returns.
Ready(h) ==
    /\ pc[h] = "waitReady" /\ ready[h] # <<>>
    /\ ready' = [ready EXCEPT ![h] = Tail(@)]
    /\ \/ /\ Head(ready[h]).error
          /\ Goto(h, AfterError(h))
          /\ UNCHANGED <<cur, session, quit>>
       \/ /\ ~Head(ready[h]).error /\ ~Satisfiable(h)
          /\ Goto(h, "ending")
          /\ quit' = quit \cup {h}
          /\ UNCHANGED <<cur, session>>
       \/ /\ ~Head(ready[h]).error /\ Satisfiable(h)
          /\ Goto(h, "streaming")
          /\ cur' = [cur EXCEPT ![h] = off[h]]
          /\ session' = IF h \in Gets
                        THEN MarkReady(session, "download", off[h], Size)
                        ELSE session
          /\ UNCHANGED quit
    /\ UNCHANGED <<off, upto, pending, conn, attempts, row, data, complete, link,
                   reader, stream>>

\* Advance, on the lease's session.
Advanced(h, n) == IF h \in Gets THEN Advance(session, n, Size) ELSE session

\* A frame from DataCh: an error or an unexpected offset fails the transfer,
\* otherwise it goes to the client; the last one completes a download whose
\* complete message came first, and a preview when its range is served.
TakeData(h) ==
    /\ pc[h] = "streaming" /\ data[h] # <<>>
    /\ data' = [data EXCEPT ![h] = Tail(@)]
    /\ IF Head(data[h]) # cur[h]
       THEN /\ Goto(h, AfterError(h))
            /\ UNCHANGED <<cur, session>>
       ELSE LET n == cur[h] + 1 IN
            /\ cur' = [cur EXCEPT ![h] = n]
            /\ session' = Advanced(h, n)
            /\ Goto(h, CASE h \in Gets /\ pending[h] # None /\ n >= pending[h] ->
                              "finishing"
                         [] h \in Previews /\ n = upto[h] -> "ending"
                         [] OTHER -> "streaming")
    /\ UNCHANGED <<off, upto, pending, conn, attempts, row, ready, complete, link,
                   reader, stream, quit>>

\* Mutant: the complete message ends the download although frames are waiting.
TakeCompleteAtOnce(h) ==
    /\ pc[h] = "streaming" /\ complete[h] # <<>>
    /\ complete' = [complete EXCEPT ![h] = Tail(@)]
    /\ Goto(h, IF h \in Gets THEN "finishing" ELSE "streaming")
    /\ UNCHANGED <<off, upto, cur, pending, conn, lease, ready, data, link,
                   reader, stream, quit>>

\* Mutant: a complete message that comes before the last frame is forgotten.
TakeCompleteForgotten(h) ==
    /\ pc[h] = "streaming" /\ complete[h] # <<>>
    /\ complete' = [complete EXCEPT ![h] = Tail(@)]
    /\ Goto(h, IF Head(complete[h]).error THEN AfterError(h)
               ELSE IF h \in Gets /\ cur[h] >= Head(complete[h]).off
               THEN "finishing" ELSE "streaming")
    /\ UNCHANGED <<off, upto, cur, pending, conn, lease, ready, data, link,
                   reader, stream, quit>>

\* The result from CompleteCh; select takes it before or after frames that
\* are in DataCh already.  A preview goes on in any case.
TakeComplete(h) ==
    /\ pc[h] = "streaming" /\ complete[h] # <<>>
    /\ complete' = [complete EXCEPT ![h] = Tail(@)]
    /\ LET r == Head(complete[h]) IN
       \/ /\ r.error
          /\ Goto(h, AfterError(h))
          /\ UNCHANGED pending
       \/ /\ ~r.error /\ h \in Gets /\ cur[h] >= r.off
          /\ Goto(h, "finishing")
          /\ UNCHANGED pending
       \/ /\ ~r.error /\ h \in Gets /\ cur[h] < r.off
          /\ pending' = [pending EXCEPT ![h] = r.off]
          /\ UNCHANGED pc
       \/ /\ ~r.error /\ h \in Previews
          /\ UNCHANGED <<pc, pending>>
    /\ UNCHANGED <<off, upto, cur, conn, lease, ready, data, link, reader, stream, quit>>

\* The request's context ends, the client being gone or the route's deadline
\* reached.  Only the streaming loop tells the agent.
ClientGone(h) ==
    /\ pc[h] \in {"waitReady", "streaming"}
    /\ Goto(h, "ending")
    /\ quit' = quit \cup {h}
    /\ down' = IF pc[h] = "streaming" /\ Connected(h)
               THEN Append(down, [type |-> "cancel", h |-> h]) ELSE down
    /\ UNCHANGED <<off, upto, cur, pending, conn, lease, channels, epoch, up,
                   uplink, reader, stream>>

\* persistTransferStatus with failed or completed, and Complete before it.
PersistResult(h) ==
    /\ pc[h] \in {"failing", "finishing"}
    /\ session' = IF pc[h] = "failing" THEN session
                  ELSE Complete(session, cur[h], Size)
    /\ row' = Persisted(session', IF pc[h] = "failing" THEN "failed"
                                  ELSE "completed")
    /\ Goto(h, "ending")
    /\ UNCHANGED <<off, upto, cur, pending, conn, attempts, channels, link,
                   reader, stream, quit>>

\* Mutant: the attempt is unregistered but the session stays active.
EndKeepsSession(h) ==
    /\ pc[h] = "ending"
    /\ Goto(h, "ended")
    /\ attempts' = attempts \ {h}
    /\ UNCHANGED <<off, upto, cur, pending, conn, session, row, channels, link,
                   reader, stream, quit>>

\* The deferred transferRegistry.EndAttempt.
End(h) ==
    /\ pc[h] = "ending"
    /\ Goto(h, "ended")
    /\ attempts' = attempts \ {h}
    /\ session' = IF h \in Gets THEN EndAttempt(session) ELSE session
    /\ UNCHANGED <<off, upto, cur, pending, conn, row, channels, link, reader,
                   stream, quit>>

-----------------------------------------------------------------------------
(* The agent.                                                              *)

Room == up /\ Len(uplink) < LinkCap

\* startDownloadTransfer: the file may not open; the streaming goroutine is
\* started once the ready message is written.
StartDownload(h) ==
    \/ /\ uplink' = Append(uplink, [type |-> "ready", h |-> h, off |-> off[h]])
       /\ stream' = [stream EXCEPT ![h] =
                       [pos |-> off[h],
                        end |-> IF upto[h] < Size THEN upto[h] ELSE Size]]
    \/ /\ uplink' = Append(uplink, [type |-> "error", h |-> h, off |-> 0])
       /\ UNCHANGED stream

\* readLoop of the agent: open and cancel.
AgentHandles ==
    /\ up /\ down # <<>>
    /\ down' = Tail(down)
    /\ LET m == Head(down) IN
       \/ m.type = "open" /\ Room /\ StartDownload(m.h)
       \/ /\ m.type = "cancel"
          /\ stream' = [stream EXCEPT ![m.h] = None]
          /\ UNCHANGED uplink
    /\ UNCHANGED <<handler, lease, channels, epoch, up, reader, quit>>

\* One turn of streamDownload: a frame, or at the end the complete message.
StreamDownload(h) ==
    /\ stream[h] # None /\ Room
    /\ LET s == stream[h] IN
       IF s.pos < s.end
       THEN /\ uplink' = Append(uplink, [type |-> "data", h |-> h, off |-> s.pos])
            /\ stream' = [stream EXCEPT ![h].pos = @ + 1]
       ELSE /\ uplink' = Append(uplink, [type |-> "complete", h |-> h,
                                         off |-> s.end])
            /\ stream' = [stream EXCEPT ![h] = None]
    /\ UNCHANGED <<handler, lease, channels, epoch, up, down, reader, quit>>

\* A read of the file fails in the middle of the stream.
StreamFails(h) ==
    /\ stream[h] # None /\ Room
    /\ uplink' = Append(uplink, [type |-> "error", h |-> h, off |-> 0])
    /\ stream' = [stream EXCEPT ![h] = None]
    /\ UNCHANGED <<handler, lease, channels, epoch, up, down, reader, quit>>

-----------------------------------------------------------------------------
(* The cloud's reader of the agent's socket, one goroutine per connection. *)

\* handleTransferReady, handleTransferData, handleTransferComplete and
\* handleTransferError: the channels a message goes to, in order.
Channels(m) ==
    IF m.h \notin attempts THEN <<>>
    ELSE CASE m.type = "ready" -> <<"ready">>
           [] m.type = "data" -> <<"data">>
           [] m.type = "complete" -> <<"complete">>
           [] m.type = "error" -> <<"ready", "complete">>

ReaderTakes ==
    /\ up /\ uplink # <<>> /\ reader[epoch] = <<>>
    /\ uplink' = Tail(uplink)
    /\ LET m == Head(uplink) IN
       reader' = [reader EXCEPT ![epoch] =
                    [i \in 1..Len(Channels(m)) |->
                       [ch |-> Channels(m)[i], h |-> m.h, off |-> m.off,
                        error |-> m.type = "error"]]]
    /\ UNCHANGED <<handler, lease, channels, epoch, up, down, stream, quit>>

\* DataCh is made with room for DataCap frames.
DataRoom(h) == Len(data[h]) < DataCap

Result(s) == [off |-> s.off, error |-> s.error]

\* A send goes through when the channel has room; there is no other way out.
ReaderSends(e) ==
    /\ reader[e] # <<>>
    /\ LET s == Head(reader[e]) IN
       \/ /\ s.ch = "ready" /\ ready[s.h] = <<>>
          /\ ready' = [ready EXCEPT ![s.h] = <<Result(s)>>]
          /\ UNCHANGED <<data, complete>>
       \/ /\ s.ch = "data" /\ DataRoom(s.h)
          /\ data' = [data EXCEPT ![s.h] = Append(@, s.off)]
          /\ UNCHANGED <<ready, complete>>
       \/ /\ s.ch = "complete" /\ complete[s.h] = <<>>
          /\ complete' = [complete EXCEPT ![s.h] = <<Result(s)>>]
          /\ UNCHANGED <<ready, data>>
    /\ reader' = [reader EXCEPT ![e] = Tail(@)]
    /\ UNCHANGED <<handler, lease, link, stream, quit>>

-----------------------------------------------------------------------------
(* The environment: the agent's socket is lost with everything on it and   *)
(* with the streams that write to it.                                      *)

LinkBreaks ==
    /\ up /\ epoch < MaxBreaks
    /\ up' = FALSE
    /\ down' = <<>> /\ uplink' = <<>>
    /\ stream' = [h \in Requests |-> None]
    /\ UNCHANGED <<handler, lease, channels, epoch, reader, quit>>

AgentReconnects ==
    /\ ~up
    /\ up' = TRUE /\ epoch' = epoch + 1
    /\ UNCHANGED <<handler, lease, channels, down, uplink, reader, stream, quit>>

\* The steps of a handler that nobody else decides about.
Handler(h) ==
    \/ PersistActive(h) \/ Open(h) \/ Ready(h) \/ TakeData(h)
    \/ TakeComplete(h) \/ PersistResult(h) \/ End(h)

Next ==
    \/ \E h \in Requests :
         \/ Begin(h) \/ BeginPreview(h) \/ Handler(h) \/ ClientGone(h)
         \/ StreamDownload(h) \/ StreamFails(h)
    \/ AgentHandles
    \/ ReaderTakes
    \/ \E e \in 0..MaxBreaks : ReaderSends(e)
    \/ LinkBreaks \/ AgentReconnects

Spec == Init /\ [][Next]_vars

\* Goroutines that can go on do, and the agent's loop handles its messages.
Fairness ==
    /\ \A h \in Requests : WF_vars(Handler(h)) /\ WF_vars(StreamDownload(h))
    /\ WF_vars(AgentHandles) /\ WF_vars(ReaderTakes)
    /\ \A e \in 0..MaxBreaks : WF_vars(ReaderSends(e))

FairSpec == Spec /\ Fairness

-----------------------------------------------------------------------------
(* Properties.                                                             *)

\* A download is completed only when its client has every chunk from its
\* offset to the end of the file, although select may take the complete
\* message before frames that arrived earlier (pendingComplete).
DownloadIsWhole == \A h \in Gets : pc[h] = "finishing" => cur[h] = Size

\* A request opened at a live agent ends, served or with an error, unless the
\* connection is lost or some request has returned before its stream's end:
\* handlers, reader, socket and streams never all wait for each other.
RequestsEnd ==
    <>[](\/ \A h \in Requests : pc[h] \in {"new", "ended"}
         \/ quit # {} \/ epoch > 0 \/ ~up)

\* The session is active exactly while one GET runs an attempt on it: every
\* path out of the handler frees the lease for a retry (EndAttempt), none
\* frees it under the attempt of another request.
LeaseFollowsAttempt ==
    /\ session.active <=> \E h \in Gets : pc[h] \in Live
    /\ \A h, k \in Gets : pc[h] \in Live /\ pc[k] \in Live => h = k

\* A download that is reported complete is the whole file from its offset on,
\* and the lease in the store follows the attempt.
DownloadIsExact == DownloadIsWhole /\ LeaseFollowsAttempt

\* The goroutine that reads the agent's socket never waits for a channel of
\* an attempt that has ended: no message of the agent, a heartbeat or the
\* ready message of a retry, would be read any more.
ReaderNotStranded ==
    \A e \in 0..MaxBreaks : reader[e] # <<>> =>
        LET s == Head(reader[e]) IN
        ~(s.ch = "data" /\ Len(data[s.h]) = DataCap /\ pc[s.h] = "ended")
=============================================================================

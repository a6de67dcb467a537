---------------------------- MODULE DesktopPipe ----------------------------
(***************************************************************************)
(* One direction of a paired desktop relay session (desktop_relay.go): the *)
(* goroutine readPump takes frames from one side's socket and enqueues     *)
(* them in a desktopRelayPipe, the goroutine writePump takes them out and  *)
(* writes them to the other side.  They share frames and queuedBytes under *)
(* the pipe's mutex and wake each other through two channels of capacity   *)
(* one.  A pump that fails ends the session for both.                      *)
(*                                                                         *)
(* Frames are numbered in the order they were read; only their sizes       *)
(* matter.  The bytes per second are those of the current window, whose    *)
(* end is an event of the clock.                                           *)
(***************************************************************************)
EXTENDS Naturals, Sequences, SequencesExt

CONSTANTS
    Sizes,             \* sizes of the frames the source may send
    MaxFrames,         \* bound: how many frames the source sends
    MaxQueueBytes,     \* limits.MaxQueueBytes
    MaxFrameBytes,     \* limits.MaxFrameBytes
    MaxBytesPerSecond  \* limits.MaxBytesPerSecond

VARIABLES
    sent,         \* sizes of the frames read and let through, in order
    frames,       \* pipe.frames, by number
    queuedBytes,  \* pipe.queuedBytes
    available,    \* a token is in the channel pipe.available
    space,        \* a token is in the channel pipe.space
    reader,       \* where readPump is
    timer,        \* the timer of enqueue: "stopped", "armed" or "fired"
    window,       \* bytes counted in the current window of allowBytes
    writer,       \* where writePump is
    held,         \* the frame writePump has taken, 0 if none
    delivered,    \* frames the destination has accepted, in order
    counted,      \* session.snapshot's byte count of this direction
    ended,        \* session.ctx is cancelled
    reported      \* the byte count of the "closed" event, once there is one

readerVars == <<sent, reader, timer, window>>
writerVars == <<writer, held, delivered, counted>>
pipeVars == <<frames, queuedBytes, available, space>>
sessionVars == <<ended, reported>>
vars == <<readerVars, writerVars, pipeVars, sessionVars>>

NoReport == [set |-> FALSE, bytes |-> 0]

SizeOf(f) == sent[f]
Bytes(fs) == FoldSeq(LAMBDA f, total : SizeOf(f) + total, 0, fs)

(* The relay forwards: nothing has been read yet. *)
Init ==
    /\ sent = <<>>
    /\ frames = <<>> /\ queuedBytes = 0
    /\ available = FALSE /\ space = FALSE
    /\ reader = "read" /\ timer = "stopped" /\ window = 0
    /\ writer = "next" /\ held = 0
    /\ delivered = <<>> /\ counted = 0
    /\ ended = FALSE /\ reported = NoReport

-----------------------------------------------------------------------------
(* fail: the first call ends the session and reports what was counted; a   *)
(* later one returns at once.                                              *)
Fail ==
    /\ ended' = TRUE
    /\ reported' = IF ended THEN reported
                   ELSE [set |-> TRUE, bytes |-> counted]

(* Something else ends the session: the other direction, Revoke, the hard  *)
(* expiry.                                                                 *)
SessionEnds ==
    /\ ~ended
    /\ Fail
    /\ UNCHANGED <<readerVars, writerVars, pipeVars>>

-----------------------------------------------------------------------------
(* readPump *)

(* allowBytes: the bytes of the window, which begins anew when its second  *)
(* has passed.                                                             *)
AllowBytes(size, passed) == IF passed THEN size ELSE window + size

(* A frame is read.  It is dropped, and the session with it, when it is    *)
(* too large or exceeds the rate.                                          *)
ReadFrame(size) ==
    /\ reader = "read"
    /\ ~ended
    /\ Len(sent) < MaxFrames
    /\ \E passed \in BOOLEAN :
          LET bytes == AllowBytes(size, passed)
          IN  IF size > MaxFrameBytes
              THEN /\ reader' = "stopped" /\ Fail
                   /\ UNCHANGED <<sent, window>>
              ELSE /\ window' = bytes
                   /\ IF bytes > MaxBytesPerSecond
                      THEN /\ reader' = "stopped" /\ Fail
                           /\ UNCHANGED sent
                      ELSE /\ reader' = "enqueue"
                           /\ sent' = Append(sent, size)
                           /\ UNCHANGED sessionVars
    /\ UNCHANGED <<timer, writerVars, pipeVars>>

(* The read fails, or nothing arrives for IdleTimeout, or the session is   *)
(* over.                                                                   *)
ReadFails ==
    /\ reader = "read"
    /\ reader' = "stopped"
    /\ Fail
    /\ UNCHANGED <<sent, timer, window, writerVars, pipeVars>>

(* Mutant: the size of the new frame is left out of the comparison. *)
FitsBehind(size) == queuedBytes <= MaxQueueBytes

(* The condition of enqueue.  A frame larger than the budget is let into   *)
(* an empty pipe.                                                          *)
Fits(size) == queuedBytes = 0 \/ queuedBytes + size <= MaxQueueBytes

(* One pass of enqueue's loop, under pipe.mu; when the frame does not fit  *)
(* the timer is armed, once, before the select.                            *)
Enqueue ==
    /\ reader = "enqueue"
    /\ LET size == Last(sent)
       IN  IF Fits(size)
           THEN /\ frames' = Append(frames, Len(sent))
                /\ queuedBytes' = queuedBytes + size
                /\ reader' = "notify"
                /\ timer' = "stopped"
           ELSE /\ reader' = "blocked"
                /\ timer' = IF timer = "stopped" THEN "armed" ELSE timer
                /\ UNCHANGED <<frames, queuedBytes>>
    /\ UNCHANGED <<sent, window, writerVars, available, space, sessionVars>>

NotifyAvailable ==
    /\ reader = "notify"
    /\ available' = TRUE
    /\ reader' = "read"
    /\ UNCHANGED <<sent, timer, window, writerVars, frames, queuedBytes, space,
                   sessionVars>>

TimerFires ==
    /\ timer = "armed"
    /\ timer' = "fired"
    /\ UNCHANGED <<sent, reader, window, writerVars, pipeVars, sessionVars>>

(* The select of enqueue: any case that is ready may be taken. *)
TakeSpace ==
    /\ reader = "blocked"
    /\ space
    /\ space' = FALSE
    /\ reader' = "enqueue"
    /\ UNCHANGED <<sent, timer, window, writerVars, frames, queuedBytes,
                   available, sessionVars>>

(* Mutant: the pump returns on errDesktopRelayLimit without ending the     *)
(* session.                                                                *)
EnqueueTimesOutSilently ==
    /\ reader = "blocked"
    /\ timer = "fired"
    /\ reader' = "stopped"
    /\ timer' = "stopped"
    /\ UNCHANGED <<sent, window, writerVars, pipeVars, sessionVars>>

EnqueueTimesOut ==
    /\ reader = "blocked"
    /\ timer = "fired"
    /\ reader' = "stopped"
    /\ timer' = "stopped"
    /\ Fail
    /\ UNCHANGED <<sent, window, writerVars, pipeVars>>

EnqueueCancelled ==
    /\ reader = "blocked"
    /\ ended
    /\ reader' = "stopped"
    /\ timer' = "stopped"
    /\ UNCHANGED <<sent, window, writerVars, pipeVars, sessionVars>>

-----------------------------------------------------------------------------
(* writePump *)

(* Mutant: the newest frame is taken first. *)
TakeFrameNewest ==
    /\ writer = "next"
    /\ frames # <<>>
    /\ held' = Last(frames)
    /\ frames' = Front(frames)
    /\ writer' = IF Len(frames) > 1 THEN "more" ELSE "taken"
    /\ UNCHANGED <<readerVars, delivered, counted, queuedBytes, available,
                   space, sessionVars>>

(* next takes the first frame under pipe.mu, or waits for the channel; it  *)
(* passes the token on when it leaves frames behind.                       *)
TakeFrame ==
    /\ writer = "next"
    /\ frames # <<>>
    /\ held' = Head(frames)
    /\ frames' = Tail(frames)
    /\ writer' = IF Len(frames) > 1 THEN "more" ELSE "taken"
    /\ UNCHANGED <<readerVars, delivered, counted, queuedBytes, available,
                   space, sessionVars>>

NotifyMore ==
    /\ writer = "more"
    /\ available' = TRUE
    /\ writer' = "taken"
    /\ UNCHANGED <<readerVars, held, delivered, counted, frames, queuedBytes,
                   space, sessionVars>>

FindEmpty ==
    /\ writer = "next"
    /\ frames = <<>>
    /\ writer' = "waiting"
    /\ UNCHANGED <<readerVars, held, delivered, counted, pipeVars, sessionVars>>

TakeAvailable ==
    /\ writer = "waiting"
    /\ available
    /\ available' = FALSE
    /\ writer' = "next"
    /\ UNCHANGED <<readerVars, held, delivered, counted, frames, queuedBytes,
                   space, sessionVars>>

(* Mutant: next looks at the context only when it is woken. *)
NextCancelledWhenWoken ==
    /\ writer = "waiting"
    /\ ended /\ available
    /\ writer' = "stopped"
    /\ UNCHANGED <<readerVars, held, delivered, counted, pipeVars, sessionVars>>

NextCancelled ==
    /\ writer = "waiting"
    /\ ended
    /\ writer' = "stopped"
    /\ UNCHANGED <<readerVars, held, delivered, counted, pipeVars, sessionVars>>

(* destination.Write: refused when the session is over, otherwise under    *)
(* way until the destination accepts the frame or the write fails.         *)
BeginWrite ==
    /\ writer = "taken"
    /\ writer' = IF ended THEN "failed" ELSE "writing"
    /\ UNCHANGED <<readerVars, held, delivered, counted, pipeVars, sessionVars>>

WriteSucceeds ==
    /\ writer = "writing"
    /\ writer' = "written"
    /\ delivered' = Append(delivered, held)
    /\ UNCHANGED <<readerVars, held, counted, pipeVars, sessionVars>>

WriteFails ==
    /\ writer = "writing"
    /\ writer' = "failed"
    /\ UNCHANGED <<readerVars, held, delivered, counted, pipeVars, sessionVars>>

(* Mutant: a frame whose write failed is counted as well. *)
CompleteCountsFailed ==
    /\ writer \in {"written", "failed"}
    /\ queuedBytes' = queuedBytes - SizeOf(held)
    /\ writer' = IF writer = "written" THEN "freed" ELSE "freedFailed"
    /\ counted' = IF writer = "failed" THEN counted + SizeOf(held) ELSE counted
    /\ UNCHANGED <<readerVars, held, delivered, frames, available, space,
                   sessionVars>>

(* complete, under pipe.mu: the frame's bytes are given back whether or    *)
(* not the write succeeded.                                                *)
Complete ==
    /\ writer \in {"written", "failed"}
    /\ queuedBytes' = IF queuedBytes < SizeOf(held) THEN 0
                      ELSE queuedBytes - SizeOf(held)
    /\ writer' = IF writer = "written" THEN "freed" ELSE "freedFailed"
    /\ UNCHANGED <<readerVars, held, delivered, counted, frames, available,
                   space, sessionVars>>

(* Mutant: the reader is woken only when the pipe is empty. *)
NotifySpaceWhenEmpty ==
    /\ writer = "freed"
    /\ space' = (space \/ queuedBytes = 0)
    /\ writer' = "count"
    /\ UNCHANGED <<readerVars, held, delivered, counted, frames, queuedBytes,
                   available, sessionVars>>

NotifySpace ==
    /\ writer = "freed"
    /\ space' = TRUE
    /\ writer' = "count"
    /\ UNCHANGED <<readerVars, held, delivered, counted, frames, queuedBytes,
                   available, sessionVars>>

Count ==
    /\ writer = "count"
    /\ counted' = counted + SizeOf(held)
    /\ held' = 0
    /\ writer' = "next"
    /\ UNCHANGED <<readerVars, delivered, pipeVars, sessionVars>>

NotifySpaceAndFail ==
    /\ writer = "freedFailed"
    /\ space' = TRUE
    /\ writer' = "stopped"
    /\ Fail
    /\ UNCHANGED <<readerVars, held, delivered, counted, frames, queuedBytes,
                   available>>

-----------------------------------------------------------------------------
ReaderGoroutine ==
    \/ \E size \in Sizes : ReadFrame(size)
    \/ ReadFails
    \/ Enqueue
    \/ NotifyAvailable
    \/ TakeSpace
    \/ EnqueueTimesOut
    \/ EnqueueCancelled

(* writePump's own steps; when the destination answers is up to it. *)
WriterGoroutine ==
    \/ TakeFrame
    \/ NotifyMore
    \/ FindEmpty
    \/ TakeAvailable
    \/ NextCancelled
    \/ BeginWrite
    \/ Complete
    \/ NotifySpace
    \/ Count
    \/ NotifySpaceAndFail

Next ==
    \/ SessionEnds
    \/ ReaderGoroutine
    \/ TimerFires
    \/ WriterGoroutine
    \/ WriteSucceeds
    \/ WriteFails

Spec == Init /\ [][Next]_vars

(* A goroutine that can go on does, a timer that is armed fires, a write   *)
(* whose context is cancelled returns.  Nothing is assumed of the peer: a  *)
(* frame may sit in destination.Write as long as the session lives.        *)
Fairness ==
    /\ WF_vars(ReaderGoroutine)
    /\ WF_vars(TimerFires)
    /\ WF_vars(WriterGoroutine)
    /\ WF_vars(ended /\ WriteFails)

-----------------------------------------------------------------------------
(* The frames taken out of the source and not yet delivered. *)
InPipe == (IF held = 0 \/ writer \in {"written", "freed", "count"}
           THEN <<>> ELSE <<held>>) \o frames

(* Whether the last frame read is still, or for ever, outside the queue. *)
Waiting ==
    CASE reader \in {"enqueue", "blocked"} -> {1}
      [] reader = "stopped" -> {0, 1}
      [] OTHER -> {0}

(* Frames are forwarded in order, none lost and none twice: what was       *)
(* delivered, then the frame being written, then the queue are the frames  *)
(* read, in the order of reading, but for the one that waits in enqueue.   *)
InOrder ==
    \E w \in Waiting :
        delivered \o InPipe = [i \in 1 .. (Len(sent) - w) |-> i]

(* queuedBytes is exactly the size of the queued frames and of the one     *)
(* being written, and exceeds the budget for a single frame only: ordinary *)
(* traffic never piles up behind the consumer beyond MaxQueueBytes.        *)
QueueWithinBudget ==
    LET unfinished == (IF writer \in {"more", "taken", "writing", "written",
                                      "failed"}
                       THEN <<held>> ELSE <<>>) \o frames
    IN  /\ queuedBytes = Bytes(unfinished)
        /\ queuedBytes > MaxQueueBytes => Len(unfinished) = 1

(* No wake-up is lost: a pump that sleeps in its select although it could  *)
(* go on has a token in its channel, or the other pump is about to put one *)
(* there.                                                                  *)
NoLostWakeup ==
    /\ writer = "waiting" /\ frames # <<>> => available \/ reader = "notify"
    /\ reader = "blocked" /\ Fits(Last(sent))
          => space \/ writer \in {"freed", "freedFailed"}

(* The byte count of the closed event is what was delivered, except for a  *)
(* frame that was being written or counted when the session ended.         *)
ReportIsDelivered ==
    reported.set =>
        \E n \in {Len(delivered), Len(delivered) - 1} :
            /\ n \in 0 .. Len(delivered)
            /\ reported.bytes = Bytes(SubSeq(delivered, 1, n))

(* Every frame that was read is delivered or the session ends, even when   *)
(* the destination never accepts it: the queue fills and the grace period  *)
(* ends the session, or the source falls silent and the idle timeout does. *)
(* When the session ends both pumps return.                                *)
FramesArriveOrEnd ==
    <>[](IF ended THEN reader = "stopped" /\ writer = "stopped"
                  ELSE Len(delivered) = Len(sent))
=============================================================================

-------------------------- MODULE FileUploadProofs --------------------------
(***************************************************************************)
(* The safety of uploads, for any number of requests, lost connections and *)
(* restarts, any size and any limits.                                      *)
(***************************************************************************)
EXTENDS FileUpload, TLAPS

\* Where a handler is before its first message to the agent, while it talks to
\* the agent, and at all.
Before == {"new", "missed", "restoring", "authorized", "begun", "persisted"}
AtAgent == {"waitReady", "sending", "waitComplete"}
Stages == Before \cup AtAgent \cup {"failing", "finishing", "ending", "ended"}

Messages == [type : {"open", "data", "complete"}, h : Puts, off : Nat]
Answers == [type : {"ready", "complete", "error"}, h : Puts, off : Nat]
Values == [h : Puts, off : Nat, error : BOOLEAN]
Deliveries == [ch : {"ready", "complete"}, val : Values]

\* What a chunk on its way and the file it goes to are made of.
ChunkTypes ==
  /\ pc \in [Puts -> Stages]
  /\ off \in [Puts -> Nat] /\ lim \in [Puts -> Nat] /\ cur \in [Puts -> Nat]
  /\ down \in Seq(Messages)
  /\ handles \in [Puts -> Nat \cup {None}]
  /\ file \in Seq(Nat)
  /\ late \subseteq [msg : Messages, measured : BOOLEAN]

-----------------------------------------------------------------------------
(* The limit on uploads.                                                   *)

\* Messages come from requests that have opened the transfer, and a chunk on
\* its way lies within the limit of its request.
ChunksWithinLimit ==
  \A i \in 1..Len(down) :
     /\ pc[down[i].h] \notin Before
     /\ down[i].type = "data" /\ lim[down[i].h] > 0 => down[i].off + 1 <= lim[down[i].h]

LateWithin ==
  \A w \in late :
     /\ pc[w.msg.h] \notin Before
     /\ w.msg.type = "data" /\ lim[w.msg.h] > 0 => w.msg.off + 1 <= lim[w.msg.h]
     /\ w.measured => w.msg.type = "open"

ChunkInv == ChunkTypes /\ ChunksWithinLimit /\ LateWithin /\ NoneMisplaced

\* A message at the end of a queue.
LEMMA AppendQueue ==
  ASSUME NEW S, NEW q \in Seq(S), NEW m \in S
  PROVE  /\ Append(q, m) \in Seq(S) /\ Len(Append(q, m)) = Len(q) + 1
         /\ Append(q, m)[Len(q) + 1] = m
         /\ \A i \in 1..Len(q) : Append(q, m)[i] = q[i]
         /\ \A i \in 1..Len(Append(q, m)) : i = Len(q) + 1 \/ i \in 1..Len(q)
  OBVIOUS

\* Taking the first message leaves the others.
LEMMA TailQueue ==
  ASSUME NEW S, NEW q \in Seq(S), q # <<>>
  PROVE  /\ Head(q) \in S /\ Head(q) = q[1] /\ 1 \in 1..Len(q)
         /\ Tail(q) \in Seq(S) /\ Len(Tail(q)) = Len(q) - 1
         /\ \A i \in 1..Len(Tail(q)) : i + 1 \in 1..Len(q) /\ Tail(q)[i] = q[i + 1]
  OBVIOUS

LEMMA InQueue == \A S : \A q \in Seq(S) : \A i \in 1..Len(q) : q[i] \in S
  OBVIOUS

LEMMA MessageOf == \A q \in Seq(Messages) : \A i \in 1..Len(q) : q[i] \in Messages /\ q[i].h \in Puts /\ q[i].off \in Nat
<1>1. \A m \in Messages : m.h \in Puts /\ m.off \in Nat
  BY Zenon DEF Messages
<1> QED
  BY Zenon, <1>1, InQueue

LEMMA EmptyQueue == \A S : <<>> \in Seq(S) /\ Len(<<>>) = 0 /\ 1..0 = {}
  OBVIOUS

\* openWriterLocal only cuts the file.
LEMMA OpenedFile ==
  ASSUME NEW f \in Seq(Nat), NEW o \in Nat, o <= Len(f)
  PROVE  /\ SubSeq(f, 1, o) \in Seq(Nat) /\ Len(SubSeq(f, 1, o)) = o
         /\ \A i \in 1..o : SubSeq(f, 1, o)[i] = f[i]
  OBVIOUS

\* A write changes one chunk, and makes the file reach it.
LEMMA WrittenFile ==
  ASSUME NEW f \in Seq(Nat), NEW o \in Nat
  PROVE  /\ WriteAt(f, o, o + 1) \in Seq(Nat)
         /\ Len(f) > o => Len(WriteAt(f, o, o + 1)) = Len(f)
         /\ Len(f) <= o => Len(WriteAt(f, o, o + 1)) = o + 1
         /\ WriteAt(f, o, o + 1)[o + 1] = o + 1
         /\ \A i \in 1..Len(f) : i # o + 1 => WriteAt(f, o, o + 1)[i] = f[i]
         /\ \A i \in 1..Len(WriteAt(f, o, o + 1)) :
               \/ WriteAt(f, o, o + 1)[i] = i \/ WriteAt(f, o, o + 1)[i] = 0
               \/ i \in 1..Len(f) /\ WriteAt(f, o, o + 1)[i] = f[i]
<1> DEFINE n == IF Len(f) > o THEN Len(f) ELSE o + 1
           e(i) == IF i = o + 1 THEN o + 1 ELSE IF i <= Len(f) THEN f[i] ELSE 0
<1>1. n \in Nat /\ \A i \in 1..n : e(i) \in Nat
  OBVIOUS
<1>2. WriteAt(f, o, o + 1) = [i \in 1..n |-> e(i)]
  BY Zenon DEF WriteAt
<1> HIDE DEF n, e
<1>3. [i \in 1..n |-> e(i)] \in Seq(Nat) /\ Len([i \in 1..n |-> e(i)]) = n
  BY <1>1
<1>4. \A i \in 1..n : WriteAt(f, o, o + 1)[i] = e(i)
  BY Zenon, <1>2
<1>5. n >= Len(f) /\ n >= o + 1 /\ (Len(f) > o => n = Len(f)) /\ (Len(f) <= o => n = o + 1)
  BY DEF n
<1>6. e(o + 1) = o + 1 /\ \A i \in 1..Len(f) : i # o + 1 => e(i) = f[i]
  BY DEF e
<1>7. \A i \in 1..n : e(i) = i \/ e(i) = 0 \/ (i \in 1..Len(f) /\ e(i) = f[i])
  BY <1>1 DEF e
<1>8. /\ WriteAt(f, o, o + 1) \in Seq(Nat) /\ Len(WriteAt(f, o, o + 1)) = n
  BY Zenon, <1>2, <1>3
<1>9. o + 1 \in 1..n /\ \A i \in 1..Len(f) : i \in 1..n
  BY <1>1, <1>5
<1> QED
  BY Zenon, <1>4, <1>5, <1>6, <1>7, <1>8, <1>9

\* A file that is cut to an offset, or extended by a hole.
LEMMA CutFile ==
  ASSUME NEW f \in Seq(Nat), NEW o \in Nat
  PROVE  /\ Truncate(f, o) \in Seq(Nat) /\ Len(Truncate(f, o)) = o
         /\ \A i \in 1..o : Truncate(f, o)[i] = 0 \/ (i \in 1..Len(f) /\ Truncate(f, o)[i] = f[i])
         /\ o <= Len(f) => \A i \in 1..o : i \in 1..Len(f) /\ Truncate(f, o)[i] = f[i]
<1> DEFINE e(i) == IF i <= Len(f) THEN f[i] ELSE 0
<1>1. \A i \in 1..o : e(i) \in Nat
  OBVIOUS
<1>2. /\ \A i \in 1..o : e(i) = 0 \/ (i \in 1..Len(f) /\ e(i) = f[i])
      /\ o <= Len(f) => \A i \in 1..o : i \in 1..Len(f) /\ e(i) = f[i]
  OBVIOUS
<1>3. Truncate(f, o) = [i \in 1..o |-> e(i)]
  BY Zenon DEF Truncate
<1> HIDE DEF e
<1>4. Truncate(f, o) \in Seq(Nat) /\ Len(Truncate(f, o)) = o
  BY <1>1, <1>3
<1>5. \A i \in 1..o : Truncate(f, o)[i] = e(i)
  BY Zenon, <1>3
<1> QED
  BY Zenon, <1>2, <1>4, <1>5

LEMMA LateOf == ASSUME ChunkTypes PROVE \A w \in late : w.msg \in Messages /\ w.msg.h \in Puts /\ w.msg.off \in Nat
<1>1. \A w \in late : w.msg \in Messages
  BY Zenon DEF ChunkTypes
<1> QED
  BY Zenon, <1>1 DEF Messages

LEMMA ChunkInit == Init => ChunkInv
<1> SUFFICES ASSUME Init PROVE ChunkInv
  OBVIOUS
<1> QED
  BY Zenon, EmptyQueue DEF Init, ChunkInv, ChunkTypes, ChunksWithinLimit, LateWithin, NoneMisplaced, Stages, Before

\* A handler goes on without a message.
LEMMA ChunkQuiet ==
  ASSUME ChunkInv, NEW h \in Puts, NEW to \in Stages, pc' = [pc EXCEPT ![h] = to],
         pc[h] \in Before \/ to \notin Before,
         off' \in [Puts -> Nat], lim' \in [Puts -> Nat], cur' \in [Puts -> Nat],
         \A k \in Puts : pc[k] \in Before \/ lim'[k] = lim[k],
         UNCHANGED <<down, handles, file, late, raced>>
  PROVE  ChunkInv'
<1>1. ChunkTypes'
  BY Zenon DEF ChunkInv, ChunkTypes
<1>2. ASSUME NEW i \in 1..Len(down)
      PROVE  /\ pc'[down[i].h] \notin Before
             /\ down[i].type = "data" /\ lim'[down[i].h] > 0 => down[i].off + 1 <= lim'[down[i].h]
  <2>1. down[i].h \in Puts /\ pc \in [Puts -> Stages]
    BY Zenon, MessageOf DEF ChunkInv, ChunkTypes
  <2>2. /\ pc[down[i].h] \notin Before
        /\ down[i].type = "data" /\ lim[down[i].h] > 0 => down[i].off + 1 <= lim[down[i].h]
    BY Zenon DEF ChunkInv, ChunksWithinLimit, LateWithin, NoneMisplaced
  <2> QED
    BY Zenon, <2>1, <2>2
<1>3. ASSUME NEW w \in late
      PROVE  /\ pc'[w.msg.h] \notin Before
             /\ w.msg.type = "data" /\ lim'[w.msg.h] > 0 => w.msg.off + 1 <= lim'[w.msg.h]
             /\ w.measured => w.msg.type = "open"
  <2>1. w.msg.h \in Puts /\ pc \in [Puts -> Stages]
    BY Zenon, LateOf DEF ChunkInv, ChunkTypes
  <2>2. /\ pc[w.msg.h] \notin Before
        /\ w.msg.type = "data" /\ lim[w.msg.h] > 0 => w.msg.off + 1 <= lim[w.msg.h]
        /\ w.measured => w.msg.type = "open"
    BY Zenon DEF ChunkInv, LateWithin
  <2> QED
    BY Zenon, <2>1, <2>2
<1> QED
  BY Zenon, <1>1, <1>2, <1>3 DEF ChunkInv, ChunksWithinLimit, LateWithin, NoneMisplaced

\* A handler sends a message.
LEMMA ChunkSent ==
  ASSUME ChunkInv, NEW m \in Messages, NEW to \in Stages, to \notin Before,
         pc' = [pc EXCEPT ![m.h] = to], down' = Append(down, m),
         m.type = "data" => ~TooLarge(m.h, m.off + 1),
         cur' \in [Puts -> Nat], UNCHANGED <<off, lim, handles, file, late, raced>>
  PROVE  ChunkInv'
<1>1. m.h \in Puts /\ m.off \in Nat /\ pc \in [Puts -> Stages] /\ lim \in [Puts -> Nat] /\ down \in Seq(Messages)
  BY Zenon DEF ChunkInv, ChunkTypes, Messages
<1>2. ChunkTypes'
  BY Zenon, <1>1, AppendQueue DEF ChunkInv, ChunkTypes
<1>3. ASSUME NEW i \in 1..Len(down)
      PROVE  /\ pc'[down[i].h] \notin Before
             /\ down[i].type = "data" /\ lim[down[i].h] > 0 => down[i].off + 1 <= lim[down[i].h]
  <2>1. down[i].h \in Puts
    BY Zenon, <1>1, MessageOf
  <2> QED
    BY Zenon, <1>1, <2>1 DEF ChunkInv, ChunksWithinLimit, LateWithin, NoneMisplaced
<1>4. /\ pc'[m.h] \notin Before
      /\ m.type = "data" /\ lim[m.h] > 0 => m.off + 1 <= lim[m.h]
  BY <1>1 DEF TooLarge
<1>5. ChunksWithinLimit'
  BY <1>1, <1>3, <1>4, AppendQueue DEF ChunksWithinLimit
<1>6. LateWithin'
  <2>1. ASSUME NEW w \in late PROVE pc'[w.msg.h] \notin Before
    BY Zenon, <1>1, LateOf DEF ChunkInv, LateWithin
  <2> QED
    BY Zenon, <2>1 DEF ChunkInv, LateWithin
<1> QED
  BY Zenon, <1>2, <1>5, <1>6 DEF ChunkInv, NoneMisplaced

\* The handlers.
LEMMA ChunkHandler ==
  ASSUME ChunkInv, NEW h \in Puts,
         \/ Authorize(h) \/ Missed(h) \/ ReadRow(h) \/ Restore(h) \/ Begin(h) \/ PersistActive(h) \/ Open(h)
         \/ Ready(h) \/ ClientGone(h) \/ SendChunk(h) \/ SendComplete(h) \/ Completed(h) \/ PersistResult(h) \/ End(h)
  PROVE  ChunkInv'
<1> USE UploadAssumption
<1>t. pc \in [Puts -> Stages] /\ off \in [Puts -> Nat] /\ lim \in [Puts -> Nat] /\ cur \in [Puts -> Nat]
  BY Zenon DEF ChunkInv, ChunkTypes
<1>1. ASSUME Authorize(h) \/ Restore(h) PROVE ChunkInv'
  <2>1. /\ pc[h] \in Before /\ UNCHANGED <<cur, down, handles, file, late, raced>>
        /\ \E s : Offset(h, s)
    BY Zenon, <1>1 DEF Authorize, Restore, Before, link, agent
  <2>2. PICK o \in Nat, max \in Nat, to \in {"ended", "authorized"} :
             /\ pc' = [pc EXCEPT ![h] = to]
             /\ off' = [off EXCEPT ![h] = o] /\ lim' = [lim EXCEPT ![h] = max]
    <3>1. PICK s : Offset(h, s)
      BY Zenon, <2>1
    <3>2. PICK o \in 0..Size, max \in Limits :
             /\ off' = [off EXCEPT ![h] = o] /\ lim' = [lim EXCEPT ![h] = max]
             /\ pc' = [pc EXCEPT ![h] = "ended"] \/ pc' = [pc EXCEPT ![h] = "authorized"]
      BY Zenon, <3>1 DEF Offset
    <3>3. o \in Nat /\ max \in Nat
      OBVIOUS
    <3> QED
      BY Zenon, <3>2, <3>3
  <2>3. to \in Stages /\ off' \in [Puts -> Nat] /\ lim' \in [Puts -> Nat] /\ cur' \in [Puts -> Nat]
    BY Zenon, <1>t, <2>1, <2>2 DEF Stages, Before
  <2>4. \A k \in Puts : pc[k] \in Before \/ lim'[k] = lim[k]
    BY Zenon, <1>t, <2>1, <2>2
  <2> QED
    BY Zenon, <2>1, <2>2, <2>3, <2>4, ChunkQuiet
<1>2. ASSUME Missed(h) \/ ReadRow(h) \/ Begin(h) \/ PersistActive(h) PROVE ChunkInv'
  <2>1. PICK to \in Before \cup {"ended"} :
             pc' = [pc EXCEPT ![h] = to] /\ pc[h] \in Before /\ UNCHANGED <<off, lim, cur, down, handles, file, late, raced>>
    BY Zenon, <1>2 DEF Missed, ReadRow, Begin, PersistActive, Goto, Before, link, agent
  <2>2. to \in Stages
    BY Zenon DEF Stages
  <2> QED
    BY Zenon, <1>t, <2>1, <2>2, ChunkQuiet
<1>3. ASSUME Open(h) PROVE ChunkInv'
  <2>1. CASE up
    <3>1. [type |-> "open", h |-> h, off |-> off[h]] \in Messages
      BY Zenon, <1>t DEF Messages
    <3>2. /\ pc' = [pc EXCEPT ![h] = "waitReady"] /\ UNCHANGED <<off, lim, cur, handles, file, late, raced>>
          /\ down' = Append(down, [type |-> "open", h |-> h, off |-> off[h]])
      BY Zenon, <1>3, <2>1 DEF Open, agent
    <3>3. "waitReady" \in Stages /\ "waitReady" \notin Before
      BY Zenon DEF Stages, AtAgent, Before
    <3> QED
      BY Zenon, <1>t, <3>1, <3>2, <3>3, ChunkSent
  <2>2. CASE ~up
    <3>1. /\ pc' = [pc EXCEPT ![h] = "ending"] /\ UNCHANGED <<off, lim, cur, down, handles, file, late, raced>>
      BY Zenon, <1>3, <2>2 DEF Open, agent
    <3>3. "ending" \in Stages /\ "ending" \notin Before
      BY Zenon DEF Stages, Before
    <3> QED
      BY Zenon, <1>t, <3>1, <3>3, ChunkQuiet
  <2> QED
    BY Zenon, <2>1, <2>2
<1>4. ASSUME Ready(h) \/ ClientGone(h) \/ Completed(h) \/ PersistResult(h) \/ End(h) PROVE ChunkInv'
  <2>1. PICK to \in {"failing", "sending", "ending", "finishing", "ended"} : pc' = [pc EXCEPT ![h] = to]
    BY Zenon, <1>4 DEF Ready, ClientGone, Completed, PersistResult, End, Goto
  <2>2. to \in Stages /\ to \notin Before
    BY Zenon DEF Stages, AtAgent, Before
  <2>3. cur' = cur \/ cur' = [cur EXCEPT ![h] = off[h]]
    BY Zenon, <1>4 DEF Ready, ClientGone, Completed, PersistResult, End
  <2>4. cur' \in [Puts -> Nat]
    BY Zenon, <1>t, <2>3
  <2>5. UNCHANGED <<off, lim, down, handles, file, late, raced>>
    BY Zenon, <1>4 DEF Ready, ClientGone, Completed, PersistResult, End, link, agent
  <2> QED
    BY Zenon, <1>t, <2>1, <2>2, <2>4, <2>5, ChunkQuiet
<1>5. ASSUME SendChunk(h) \/ SendComplete(h) PROVE ChunkInv'
  <2>1. CASE down' = down
    <3>1. PICK to \in {"failing", "ending"} : pc' = [pc EXCEPT ![h] = to] /\ cur' = cur
      <4>1. down \in Seq(Messages) /\ \A m : Append(down, m) # down
        BY DEF ChunkInv, ChunkTypes
      <4> QED
        BY Zenon, <1>5, <2>1, <4>1 DEF SendChunk, SendComplete
    <3>2. to \in Stages /\ to \notin Before
      BY Zenon DEF Stages, Before
    <3>3. UNCHANGED <<off, lim, down, handles, file, late, raced>>
      BY Zenon, <1>5, <2>1 DEF SendChunk, SendComplete, agent
    <3> QED
      BY Zenon, <1>t, <3>1, <3>2, <3>3, ChunkQuiet
  <2>2. CASE down' # down
    <3>1. UNCHANGED <<off, lim, handles, file, late, raced>>
      BY Zenon, <1>5 DEF SendChunk, SendComplete, agent
    <3>2. \/ /\ pc[h] = "sending" /\ pc' = pc /\ cur' = [cur EXCEPT ![h] = @ + 1]
             /\ ~TooLarge(h, cur[h] + 1) /\ down' = Append(down, [type |-> "data", h |-> h, off |-> cur[h]])
          \/ /\ pc' = [pc EXCEPT ![h] = "waitComplete"] /\ cur' = cur
             /\ down' = Append(down, [type |-> "complete", h |-> h, off |-> cur[h]])
      BY Zenon, <1>5, <2>2 DEF SendChunk, SendComplete
    <3>3. PICK to \in {"sending", "waitComplete"} : pc' = [pc EXCEPT ![h] = to]
      BY Zenon, <1>t, <3>2
    <3>4. to \in Stages /\ to \notin Before
      BY Zenon DEF Stages, AtAgent, Before
    <3>5. cur' \in [Puts -> Nat]
      <4>1. cur' = cur \/ cur' = [cur EXCEPT ![h] = @ + 1]
        BY Zenon, <3>2
      <4> QED
        BY <1>t, <4>1
    <3>6. PICK m \in Messages : m.h = h /\ down' = Append(down, m) /\ (m.type = "data" => ~TooLarge(h, m.off + 1))
      BY <1>t, <3>2 DEF Messages
    <3> QED
      BY Zenon, <3>1, <3>3, <3>4, <3>5, <3>6, ChunkSent
  <2> QED
    BY Zenon, <2>1, <2>2
<1> QED
  BY Zenon, <1>1, <1>2, <1>3, <1>4, <1>5

\* What the handler of a message does to a handle and to the file.
LEMMA HandleStep ==
  ASSUME ChunkTypes, NoneMisplaced, NEW m \in Messages, NEW on, Handle(on, m)
  PROVE  /\ handles' \in [Puts -> Nat \cup {None}]
         /\ file' \in Seq(Nat) /\ NoneMisplaced'
         /\ \/ file' = file
            \/ m.type = "open" /\ Len(file') <= Len(file)
            \/ /\ m.type = "data"
               /\ Len(file') = Len(file) \/ Len(file') = m.off + 1
<1>2. m.h \in Puts /\ m.off \in Nat /\ m.off + 1 \in Nat
  BY DEF Messages
<1>t. handles \in [Puts -> Nat \cup {None}] /\ file \in Seq(Nat)
  BY Zenon DEF ChunkTypes
<1>0. file' = file => file' \in Seq(Nat) /\ NoneMisplaced'
  BY Zenon, <1>t DEF NoneMisplaced
<1>3. CASE m.type = "open" /\ StartUpload(on, m.h, m.off)
  <2>2. CASE m.off <= Len(file) /\ handles' = [handles EXCEPT ![m.h] = m.off] /\ file' = Opened(m.off)
    <3>1. /\ file' \in Seq(Nat) /\ Len(file') = m.off
          /\ \A i \in 1..m.off : file'[i] = file[i]
      BY Zenon, <1>2, <1>t, <2>2, OpenedFile DEF Opened
    <3>2. \A i \in 1..m.off : i \in 1..Len(file)
      BY <1>2, <1>t, <2>2
    <3>3. NoneMisplaced'
      BY Zenon, <3>1, <3>2 DEF NoneMisplaced
    <3> QED
      BY Zenon, <1>2, <1>3, <1>t, <2>2, <3>1, <3>3
  <2> QED
    BY Zenon, <1>0, <1>3, <1>t, <2>2 DEF StartUpload
<1>4. CASE m.type = "data" /\ WriteChunk(on, m.h, m.off)
  <2>2. CASE handles[m.h] # None /\ m.off = handles[m.h] /\ file' = WriteAt(file, m.off, m.off + 1) /\ handles' = [handles EXCEPT ![m.h] = @ + 1]
    <3>0. /\ file' \in Seq(Nat)
          /\ Len(file) > m.off => Len(file') = Len(file)
          /\ Len(file) <= m.off => Len(file') = m.off + 1
          /\ \A i \in 1..Len(file') : file'[i] = i \/ file'[i] = 0 \/ (i \in 1..Len(file) /\ file'[i] = file[i])
      BY Zenon, <1>2, <1>t, <2>2, WrittenFile
    <3>1. file' \in Seq(Nat) /\ (Len(file') = Len(file) \/ Len(file') = m.off + 1)
      BY <1>2, <1>t, <3>0
    <3>2. handles' \in [Puts -> Nat \cup {None}]
      BY Zenon, <1>2, <1>t, <2>2
    <3>3. NoneMisplaced'
      BY Zenon, <3>0 DEF NoneMisplaced
    <3> QED
      BY Zenon, <1>4, <3>1, <3>2, <3>3
  <2>3. CASE file' = file /\ (handles' = handles \/ handles' = [handles EXCEPT ![m.h] = None])
    BY Zenon, <1>0, <1>t, <2>3
  <2> QED
    BY Zenon, <1>4, <2>2, <2>3 DEF WriteChunk
<1>5. CASE m.type = "complete" /\ FinishUpload(on, m.h, m.off)
  BY Zenon, <1>0, <1>t, <1>5 DEF FinishUpload
<1> QED
  BY Zenon, <1>3, <1>4, <1>5 DEF Handle

\* The read loop of the connection.
LEMMA AgentStep ==
  ASSUME ChunkTypes, NoneMisplaced, AgentHandles
  PROVE  /\ down # <<>> /\ Head(down) \in Messages
         /\ handles' \in [Puts -> Nat \cup {None}]
         /\ file' \in Seq(Nat) /\ NoneMisplaced'
         /\ \/ file' = file
            \/ Head(down).type = "open" /\ Len(file') <= Len(file)
            \/ /\ Head(down).type = "data"
               /\ Len(file') = Len(file) \/ Len(file') = Head(down).off + 1
<1>1. down # <<>> /\ Head(down) \in Messages /\ Handle(TRUE, Head(down))
  BY Zenon, TailQueue DEF AgentHandles, ChunkTypes
<1> QED
  BY Zenon, <1>1, HandleStep

\* The read loop of a lost connection.
LEMMA LateStep ==
  ASSUME ChunkInv, NEW w \in late, LateHandler(w)
  PROVE  /\ handles' \in [Puts -> Nat \cup {None}]
         /\ file' \in Seq(Nat) /\ NoneMisplaced'
         /\ \/ file' = file \/ w.msg.type = "open"
            \/ /\ w.msg.type = "data"
               /\ Len(file') = Len(file) \/ Len(file') = w.msg.off + 1
<1>1. w.msg \in Messages /\ w.msg.h \in Puts /\ w.msg.off \in Nat
  BY Zenon, LateOf DEF ChunkInv
<1>2. CASE Handle(FALSE, w.msg)
  BY Zenon, <1>1, <1>2, HandleStep DEF ChunkInv
<1>3. CASE /\ w.measured /\ handles' = [handles EXCEPT ![w.msg.h] = w.msg.off]
           /\ file' = Truncate(file, w.msg.off)
  <2>1. w.msg.type = "open" /\ file \in Seq(Nat) /\ handles \in [Puts -> Nat \cup {None}]
    BY Zenon, <1>3 DEF ChunkInv, LateWithin, ChunkTypes
  <2>2. file' = Truncate(file, w.msg.off)
    BY Zenon, <1>3
  <2>3. /\ file' \in Seq(Nat) /\ Len(file') = w.msg.off
        /\ \A i \in 1..w.msg.off : file'[i] = 0 \/ (i \in 1..Len(file) /\ file'[i] = file[i])
    BY Zenon, <1>1, <2>1, <2>2, CutFile
  <2>4. NoneMisplaced'
    BY Zenon, <2>3 DEF ChunkInv, NoneMisplaced
  <2>5. handles' \in [Puts -> Nat \cup {None}]
    BY Zenon, <1>1, <1>3, <2>1
  <2> QED
    BY Zenon, <2>1, <2>3, <2>4, <2>5
<1> QED
  BY Zenon, <1>2, <1>3 DEF LateHandler

\* The messages of a connection that is lost.
LEMMA LostLink ==
  ASSUME ChunkInv, LoseLink
  PROVE  /\ late' \subseteq [msg : Messages, measured : BOOLEAN]
         /\ \A w \in late' : \/ w \in late
                             \/ /\ down # <<>> /\ w.msg = Head(down) /\ w.msg = down[1] /\ 1 \in 1..Len(down)
                                /\ w.measured => w.msg.type = "open" /\ w.msg.off <= Len(file)
         /\ \A v, w \in late' : v \in late \/ w \in late \/ v = w
<1>1. CASE late' = late
  BY Zenon, <1>1 DEF ChunkInv, ChunkTypes
<1>2. ASSUME down # <<>>,
             NEW measured \in {FALSE, Head(down).type = "open" /\ Head(down).off \in 1..Len(file)},
             NEW w, w = [msg |-> Head(down), measured |-> measured], late' = late \cup {w}
      PROVE  /\ late' \subseteq [msg : Messages, measured : BOOLEAN]
             /\ \A v \in late' : \/ v \in late
                                 \/ /\ down # <<>> /\ v.msg = Head(down) /\ v.msg = down[1] /\ 1 \in 1..Len(down)
                                    /\ v.measured => v.msg.type = "open" /\ v.msg.off <= Len(file)
             /\ \A u, v \in late' : u \in late \/ v \in late \/ u = v
  <2>0. down \in Seq(Messages) /\ file \in Seq(Nat) /\ late \subseteq [msg : Messages, measured : BOOLEAN]
    BY Zenon DEF ChunkInv, ChunkTypes
  <2>1. Head(down) \in Messages /\ Head(down) = down[1] /\ 1 \in 1..Len(down)
    BY Zenon, <1>2, <2>0, TailQueue
  <2>2. measured \in BOOLEAN /\ (measured => Head(down).type = "open" /\ Head(down).off <= Len(file))
    <3>1. Head(down).off \in 1..Len(file) => Head(down).off <= Len(file)
      BY <2>0
    <3> QED
      BY Zenon, <1>2, <3>1
  <2>3. w \in [msg : Messages, measured : BOOLEAN] /\ w.msg = Head(down) /\ w.measured = measured
    BY Zenon, <1>2, <2>1, <2>2
  <2> QED
    BY Zenon, <1>2, <2>0, <2>1, <2>2, <2>3
<1> QED
  BY Zenon, <1>1, <1>2 DEF LoseLink

LEMMA LoseKeeps ==
  ASSUME ChunkInv, LoseLink, UNCHANGED <<off, lim, cur>>, pc' \in [Puts -> Stages],
         \A h \in Puts : pc[h] \notin Before => pc'[h] \notin Before
  PROVE  ChunkInv'
<1>1. down' = <<>> /\ UNCHANGED <<handles, file>>
  BY Zenon DEF LoseLink
<1>2. ChunkTypes' /\ ChunksWithinLimit' /\ NoneMisplaced'
  BY Zenon, <1>1, LostLink, EmptyQueue DEF ChunkInv, ChunkTypes, ChunksWithinLimit, NoneMisplaced
<1>3. ASSUME NEW w \in late'
      PROVE  /\ pc'[w.msg.h] \notin Before
             /\ w.msg.type = "data" /\ lim[w.msg.h] > 0 => w.msg.off + 1 <= lim[w.msg.h]
             /\ w.measured => w.msg.type = "open"
  <2>1. w.msg \in Messages /\ w.msg.h \in Puts
    BY Zenon, LostLink DEF Messages
  <2>2. CASE w \in late
    BY Zenon, <2>1, <2>2 DEF ChunkInv, LateWithin
  <2>3. CASE w.msg = down[1] /\ 1 \in 1..Len(down) /\ (w.measured => w.msg.type = "open")
    BY Zenon, <2>1, <2>3 DEF ChunkInv, ChunksWithinLimit
  <2> QED
    BY Zenon, <2>2, <2>3, LostLink
<1> QED
  BY Zenon, <1>2, <1>3 DEF ChunkInv, LateWithin

LEMMA ChunkNext == ChunkInv /\ [Next]_vars => ChunkInv'
<1> SUFFICES ASSUME ChunkInv, [Next]_vars PROVE ChunkInv'
  OBVIOUS
<1>1. ASSUME AgentHandles PROVE ChunkInv'
  <2>1. /\ handles' \in [Puts -> Nat \cup {None}] /\ file' \in Seq(Nat) /\ NoneMisplaced'
        /\ down # <<>> /\ down' = Tail(down) /\ UNCHANGED <<pc, off, lim, cur, late>> /\ down \in Seq(Messages)
    BY Zenon, <1>1, AgentStep DEF ChunkInv, ChunkTypes, AgentHandles, handler
  <2>2. ChunkTypes'
    BY Zenon, <2>1, TailQueue DEF ChunkInv, ChunkTypes
  <2>3. ChunksWithinLimit'
    BY SMTT(30), <2>1, TailQueue DEF ChunkInv, ChunksWithinLimit
  <2> QED
    BY Zenon, <2>1, <2>2, <2>3 DEF ChunkInv, LateWithin
<1>l. ASSUME NEW w \in late, LateHandler(w) PROVE ChunkInv'
  <2>1. /\ handles' \in [Puts -> Nat \cup {None}] /\ file' \in Seq(Nat) /\ NoneMisplaced'
        /\ UNCHANGED <<pc, off, lim, cur, down>> /\ late' = late \ {w}
    BY Zenon, <1>l, LateStep DEF LateHandler, handler
  <2> QED
    BY Zenon, <2>1 DEF ChunkInv, ChunkTypes, ChunksWithinLimit, LateWithin
<1>2. ASSUME LinkBreaks PROVE ChunkInv'
  BY Zenon, <1>2, LoseKeeps DEF LinkBreaks, handler, ChunkInv, ChunkTypes
<1>3. ASSUME CloudRestarts PROVE ChunkInv'
  <2>1. pc' \in [Puts -> Stages] /\ \A h \in Puts : pc[h] \notin Before => pc'[h] \notin Before
    BY Zenon, <1>3 DEF CloudRestarts, Stages, Before
  <2> QED
    BY Zenon, <1>3, <2>1, LoseKeeps DEF CloudRestarts
<1>4. CASE UNCHANGED <<pc, off, lim, cur, down, handles, file, late>>
  BY Zenon, <1>4 DEF ChunkInv, ChunkTypes, ChunksWithinLimit, LateWithin, NoneMisplaced
<1>5. \/ UNCHANGED <<pc, off, lim, cur, down, handles, file, late>>
      \/ AgentHandles \/ LinkBreaks \/ CloudRestarts \/ \E w \in late : LateHandler(w)
      \/ \E h \in Puts :
           \/ Authorize(h) \/ Missed(h) \/ ReadRow(h) \/ Restore(h) \/ Begin(h) \/ PersistActive(h) \/ Open(h)
           \/ Ready(h) \/ ClientGone(h) \/ SendChunk(h) \/ SendComplete(h) \/ Completed(h) \/ PersistResult(h) \/ End(h)
  BY Zenon DEF Next, vars, handler, link, agent, ReaderTakes, ReaderSends, AgentReconnects, Expire
<1> QED
  BY Zenon, <1>1, <1>l, <1>2, <1>3, <1>4, <1>5, ChunkHandler

(* A chunk that makes the agent's file grow lies within the limit its      *)
(* request had read, for any number of requests, sizes and limits, lost    *)
(* connections and restarts, and however many sessions are restored        *)
(* (handleFileTransfer, maxFileUploadBytes, handleTransferData).           *)
THEOREM UploadsStayWithinLimit == Spec => GrowthWithinLimit
<1> DEFINE Within == Len(file') > Len(file) =>
                       \A m \in Handled : m.type = "data" /\ lim[m.h] > 0 => Len(file') <= lim[m.h]
<1>1. ChunkInv /\ [Next]_vars => [Within]_vars
  <2> SUFFICES ASSUME ChunkInv, Next, Len(file') > Len(file), NEW m \in Handled, m.type = "data", lim[m.h] > 0
               PROVE  Len(file') <= lim[m.h]
    OBVIOUS
  <2>0. file \in Seq(Nat) /\ Len(file) \in Nat /\ down \in Seq(Messages)
    BY DEF ChunkInv, ChunkTypes
  <2>1. AgentHandles \/ \E w \in late : LateHandler(w)
    <3>1. file' # file
      BY <2>0
    <3> QED
      BY ZenonT(30), <3>1 DEF Next, agent, Authorize, Missed, ReadRow, Restore, Begin, PersistActive, Open, Ready, ClientGone,
         SendChunk, SendComplete, Completed, PersistResult, End, ReaderTakes, ReaderSends, LinkBreaks,
         AgentReconnects, Expire, CloudRestarts, LoseLink
  <2>2. CASE AgentHandles
    <3>1. m = Head(down) /\ down # <<>>
      BY Zenon, <2>2 DEF AgentHandles, Handled
    <3>2. file' = file \/ Len(file') = Len(file) \/ Len(file') = m.off + 1
      BY Zenon, <2>2, <3>1, AgentStep DEF ChunkInv
    <3>3. m = down[1] /\ 1 \in 1..Len(down)
      BY Zenon, <2>0, <3>1, TailQueue
    <3>4. m.off + 1 <= lim[m.h]
      BY Zenon, <3>3 DEF ChunkInv, ChunksWithinLimit
    <3> QED
      BY <2>0, <3>2, <3>4
  <2>3. ASSUME NEW w \in late, LateHandler(w) PROVE Len(file') <= lim[m.h]
    <3>1. m = w.msg
      <4>1. late' = late \ {w}
        BY Zenon, <2>3 DEF LateHandler
      <4>2. late' # late /\ \A v \in late \ late' : v = w
        BY Zenon, <4>1
      <4> QED
        BY Zenon, <4>2 DEF Handled
    <3>2. file' = file \/ Len(file') = Len(file) \/ Len(file') = m.off + 1
      BY Zenon, <2>3, <3>1, LateStep
    <3>4. m.off + 1 <= lim[m.h]
      BY Zenon, <3>1 DEF ChunkInv, LateWithin
    <3> QED
      BY <2>0, <3>2, <3>4
  <2> QED
    BY Zenon, <2>1, <2>2, <2>3
<1> QED
  BY <1>1, ChunkInit, ChunkNext, PTL DEF Spec, GrowthWithinLimit

-----------------------------------------------------------------------------
(* What reaches the file.                                                  *)

\* The rest of the types.
HandlerTypes ==
  /\ conn \in [Puts -> Nat] /\ sess \in [Puts -> Nat]
  /\ rec \in [Puts -> Row] /\ row \in Row
LinkTypes ==
  /\ epoch \in Nat /\ up \in BOOLEAN
  /\ uplink \in Seq(Answers)
  /\ reader \in [Epochs -> Seq(Deliveries)]
  /\ ready \in [Puts -> Seq(Values)] /\ complete \in [Puts -> Seq(Values)]

\* The handlers have the one session object there is, and an attempt that has
\* begun and not ended keeps it active.
SessionState ==
  /\ objects \in Seq(Session)
  /\ mapped \in Nat
  /\ mapped # 0 => mapped = 1 /\ Len(objects) = 1
  /\ \A h \in Puts : pc[h] \in Live \cup {"authorized"} => sess[h] = 1 /\ Len(objects) = 1
  /\ \A h \in Puts : pc[h] \in Live => objects[1].active
  /\ OneAttempt

\* What is on its way belongs to requests that have opened the transfer, on
\* the connection they opened it on; a lost connection carries nothing.
OnItsWay ==
  /\ ~up => down = <<>> /\ uplink = <<>>
  /\ \A i \in 1..Len(down) : conn[down[i].h] = epoch
  /\ \A i \in 1..Len(uplink) : pc[uplink[i].h] \notin Before /\ conn[uplink[i].h] = epoch
  /\ \A e \in Epochs : \A i \in 1..Len(reader[e]) :
        pc[reader[e][i].val.h] \notin Before /\ conn[reader[e][i].val.h] = e
  /\ \A h \in Puts : pc[h] \in Before => ready[h] = <<>> /\ complete[h] = <<>>
  /\ \A h \in Puts : conn[h] <= epoch

\* No open message is ahead of a chunk or of a complete message, these are all
\* of one request, and a running request has sent nothing after its open or its
\* complete message, and nobody else has.
InOrder ==
  /\ \A i, j \in 1..Len(down) :
        i < j /\ down[j].type # "open" => down[i].type # "open"
  /\ \A i, j \in 1..Len(down) :
        down[i].type # "open" /\ down[j].type # "open" => down[i].h = down[j].h
  /\ \A i \in 1..Len(down) :
        down[i].type # "data" /\ pc[down[i].h] \in Live => i = Len(down)
  /\ \A i \in 1..Len(down) :
        down[i].type = "complete" =>
           pc[down[i].h] \notin {"waitReady", "sending"} /\ down[i].off = Size

\* The agent's ready message for h, or its complete message, is on its way.
ReadyFor(h) ==
  \/ \E i \in 1..Len(uplink) : uplink[i].type = "ready" /\ uplink[i].h = h
  \/ \E e \in Epochs : \E i \in 1..Len(reader[e]) :
        reader[e][i].ch = "ready" /\ reader[e][i].val.h = h /\ ~reader[e][i].val.error
  \/ \E i \in 1..Len(ready[h]) : ~ready[h][i].error
CompleteFor(h) ==
  \/ \E i \in 1..Len(uplink) : uplink[i].type = "complete" /\ uplink[i].h = h
  \/ \E e \in Epochs : \E i \in 1..Len(reader[e]) :
        reader[e][i].ch = "complete" /\ reader[e][i].val.h = h /\ ~reader[e][i].val.error
  \/ \E i \in 1..Len(complete[h]) : ~complete[h][i].error

\* The agent has opened the file for h, and h may still write to it.
Writing(h) ==
  /\ Connected(h)
  /\ pc[h] \in {"sending", "waitComplete"} \/ (pc[h] = "waitReady" /\ ReadyFor(h))

\* Until an upload is opened while a lost connection's handler goes on: the
\* handle of h is at the end of the file; the file is whole and no such handler
\* is left; the file is the beginning of the client's.
AtEnd(h) == raced \/ handles[h] = None \/ handles[h] = Len(file)
Whole == raced \/ (Len(file) = Size /\ late = {})
Prefixed == raced \/ FileIsPrefix

\* While such a handler goes on, nothing else writes: the messages on their way
\* are open messages and no request has been told that its file is open.
LateState ==
  \/ raced \/ late = {}
  \/ /\ \A i \in 1..Len(down) : down[i].type = "open"
     /\ \A h \in Puts : ~Writing(h)
     /\ \A w \in late : w.msg.type # "open" => AtEnd(w.msg.h)
     /\ \A v, w \in late : v.msg.type # "open" /\ w.msg.type # "open" => v = w
     /\ \A w \in late : w.measured => w.msg.off <= Len(file)

\* A request that writes has the connection for itself, and its handle, and
\* that of a request whose chunks are still on their way, is at the end of the
\* file.
Writers ==
  /\ \A h \in Puts : Writing(h) =>
        /\ \A i \in 1..Len(down) : down[i].type # "open" /\ down[i].h = h
        /\ AtEnd(h)
  /\ \A i \in 1..Len(down) : down[i].type # "open" => AtEnd(down[i].h)

\* Nothing is left of a transfer that is complete at the agent and not yet
\* persisted, or persisted and not yet begun again.
Results ==
  /\ \A h \in Puts : CompleteFor(h) => pc[h] \notin {"waitReady", "sending"}
  /\ \A h \in Puts :
        pc[h] = "finishing" \/ (pc[h] = "waitComplete" /\ CompleteFor(h)) =>
           down = <<>> /\ Whole
  /\ row.status = "completed" =>
        /\ down = <<>> /\ Whole
        /\ \A h \in Puts : pc[h] \notin AtAgent \cup {"persisted"}

\* The socket, the channels and the file.
LinkInv == OnItsWay /\ InOrder /\ Writers /\ Results /\ LateState /\ Prefixed

UploadInv == ChunkInv /\ HandlerTypes /\ LinkTypes /\ SessionState /\ LinkInv

\* A step that leaves the file and the messages alone.
LEMMA LateQuiet ==
  ASSUME LateState, UNCHANGED <<handles, file, late, raced>>, down' = down,
         \A k \in Puts : Writing(k)' => Writing(k)
  PROVE  LateState'
  BY Zenon DEF LateState, AtEnd

LEMMA AnswerOf == \A q \in Seq(Answers) : \A i \in 1..Len(q) : q[i] \in Answers /\ q[i].h \in Puts
<1>1. \A m \in Answers : m.h \in Puts
  BY Zenon DEF Answers
<1> QED
  BY Zenon, <1>1, InQueue

LEMMA DeliveryOf == \A q \in Seq(Deliveries) : \A i \in 1..Len(q) : q[i] \in Deliveries /\ q[i].val \in Values /\ q[i].val.h \in Puts
<1>1. \A s \in Deliveries : s.val \in Values /\ s.val.h \in Puts
  BY Zenon DEF Deliveries, Values
<1> QED
  BY Zenon, <1>1, InQueue

\* The queues the invariant speaks of.
LEMMA Queues ==
  ASSUME UploadInv
  PROVE  /\ pc \in [Puts -> Stages] /\ conn \in [Puts -> Nat] /\ epoch \in Nat /\ Len(down) \in Nat
         /\ \A i \in 1..Len(down) : down[i] \in Messages /\ down[i].h \in Puts /\ pc[down[i].h] \notin Before
         /\ \A i \in 1..Len(uplink) : uplink[i] \in Answers /\ uplink[i].h \in Puts
         /\ \A e \in Epochs : \A i \in 1..Len(reader[e]) : reader[e][i] \in Deliveries /\ reader[e][i].val.h \in Puts
<1>1. pc \in [Puts -> Stages] /\ conn \in [Puts -> Nat] /\ epoch \in Nat /\ Len(down) \in Nat
  BY DEF UploadInv, ChunkInv, ChunkTypes, HandlerTypes, LinkTypes
<1>2. \A i \in 1..Len(down) : down[i] \in Messages /\ down[i].h \in Puts /\ pc[down[i].h] \notin Before
  BY Zenon, MessageOf DEF UploadInv, ChunkInv, ChunkTypes, ChunksWithinLimit, LateWithin, NoneMisplaced
<1>3. \A i \in 1..Len(uplink) : uplink[i] \in Answers /\ uplink[i].h \in Puts
  BY Zenon, AnswerOf DEF UploadInv, LinkTypes
<1>4. \A e \in Epochs : \A i \in 1..Len(reader[e]) : reader[e][i] \in Deliveries /\ reader[e][i].val.h \in Puts
  <2>1. \A e \in Epochs : reader[e] \in Seq(Deliveries)
    BY Zenon DEF UploadInv, LinkTypes
  <2> QED
    BY Zenon, <2>1, DeliveryOf
<1> QED
  BY Zenon, <1>1, <1>2, <1>3, <1>4

\* A handler goes on without a message and without an answer.
LEMMA QuietKeeps ==
  ASSUME UploadInv, NEW h \in Puts, NEW to \in Stages, pc' = [pc EXCEPT ![h] = to],
         to \notin AtAgent \cup {"finishing"},
         pc[h] \in Before \/ to \notin Before,
         pc[h] \in Before \cup Live \/ to \notin Live,
         UNCHANGED <<conn, epoch, up, down, uplink, reader, ready, complete, handles, file, late, raced>>,
         row'.status = "completed" => (row.status = "completed" /\ to # "persisted") \/ pc[h] = "finishing"
  PROVE  LinkInv'
<1>q. /\ pc \in [Puts -> Stages]
      /\ \A i \in 1..Len(down) : down[i].h \in Puts /\ pc[down[i].h] \notin Before
      /\ \A i \in 1..Len(uplink) : uplink[i].h \in Puts
      /\ \A e \in Epochs : \A i \in 1..Len(reader[e]) : reader[e][i].val.h \in Puts
  BY Zenon, Queues
<1>p. /\ pc'[h] = to /\ \A k \in Puts : k # h => pc'[k] = pc[k]
  BY Zenon, <1>q
<1>b. \A k \in Puts : pc'[k] \in Before => pc[k] \in Before
  BY Zenon, <1>p
<1>1. OnItsWay'
  BY Zenon, <1>q, <1>b DEF OnItsWay, UploadInv, LinkInv
<1>2. InOrder'
  <2>1. \A k \in Puts : pc[k] \notin Before /\ pc'[k] \in Live => pc[k] \in Live
    BY Zenon, <1>p
  <2>2. \A k \in Puts : pc'[k] \in {"waitReady", "sending"} => pc[k] = pc'[k]
    BY Zenon, <1>p DEF AtAgent
  <2> QED
    BY <1>q, <2>1, <2>2 DEF InOrder, UploadInv, LinkInv
<1>3. /\ \A k \in Puts : ReadyFor(k)' = ReadyFor(k) /\ CompleteFor(k)' = CompleteFor(k)
      /\ \A k \in Puts : pc'[k] \in AtAgent \cup {"finishing"} => k # h /\ pc'[k] = pc[k]
  BY Zenon, <1>p DEF ReadyFor, CompleteFor
<1>4. \A k \in Puts : Writing(k)' => Writing(k)
  BY Zenon, <1>3 DEF Writing, Connected, AtAgent
<1>5. Writers'
  BY Zenon, <1>4 DEF Writers, AtEnd, UploadInv, LinkInv
<1>6. Results'
  <2>1. \A k \in Puts : CompleteFor(k)' => pc'[k] \notin {"waitReady", "sending"}
    BY Zenon, <1>3 DEF Results, Whole, UploadInv, LinkInv, AtAgent
  <2>2. \A k \in Puts :
        pc'[k] = "finishing" \/ (pc'[k] = "waitComplete" /\ CompleteFor(k)') =>
           down = <<>> /\ Whole
    BY Zenon, <1>3 DEF Results, Whole, UploadInv, LinkInv, AtAgent
  <2>3. ASSUME row'.status = "completed"
        PROVE  /\ down = <<>> /\ Whole
               /\ \A k \in Puts : pc'[k] \notin AtAgent \cup {"persisted"}
    <3>1. CASE row.status = "completed" /\ to # "persisted"
      BY Zenon, <1>p, <3>1 DEF Results, Whole, UploadInv, LinkInv
    <3>2. CASE pc[h] = "finishing"
      <4>1. down = <<>> /\ Whole
        BY Zenon, <3>2 DEF Results, Whole, UploadInv, LinkInv
      <4>2. to # "persisted"
        BY Zenon, <3>2 DEF Before
      <4>3. \A k \in Puts : k # h => pc[k] \notin Live
        BY Zenon, <3>2 DEF UploadInv, SessionState, OneAttempt, Live
      <4> QED
        BY Zenon, <1>p, <4>1, <4>2, <4>3 DEF Live, AtAgent
    <3> QED
      BY Zenon, <2>3, <3>1, <3>2
  <2> QED
    BY Zenon, <2>1, <2>2, <2>3 DEF Results, Whole
<1>7. LateState'
  BY Zenon, <1>4, LateQuiet DEF UploadInv, LinkInv
<1> QED
  BY Zenon, <1>1, <1>2, <1>5, <1>6, <1>7 DEF UploadInv, LinkInv, Prefixed, FileIsPrefix

\* The attempt that runs is alone.
LEMMA Alone ==
  ASSUME UploadInv, NEW h \in Puts, pc[h] \in Live
  PROVE  \A k \in Puts : k # h => pc[k] \notin Live
  BY Zenon DEF UploadInv, SessionState, OneAttempt

\* The open message.
LEMMA OpenKeeps ==
  ASSUME UploadInv, NEW h \in Puts, Open(h), up
  PROVE  LinkInv'
<1>q. /\ pc \in [Puts -> Stages] /\ conn \in [Puts -> Nat] /\ down \in Seq(Messages) /\ off \in [Puts -> Nat]
      /\ \A i \in 1..Len(down) : down[i].h \in Puts /\ pc[down[i].h] \notin Before
      /\ \A i \in 1..Len(uplink) : uplink[i].h \in Puts
      /\ \A e \in Epochs : \A i \in 1..Len(reader[e]) : reader[e][i].val.h \in Puts
  BY Zenon, Queues DEF UploadInv, ChunkInv, ChunkTypes
<1> DEFINE m == [type |-> "open", h |-> h, off |-> off[h]]
<1>o. /\ pc[h] = "persisted" /\ pc' = [pc EXCEPT ![h] = "waitReady"] /\ conn' = [conn EXCEPT ![h] = epoch]
      /\ down' = Append(down, m) /\ UNCHANGED <<epoch, up, uplink, reader, ready, complete, row, handles, file, late, raced>>
  BY Zenon DEF Open, channels, durable, agent
<1>m. m \in Messages /\ m.h = h /\ m.type = "open"
  BY Zenon, <1>q DEF Messages
<1> HIDE DEF m
<1>p. /\ pc'[h] = "waitReady" /\ \A k \in Puts : k # h => pc'[k] = pc[k] /\ conn'[k] = conn[k]
      /\ conn'[h] = epoch
  BY Zenon, <1>q, <1>o
<1>a. \A k \in Puts : k # h => pc[k] \notin Live
  BY Zenon, <1>o, Alone DEF Live
<1>n. /\ \A i \in 1..Len(down) : down[i].h # h
      /\ \A i \in 1..Len(uplink) : uplink[i].h # h
      /\ \A e \in Epochs : \A i \in 1..Len(reader[e]) : reader[e][i].val.h # h
      /\ ready[h] = <<>> /\ complete[h] = <<>>
  <2>1. OnItsWay /\ pc[h] \in Before
    BY Zenon, <1>o DEF UploadInv, LinkInv, Before
  <2>2. \A i \in 1..Len(down) : down[i].h # h
    BY Zenon, <1>q, <2>1
  <2>3. \A i \in 1..Len(uplink) : uplink[i].h # h
    BY Zenon, <2>1 DEF OnItsWay
  <2>4. \A e \in Epochs : \A i \in 1..Len(reader[e]) : reader[e][i].val.h # h
    BY Zenon, <2>1 DEF OnItsWay
  <2>5. ready[h] = <<>> /\ complete[h] = <<>>
    BY Zenon, <2>1 DEF OnItsWay
  <2> QED
    BY Zenon, <2>2, <2>3, <2>4, <2>5
<1>d. /\ Len(down') = Len(down) + 1 /\ down'[Len(down) + 1] = m
      /\ \A i \in 1..Len(down) : down'[i] = down[i]
      /\ \A i \in 1..Len(down') : i = Len(down) + 1 \/ i \in 1..Len(down)
  BY <1>q, <1>o, <1>m, AppendQueue
<1>1. OnItsWay'
  <2>0. OnItsWay
    BY Zenon DEF UploadInv, LinkInv
  <2>1. \A i \in 1..Len(down') : conn'[down'[i].h] = epoch
    <3>1. \A i \in 1..Len(down) : conn'[down[i].h] = epoch
      BY Zenon, <1>p, <1>n, <1>q, <2>0 DEF OnItsWay
    <3>2. ASSUME NEW i \in 1..Len(down') PROVE conn'[down'[i].h] = epoch
      BY Zenon, <1>d, <1>m, <1>p, <3>1
    <3> QED
      BY Zenon, <3>2
  <2>2. \A i \in 1..Len(uplink) : pc'[uplink[i].h] \notin Before /\ conn'[uplink[i].h] = epoch
    BY Zenon, <1>p, <1>n, <1>q, <2>0 DEF OnItsWay
  <2>3. \A e \in Epochs : \A i \in 1..Len(reader[e]) :
          pc'[reader[e][i].val.h] \notin Before /\ conn'[reader[e][i].val.h] = e
    BY Zenon, <1>p, <1>n, <1>q, <2>0 DEF OnItsWay
  <2>4. \A k \in Puts : pc'[k] \in Before => ready[k] = <<>> /\ complete[k] = <<>>
    BY Zenon, <1>p, <2>0 DEF OnItsWay, Before
  <2>5. \A k \in Puts : conn'[k] <= epoch
    BY <1>p, <2>0, Queues DEF OnItsWay
  <2> QED
    BY SMTT(30), <1>o, <2>1, <2>2, <2>3, <2>4, <2>5 DEF OnItsWay
<1>2. InOrder'
  <2>0. InOrder
    BY Zenon DEF UploadInv, LinkInv
  <2>1. \A i, j \in 1..Len(down') :
          i < j /\ down'[j].type # "open" => down'[i].type # "open"
    BY <1>d, <1>m, <2>0 DEF InOrder
  <2>2. \A i, j \in 1..Len(down') :
          down'[i].type # "open" /\ down'[j].type # "open" => down'[i].h = down'[j].h
    BY <1>d, <1>m, <2>0 DEF InOrder
  <2>3. \A i \in 1..Len(down') : down'[i].type # "data" /\ pc'[down'[i].h] \in Live => i = Len(down')
    BY <1>d, <1>m, <1>n, <1>q, <1>p, <1>a
  <2>4. \A i \in 1..Len(down') : down'[i].type = "complete" =>
           pc'[down'[i].h] \notin {"waitReady", "sending"} /\ down'[i].off = Size
    BY <1>d, <1>m, <1>n, <1>q, <1>p, <2>0 DEF InOrder
  <2> QED
    BY Zenon, <2>1, <2>2, <2>3, <2>4 DEF InOrder
<1>3. ~ReadyFor(h)' /\ ~CompleteFor(h)' /\ \A k \in Puts : CompleteFor(k)' = CompleteFor(k)
  BY Zenon, <1>n, <1>o, EmptyQueue DEF ReadyFor, CompleteFor
<1>4. \A k \in Puts : ~Writing(k)'
  BY Zenon, <1>3, <1>p, <1>a DEF Writing, Live
<1>5. Writers'
  <2>1. \A i \in 1..Len(down') : down'[i].type # "open" =>
          AtEnd(down'[i].h)
    BY Zenon, <1>d, <1>m DEF UploadInv, LinkInv, Writers, AtEnd
  <2> QED
    BY Zenon, <1>o, <1>4, <2>1 DEF Writers, AtEnd
<1>6. Results'
  <2>1. row.status # "completed"
    BY Zenon, <1>o DEF UploadInv, LinkInv, Results, Whole
  <2>2. \A k \in Puts : CompleteFor(k)' => pc'[k] \notin {"waitReady", "sending"}
    BY Zenon, <1>3, <1>p DEF UploadInv, LinkInv, Results, Whole
  <2>3. \A k \in Puts : pc'[k] # "finishing" /\ pc'[k] # "waitComplete"
    BY Zenon, <1>p, <1>a DEF Live
  <2> QED
    BY Zenon, <1>o, <2>1, <2>2, <2>3 DEF Results, Whole
<1>7. LateState'
  <2>1. LateState
    BY Zenon DEF UploadInv, LinkInv
  <2>2. (\A i \in 1..Len(down) : down[i].type = "open") => \A i \in 1..Len(down') : down'[i].type = "open"
    BY Zenon, <1>d, <1>m
  <2> QED
    BY Zenon, <1>o, <1>4, <2>1, <2>2 DEF LateState, AtEnd
<1> QED
  BY Zenon, <1>o, <1>1, <1>2, <1>5, <1>6, <1>7 DEF UploadInv, LinkInv, Prefixed, FileIsPrefix

\* A chunk, or the complete message.
LEMMA SendKeeps ==
  ASSUME UploadInv, NEW m \in Messages, pc[m.h] = "sending", Connected(m.h), down' = Append(down, m),
         \/ m.type = "data" /\ pc' = pc
         \/ m.type = "complete" /\ m.off = Size /\ pc' = [pc EXCEPT ![m.h] = "waitComplete"],
         UNCHANGED <<conn, epoch, up, uplink, reader, ready, complete, row, handles, file, late, raced>>
  PROVE  LinkInv'
<1> DEFINE h == m.h
<1>q. /\ pc \in [Puts -> Stages] /\ conn \in [Puts -> Nat] /\ down \in Seq(Messages) /\ h \in Puts
      /\ \A i \in 1..Len(down) : down[i].h \in Puts /\ pc[down[i].h] \notin Before
      /\ \A i \in 1..Len(uplink) : uplink[i].h \in Puts
      /\ \A e \in Epochs : \A i \in 1..Len(reader[e]) : reader[e][i].val.h \in Puts
  BY Zenon, Queues DEF UploadInv, ChunkInv, ChunkTypes, Messages
<1> HIDE DEF h
<1>s. pc[h] = "sending" /\ Connected(h) /\ m.h = h /\ m.type # "open" /\ conn[h] = epoch /\ up
  BY Zenon DEF h, Connected
<1>p. /\ pc'[h] \in {"sending", "waitComplete"} /\ \A k \in Puts : k # h => pc'[k] = pc[k]
      /\ pc'[h] = "sending" <=> m.type = "data"
  BY Zenon, <1>q, <1>s DEF h
<1>a. \A k \in Puts : k # h => pc[k] \notin Live
  BY Zenon, <1>s, <1>q, Alone DEF Live
<1>w. /\ \A i \in 1..Len(down) : down[i].type # "open" /\ down[i].h = h
      /\ AtEnd(h) /\ (raced \/ late = {})
  <2>1. Writing(h)
    BY Zenon, <1>s DEF Writing
  <2> QED
    BY Zenon, <1>q, <2>1 DEF UploadInv, LinkInv, Writers, LateState
<1>c. \A i \in 1..Len(down) : down[i].type = "data"
  <2>1. \A i \in 1..Len(down) : down[i].type # "complete"
    BY Zenon, <1>w, <1>s DEF UploadInv, LinkInv, InOrder
  <2>2. \A i \in 1..Len(down) : down[i].type \in {"open", "data", "complete"}
    BY Zenon, <1>q, MessageOf DEF Messages
  <2> QED
    BY Zenon, <1>w, <2>1, <2>2
<1>d. /\ Len(down') = Len(down) + 1 /\ down'[Len(down) + 1] = m
      /\ \A i \in 1..Len(down) : down'[i] = down[i]
      /\ \A i \in 1..Len(down') : i = Len(down) + 1 \/ i \in 1..Len(down)
  BY <1>q, AppendQueue
<1>e. \A i \in 1..Len(down') : down'[i].type # "open" /\ down'[i].h = h
  BY Zenon, <1>d, <1>w, <1>s
<1>1. OnItsWay'
  <2>0. OnItsWay
    BY Zenon DEF UploadInv, LinkInv
  <2>1. \A k \in Puts : pc[k] \in Before <=> pc'[k] \in Before
    BY Zenon, <1>p, <1>s DEF Before
  <2> QED
    BY <1>e, <1>q, <1>s, <2>0, <2>1 DEF OnItsWay
<1>2. InOrder'
  <2>3. \A i \in 1..Len(down') : down'[i].type # "data" => i = Len(down')
    BY Zenon, <1>d, <1>c
  <2>4. \A i \in 1..Len(down') : down'[i].type = "complete" =>
           pc'[down'[i].h] \notin {"waitReady", "sending"} /\ down'[i].off = Size
    BY Zenon, <1>d, <1>c, <1>p, <1>s DEF h
  <2> QED
    BY <1>e, <2>3, <2>4 DEF InOrder
<1>3. \A k \in Puts : CompleteFor(k)' = CompleteFor(k)
  BY Zenon DEF CompleteFor
<1>4. \A k \in Puts : Writing(k)' => k = h
  BY Zenon, <1>p, <1>a DEF Writing, Live
<1>5. Writers'
  BY Zenon, <1>4, <1>e, <1>w DEF Writers, AtEnd
<1>6. Results'
  <2>1. row.status # "completed" /\ ~CompleteFor(h)
    BY Zenon, <1>s, <1>q DEF UploadInv, LinkInv, Results, Whole, AtAgent
  <2>2. \A k \in Puts : CompleteFor(k)' => pc'[k] \notin {"waitReady", "sending"}
    BY Zenon, <1>3, <1>p, <2>1 DEF UploadInv, LinkInv, Results, Whole
  <2>3. \A k \in Puts : pc'[k] # "finishing" /\ (pc'[k] = "waitComplete" => k = h)
    BY Zenon, <1>p, <1>a DEF Live
  <2> QED
    BY Zenon, <1>3, <2>1, <2>2, <2>3 DEF Results, Whole
<1>7. LateState'
  BY Zenon, <1>w DEF LateState
<1> QED
  BY Zenon, <1>1, <1>2, <1>5, <1>6, <1>7 DEF UploadInv, LinkInv, Prefixed, FileIsPrefix

\* A handler takes the agent's ready message, or its error.
LEMMA ReadyKeeps ==
  ASSUME UploadInv, NEW h \in Puts, Ready(h)
  PROVE  LinkInv'
<1>q. /\ pc \in [Puts -> Stages] /\ ready \in [Puts -> Seq(Values)]
      /\ \A i \in 1..Len(down) : down[i].h \in Puts /\ pc[down[i].h] \notin Before
      /\ \A i \in 1..Len(uplink) : uplink[i].h \in Puts
      /\ \A e \in Epochs : \A i \in 1..Len(reader[e]) : reader[e][i].val.h \in Puts
  BY Zenon, Queues DEF UploadInv, LinkTypes
<1>o. /\ pc[h] = "waitReady" /\ ready[h] # <<>> /\ ready' = [ready EXCEPT ![h] = Tail(@)]
      /\ \/ pc' = [pc EXCEPT ![h] = "failing"]
         \/ pc' = [pc EXCEPT ![h] = "ending"]
         \/ pc' = [pc EXCEPT ![h] = "sending"] /\ ~Head(ready[h]).error
      /\ UNCHANGED <<conn, epoch, up, down, uplink, reader, complete, row, handles, file, late, raced>>
  BY Zenon DEF Ready, link, durable, agent
<1>r. /\ ready[h] \in Seq(Values) /\ Head(ready[h]) = ready[h][1] /\ 1 \in 1..Len(ready[h])
      /\ \A i \in 1..Len(Tail(ready[h])) : i + 1 \in 1..Len(ready[h]) /\ Tail(ready[h])[i] = ready[h][i + 1]
      /\ ready'[h] = Tail(ready[h]) /\ \A k \in Puts : k # h => ready'[k] = ready[k]
  BY <1>q, <1>o, TailQueue
<1>p. /\ pc'[h] \in {"failing", "ending", "sending"} /\ \A k \in Puts : k # h => pc'[k] = pc[k]
      /\ pc'[h] = "sending" => ~Head(ready[h]).error
  BY Zenon, <1>q, <1>o
<1>a. \A k \in Puts : k # h => pc[k] \notin Live
  BY Zenon, <1>o, Alone DEF Live
<1>1. OnItsWay'
  <2>0. OnItsWay
    BY Zenon DEF UploadInv, LinkInv
  <2>1. \A k \in Puts : pc[k] \in Before <=> pc'[k] \in Before
    BY Zenon, <1>p, <1>o DEF Before
  <2>2. \A k \in Puts : pc'[k] \in Before => ready'[k] = <<>>
    BY <1>p, <1>r, <2>0, <2>1 DEF OnItsWay, Before
  <2> QED
    BY <1>o, <1>q, <2>0, <2>1, <2>2 DEF OnItsWay
<1>3. /\ \A k \in Puts : CompleteFor(k)' = CompleteFor(k)
      /\ ~Head(ready[h]).error => ReadyFor(h)
  BY Zenon, <1>o, <1>r DEF CompleteFor, ReadyFor
<1>4. \A k \in Puts : Writing(k)' => k = h /\ Writing(h)
  <2>1. \A k \in Puts : Writing(k)' => k = h
    BY Zenon, <1>p, <1>a DEF Writing, Live
  <2>2. Writing(h)' => pc'[h] = "sending" /\ Connected(h)
    BY Zenon, <1>p, <1>o DEF Writing, Connected
  <2> QED
    BY Zenon, <2>1, <2>2, <1>o, <1>3, <1>p DEF Writing
<1>2. InOrder'
  <2>0. InOrder
    BY Zenon DEF UploadInv, LinkInv
  <2>1. \A k \in Puts : pc'[k] \in Live => pc[k] \in Live
    BY Zenon, <1>p, <1>o DEF Live
  <2>2. \A i \in 1..Len(down) : down[i].type = "complete" => down[i].h # h
    BY Zenon, <1>o, <2>0 DEF InOrder
  <2>3. \A i \in 1..Len(down) : down[i].type = "complete" =>
           pc'[down[i].h] \notin {"waitReady", "sending"} /\ down[i].off = Size
    BY Zenon, <1>q, <1>p, <2>0, <2>2 DEF InOrder
  <2> QED
    BY <1>o, <1>q, <2>0, <2>1, <2>3 DEF InOrder
<1>5. Writers'
  BY Zenon, <1>4, <1>o DEF Writers, AtEnd, UploadInv, LinkInv
<1>6. Results'
  <2>1. row.status # "completed" /\ ~CompleteFor(h)
    BY Zenon, <1>o DEF UploadInv, LinkInv, Results, Whole, AtAgent
  <2>2. \A k \in Puts : CompleteFor(k)' => pc'[k] \notin {"waitReady", "sending"}
    BY Zenon, <1>3, <1>p, <2>1 DEF UploadInv, LinkInv, Results, Whole
  <2>3. \A k \in Puts : pc'[k] # "finishing" /\ pc'[k] # "waitComplete"
    BY Zenon, <1>p, <1>a DEF Live
  <2> QED
    BY Zenon, <1>o, <2>1, <2>2, <2>3 DEF Results, Whole
<1>7. LateState'
  BY Zenon, <1>4, <1>o, LateQuiet DEF UploadInv, LinkInv
<1> QED
  BY Zenon, <1>o, <1>1, <1>2, <1>5, <1>6, <1>7 DEF UploadInv, LinkInv, Prefixed, FileIsPrefix

\* A handler takes the agent's complete message, or its error.
LEMMA CompletedKeeps ==
  ASSUME UploadInv, NEW h \in Puts, Completed(h)
  PROVE  LinkInv'
<1>q. /\ pc \in [Puts -> Stages] /\ complete \in [Puts -> Seq(Values)]
      /\ \A i \in 1..Len(down) : down[i].h \in Puts /\ pc[down[i].h] \notin Before
      /\ \A i \in 1..Len(uplink) : uplink[i].h \in Puts
      /\ \A e \in Epochs : \A i \in 1..Len(reader[e]) : reader[e][i].val.h \in Puts
  BY Zenon, Queues DEF UploadInv, LinkTypes
<1>o. /\ pc[h] = "waitComplete" /\ complete[h] # <<>> /\ complete' = [complete EXCEPT ![h] = Tail(@)]
      /\ \/ pc' = [pc EXCEPT ![h] = "failing"]
         \/ pc' = [pc EXCEPT ![h] = "finishing"] /\ ~Head(complete[h]).error
      /\ UNCHANGED <<conn, epoch, up, down, uplink, reader, ready, row, handles, file, late, raced>>
  BY Zenon DEF Completed, link, durable, agent
<1>r. /\ complete[h] \in Seq(Values) /\ Head(complete[h]) = complete[h][1] /\ 1 \in 1..Len(complete[h])
      /\ \A i \in 1..Len(Tail(complete[h])) : i + 1 \in 1..Len(complete[h]) /\ Tail(complete[h])[i] = complete[h][i + 1]
      /\ complete'[h] = Tail(complete[h]) /\ \A k \in Puts : k # h => complete'[k] = complete[k]
  BY <1>q, <1>o, TailQueue
<1>p. /\ pc'[h] \in {"failing", "finishing"} /\ \A k \in Puts : k # h => pc'[k] = pc[k]
      /\ pc'[h] = "finishing" => ~Head(complete[h]).error
  BY Zenon, <1>q, <1>o
<1>a. \A k \in Puts : k # h => pc[k] \notin Live
  BY Zenon, <1>o, Alone DEF Live
<1>1. OnItsWay'
  <2>0. OnItsWay
    BY Zenon DEF UploadInv, LinkInv
  <2>1. \A k \in Puts : pc[k] \in Before <=> pc'[k] \in Before
    BY Zenon, <1>p, <1>o DEF Before
  <2>2. \A k \in Puts : pc'[k] \in Before => complete'[k] = <<>>
    BY <1>p, <1>r, <2>0, <2>1 DEF OnItsWay, Before
  <2> QED
    BY <1>o, <1>q, <2>0, <2>1, <2>2 DEF OnItsWay
<1>3. /\ \A k \in Puts : k # h => CompleteFor(k)' = CompleteFor(k)
      /\ ~Head(complete[h]).error => CompleteFor(h)
  BY Zenon, <1>o, <1>r DEF CompleteFor
<1>4. \A k \in Puts : ~Writing(k)'
  BY Zenon, <1>p, <1>a DEF Writing, Live
<1>2. InOrder'
  <2>0. InOrder
    BY Zenon DEF UploadInv, LinkInv
  <2>1. \A k \in Puts : pc'[k] \in Live => pc[k] \in Live
    BY Zenon, <1>p, <1>o DEF Live
  <2>2. \A k \in Puts : pc'[k] \in {"waitReady", "sending"} => pc[k] \in {"waitReady", "sending"}
    BY Zenon, <1>p
  <2> QED
    BY <1>o, <1>q, <2>0, <2>1, <2>2 DEF InOrder
<1>5. Writers'
  BY Zenon, <1>4, <1>o DEF Writers, AtEnd, UploadInv, LinkInv
<1>6. Results'
  <2>1. row.status # "completed"
    BY Zenon, <1>o DEF UploadInv, LinkInv, Results, Whole, AtAgent
  <2>2. \A k \in Puts : CompleteFor(k)' => pc'[k] \notin {"waitReady", "sending"}
    BY Zenon, <1>3, <1>p DEF UploadInv, LinkInv, Results, Whole
  <2>3. \A k \in Puts : pc'[k] # "waitComplete" /\ (pc'[k] = "finishing" => k = h)
    BY Zenon, <1>p, <1>a DEF Live
  <2>4. pc'[h] = "finishing" => down = <<>> /\ Whole
    BY Zenon, <1>o, <1>p, <1>3 DEF UploadInv, LinkInv, Results, Whole
  <2> QED
    BY Zenon, <1>o, <2>1, <2>2, <2>3, <2>4 DEF Results, Whole
<1>7. LateState'
  BY Zenon, <1>4, <1>o, LateQuiet DEF UploadInv, LinkInv
<1> QED
  BY Zenon, <1>o, <1>1, <1>2, <1>5, <1>6, <1>7 DEF UploadInv, LinkInv, Prefixed, FileIsPrefix

\* An answer moves on.
LEMMA AnswerKeeps ==
  ASSUME UploadInv, OnItsWay',
         \A k \in Puts : (ReadyFor(k)' => ReadyFor(k)) /\ (CompleteFor(k)' => CompleteFor(k)),
         UNCHANGED <<pc, conn, epoch, up, down, row, handles, file, late, raced>>
  PROVE  LinkInv'
<1>1. InOrder'
  BY Zenon DEF UploadInv, LinkInv, InOrder
<1>2. \A k \in Puts : Writing(k)' => Writing(k)
  BY Zenon DEF Writing, Connected
<1>3. Writers'
  BY Zenon, <1>2 DEF UploadInv, LinkInv, Writers, AtEnd
<1>4. Results'
  BY Zenon DEF UploadInv, LinkInv, Results, Whole
<1>5. LateState'
  BY Zenon, <1>2, LateQuiet DEF UploadInv, LinkInv
<1> QED
  BY Zenon, <1>1, <1>3, <1>4, <1>5 DEF UploadInv, LinkInv, Prefixed, FileIsPrefix

\* What the cloud's reader makes of an answer.
LEMMA SendsOf ==
  ASSUME NEW a \in Answers
  PROVE  /\ Sends(a) \in Seq(Deliveries)
         /\ \A i \in 1..Len(Sends(a)) :
              /\ Sends(a)[i].val.h = a.h
              /\ ~Sends(a)[i].val.error => Sends(a)[i].ch = a.type
<1> DEFINE r == [h |-> a.h, off |-> a.off, error |-> a.type = "error"]
           D(c) == [ch |-> c, val |-> r]
<1>0. a.type \in {"ready", "complete", "error"} /\ a.h \in Puts /\ a.off \in Nat
  BY Zenon DEF Answers
<1>1. r \in Values /\ r.h = a.h /\ (r.error <=> a.type = "error")
  BY Zenon, <1>0 DEF Values
<1> HIDE DEF r
<1>2. \A c \in {"ready", "complete"} : D(c) \in Deliveries /\ D(c).val = r /\ D(c).ch = c
  BY Zenon, <1>1 DEF Deliveries
<1>3. \/ Sends(a) = <<>>
      \/ \E c \in {"ready", "complete"} : a.type = c /\ Sends(a) = <<D(c)>>
      \/ a.type = "error" /\ Sends(a) = <<D("ready"), D("complete")>>
  BY Zenon, <1>0 DEF Sends, r
<1> HIDE DEF D
<1>4. CASE Sends(a) = <<>>
  BY Zenon, <1>4, EmptyQueue
<1>5. ASSUME NEW c \in {"ready", "complete"}, a.type = c, Sends(a) = <<D(c)>>
      PROVE  /\ Sends(a) \in Seq(Deliveries)
             /\ \A i \in 1..Len(Sends(a)) : Sends(a)[i] = D(c)
  BY <1>2, <1>5
<1>6. CASE a.type = "error" /\ Sends(a) = <<D("ready"), D("complete")>>
  <2>1. /\ Sends(a) \in Seq(Deliveries)
        /\ \A i \in 1..Len(Sends(a)) : Sends(a)[i] \in {D("ready"), D("complete")}
    BY <1>2, <1>6
  <2> QED
    BY Zenon, <1>1, <1>2, <1>6, <2>1
<1> QED
  BY Zenon, <1>1, <1>2, <1>3, <1>4, <1>5, <1>6

\* The reader takes an answer off the socket.
LEMMA ReaderTakesKeeps ==
  ASSUME UploadInv, ReaderTakes
  PROVE  LinkInv' /\ uplink' \in Seq(Answers) /\ reader' \in [Epochs -> Seq(Deliveries)]
<1> DEFINE a == Head(uplink)
<1>q. /\ uplink \in Seq(Answers) /\ reader \in [Epochs -> Seq(Deliveries)] /\ uplink # <<>>
      /\ uplink' = Tail(uplink) /\ reader' = [reader EXCEPT ![epoch] = Sends(a)] /\ up
      /\ UNCHANGED <<pc, conn, row, epoch, up, down, ready, complete, handles, file, late, raced>>
  BY Zenon DEF UploadInv, LinkTypes, ReaderTakes, handler, durable, channels, agent
<1>t. /\ a \in Answers /\ a = uplink[1] /\ 1 \in 1..Len(uplink) /\ uplink' \in Seq(Answers)
      /\ \A i \in 1..Len(uplink') : i + 1 \in 1..Len(uplink) /\ uplink'[i] = uplink[i + 1]
  BY Zenon, <1>q, TailQueue
<1> HIDE DEF a
<1>s. /\ Sends(a) \in Seq(Deliveries)
      /\ \A i \in 1..Len(Sends(a)) : Sends(a)[i].val.h = a.h /\ (~Sends(a)[i].val.error => Sends(a)[i].ch = a.type)
  BY Zenon, <1>t, SendsOf
<1>r. /\ reader' \in [Epochs -> Seq(Deliveries)]
      /\ \A e \in Epochs : reader'[e] = reader[e] \/ (e = epoch /\ reader'[e] = Sends(a))
  BY Zenon, <1>q, <1>s
<1>1. OnItsWay'
  <2>0. OnItsWay
    BY Zenon DEF UploadInv, LinkInv
  <2>1. \A i \in 1..Len(uplink') : pc[uplink'[i].h] \notin Before /\ conn[uplink'[i].h] = epoch
    BY <1>t, <2>0 DEF OnItsWay
  <2>2. pc[a.h] \notin Before /\ conn[a.h] = epoch
    BY Zenon, <1>t, <2>0 DEF OnItsWay
  <2>3. \A e \in Epochs : \A i \in 1..Len(reader'[e]) :
          pc[reader'[e][i].val.h] \notin Before /\ conn[reader'[e][i].val.h] = e
    BY <1>r, <1>s, <2>0, <2>2 DEF OnItsWay
  <2> QED
    BY Zenon, <1>q, <2>0, <2>1, <2>3 DEF OnItsWay
<1>2. ASSUME NEW k \in Puts, ReadyFor(k)' PROVE ReadyFor(k)
  <2>1. CASE \E i \in 1..Len(uplink') : uplink'[i].type = "ready" /\ uplink'[i].h = k
    BY Zenon, <1>t, <2>1 DEF ReadyFor
  <2>2. CASE \E e \in Epochs : \E i \in 1..Len(reader'[e]) :
               reader'[e][i].ch = "ready" /\ reader'[e][i].val.h = k /\ ~reader'[e][i].val.error
    <3>1. PICK e \in Epochs : \E i \in 1..Len(reader'[e]) :
               reader'[e][i].ch = "ready" /\ reader'[e][i].val.h = k /\ ~reader'[e][i].val.error
      BY Zenon, <2>2
    <3>2. CASE reader'[e] = reader[e]
      BY Zenon, <3>1, <3>2 DEF ReadyFor
    <3>3. CASE reader'[e] = Sends(a)
      <4>1. a.h = k /\ a.type = "ready"
        BY Zenon, <1>s, <3>1, <3>3
      <4> QED
        BY Zenon, <1>t, <4>1 DEF ReadyFor
    <3> QED
      BY Zenon, <1>r, <3>2, <3>3
  <2>3. CASE \E i \in 1..Len(ready[k]) : ~ready[k][i].error
    BY Zenon, <2>3 DEF ReadyFor
  <2> QED
    BY Zenon, <1>2, <1>q, <2>1, <2>2, <2>3 DEF ReadyFor
<1>3. ASSUME NEW k \in Puts, CompleteFor(k)' PROVE CompleteFor(k)
  <2>1. CASE \E i \in 1..Len(uplink') : uplink'[i].type = "complete" /\ uplink'[i].h = k
    BY Zenon, <1>t, <2>1 DEF CompleteFor
  <2>2. CASE \E e \in Epochs : \E i \in 1..Len(reader'[e]) :
               reader'[e][i].ch = "complete" /\ reader'[e][i].val.h = k /\ ~reader'[e][i].val.error
    <3>1. PICK e \in Epochs : \E i \in 1..Len(reader'[e]) :
               reader'[e][i].ch = "complete" /\ reader'[e][i].val.h = k /\ ~reader'[e][i].val.error
      BY Zenon, <2>2
    <3>2. CASE reader'[e] = reader[e]
      BY Zenon, <3>1, <3>2 DEF CompleteFor
    <3>3. CASE reader'[e] = Sends(a)
      <4>1. a.h = k /\ a.type = "complete"
        BY Zenon, <1>s, <3>1, <3>3
      <4> QED
        BY Zenon, <1>t, <4>1 DEF CompleteFor
    <3> QED
      BY Zenon, <1>r, <3>2, <3>3
  <2>3. CASE \E i \in 1..Len(complete[k]) : ~complete[k][i].error
    BY Zenon, <2>3 DEF CompleteFor
  <2> QED
    BY Zenon, <1>3, <1>q, <2>1, <2>2, <2>3 DEF CompleteFor
<1> QED
  BY Zenon, <1>1, <1>2, <1>3, <1>q, <1>t, <1>r, AnswerKeeps

\* The reader's send goes through.
LEMMA ReaderSendsKeeps ==
  ASSUME UploadInv, NEW e \in Epochs, ReaderSends(e)
  PROVE  /\ LinkInv' /\ reader' \in [Epochs -> Seq(Deliveries)]
         /\ ready' \in [Puts -> Seq(Values)] /\ complete' \in [Puts -> Seq(Values)]
<1> DEFINE s == Head(reader[e])
<1>q. /\ reader \in [Epochs -> Seq(Deliveries)] /\ ready \in [Puts -> Seq(Values)] /\ complete \in [Puts -> Seq(Values)]
      /\ reader[e] # <<>> /\ reader' = [reader EXCEPT ![e] = Tail(@)]
      /\ \/ s.ch = "ready" /\ ready' = [ready EXCEPT ![s.val.h] = <<s.val>>] /\ complete' = complete
         \/ s.ch = "complete" /\ complete' = [complete EXCEPT ![s.val.h] = <<s.val>>] /\ ready' = ready
      /\ UNCHANGED <<pc, conn, row, epoch, up, down, uplink, handles, file, late, raced>>
  BY Zenon DEF UploadInv, LinkTypes, ReaderSends, handler, durable, link, agent
<1>t. /\ s \in Deliveries /\ s = reader[e][1] /\ 1 \in 1..Len(reader[e]) /\ Tail(reader[e]) \in Seq(Deliveries)
      /\ \A i \in 1..Len(Tail(reader[e])) : i + 1 \in 1..Len(reader[e]) /\ Tail(reader[e])[i] = reader[e][i + 1]
  <2>1. reader[e] \in Seq(Deliveries)
    BY Zenon, <1>q
  <2> QED
    BY Zenon, <1>q, <2>1, TailQueue
<1> HIDE DEF s
<1>v. s.val \in Values /\ s.val.h \in Puts
  BY Zenon, <1>t DEF Deliveries, Values
<1>r. /\ reader' \in [Epochs -> Seq(Deliveries)] /\ reader'[e] = Tail(reader[e])
      /\ \A d \in Epochs : d # e => reader'[d] = reader[d]
  BY Zenon, <1>q, <1>t
<1>c. /\ ready' \in [Puts -> Seq(Values)] /\ complete' \in [Puts -> Seq(Values)]
      /\ \A k \in Puts : ready'[k] = ready[k] \/ (k = s.val.h /\ s.ch = "ready" /\ ready'[k] = <<s.val>>)
      /\ \A k \in Puts : complete'[k] = complete[k] \/ (k = s.val.h /\ s.ch = "complete" /\ complete'[k] = <<s.val>>)
  <2>1. <<s.val>> \in Seq(Values)
    BY <1>v
  <2> QED
    BY Zenon, <1>q, <1>v, <2>1
<1>u. \A d \in Epochs : \A i \in 1..Len(reader'[d]) : \E j \in 1..Len(reader[d]) : reader'[d][i] = reader[d][j]
  BY Zenon, <1>r, <1>t
<1>1. OnItsWay'
  <2>0. OnItsWay
    BY Zenon DEF UploadInv, LinkInv
  <2>1. \A d \in Epochs : \A i \in 1..Len(reader'[d]) :
          pc[reader'[d][i].val.h] \notin Before /\ conn[reader'[d][i].val.h] = d
    <3>1. ASSUME NEW d \in Epochs, NEW i \in 1..Len(reader'[d])
          PROVE  pc[reader'[d][i].val.h] \notin Before /\ conn[reader'[d][i].val.h] = d
      <4>1. PICK j \in 1..Len(reader[d]) : reader'[d][i] = reader[d][j]
        BY Zenon, <1>u
      <4> QED
        BY <2>0, <4>1, ZenonT(60) DEF OnItsWay
    <3> QED
      BY Zenon, <3>1
  <2>2. pc[s.val.h] \notin Before
    BY Zenon, <1>t, <2>0 DEF OnItsWay
  <2>3. \A k \in Puts : pc[k] \in Before => ready'[k] = <<>> /\ complete'[k] = <<>>
    <3>1. \A k \in Puts : pc[k] \in Before => k # s.val.h /\ ready[k] = <<>> /\ complete[k] = <<>>
      BY Zenon, <2>0, <2>2 DEF OnItsWay
    <3>2. ASSUME NEW k \in Puts, pc[k] \in Before PROVE ready'[k] = <<>> /\ complete'[k] = <<>>
      <4>1. k # s.val.h /\ ready[k] = <<>> /\ complete[k] = <<>>
        BY Zenon, <3>1, <3>2
      <4>2. ready'[k] = ready[k] /\ complete'[k] = complete[k]
        BY Zenon, <1>c, <4>1
      <4> QED
        BY Zenon, <4>1, <4>2
    <3> QED
      BY Zenon, <3>2
  <2> QED
    BY Zenon, <1>q, <2>0, <2>1, <2>3 DEF OnItsWay
<1>w. \A i \in 1..Len(<<s.val>>) : <<s.val>>[i] = s.val
  OBVIOUS
<1>2. ASSUME NEW k \in Puts, ReadyFor(k)' PROVE ReadyFor(k)
  <2>2. CASE \E d \in Epochs : \E i \in 1..Len(reader'[d]) :
               reader'[d][i].ch = "ready" /\ reader'[d][i].val.h = k /\ ~reader'[d][i].val.error
    BY <1>u, <2>2 DEF ReadyFor
  <2>3. CASE \E i \in 1..Len(ready'[k]) : ~ready'[k][i].error
    <3>1. CASE ready'[k] = ready[k]
      BY Zenon, <2>3, <3>1 DEF ReadyFor
    <3>2. CASE k = s.val.h /\ s.ch = "ready" /\ ready'[k] = <<s.val>>
      <4>1. ~s.val.error
        BY Zenon, <1>w, <2>3, <3>2
      <4> QED
        BY Zenon, <1>t, <3>2, <4>1 DEF ReadyFor
    <3> QED
      BY Zenon, <1>c, <3>1, <3>2
  <2> QED
    BY Zenon, <1>2, <1>q, <2>2, <2>3 DEF ReadyFor
<1>3. ASSUME NEW k \in Puts, CompleteFor(k)' PROVE CompleteFor(k)
  <2>2. CASE \E d \in Epochs : \E i \in 1..Len(reader'[d]) :
               reader'[d][i].ch = "complete" /\ reader'[d][i].val.h = k /\ ~reader'[d][i].val.error
    BY <1>u, <2>2 DEF CompleteFor
  <2>3. CASE \E i \in 1..Len(complete'[k]) : ~complete'[k][i].error
    <3>1. CASE complete'[k] = complete[k]
      BY Zenon, <2>3, <3>1 DEF CompleteFor
    <3>2. CASE k = s.val.h /\ s.ch = "complete" /\ complete'[k] = <<s.val>>
      <4>1. ~s.val.error
        BY Zenon, <1>w, <2>3, <3>2
      <4> QED
        BY Zenon, <1>t, <3>2, <4>1 DEF CompleteFor
    <3> QED
      BY Zenon, <1>c, <3>1, <3>2
  <2> QED
    BY Zenon, <1>3, <1>q, <2>2, <2>3 DEF CompleteFor
<1> QED
  BY Zenon, <1>1, <1>2, <1>3, <1>q, <1>r, <1>c, AnswerKeeps

\* A connection that is lost leaves at most the handler of its next message.
LEMMA LoseLate ==
  ASSUME UploadInv, LoseLink
  PROVE  LateState' /\ (down = <<>> => late' = late)
<1>0. /\ LateState /\ Writers /\ ChunkInv
      /\ \A i \in 1..Len(down) : down[i].h \in Puts
  BY Zenon, Queues DEF UploadInv, LinkInv
<1>1. down' = <<>> /\ ~up' /\ UNCHANGED <<handles, file, raced>>
  BY Zenon DEF LoseLink
<1>2. down = <<>> => late' = late
  BY Zenon DEF LoseLink
<1>3. CASE raced
  BY Zenon, <1>1, <1>2, <1>3 DEF LateState
<1>4. CASE ~raced
  <2>1. \A i \in 1..Len(down') : down'[i].type = "open"
    BY Zenon, <1>1, EmptyQueue
  <2>2. \A h \in Puts : ~Writing(h)'
    BY Zenon, <1>1 DEF Writing, Connected
  <2>3. ASSUME NEW w \in late', w.msg.type # "open" PROVE AtEnd(w.msg.h)
    BY Zenon, <1>0, <1>4, <2>3, LostLink DEF LateState, Writers
  <2>4. ASSUME NEW v \in late', NEW w \in late', v.msg.type # "open", w.msg.type # "open" PROVE v = w
    <3>1. CASE v \in late /\ w \in late
      BY Zenon, <1>0, <1>4, <2>4, <3>1 DEF LateState
    <3>2. CASE late # {} /\ ~(v \in late /\ w \in late)
      BY Zenon, <1>0, <1>4, <2>4, <3>2, LostLink DEF LateState
    <3>3. CASE late = {}
      BY Zenon, <1>0, <3>3, LostLink
    <3> QED
      BY Zenon, <3>1, <3>2, <3>3
  <2>5. ASSUME NEW w \in late', w.measured PROVE w.msg.off <= Len(file)
    BY Zenon, <1>0, <1>4, <2>5, LostLink DEF LateState
  <2> QED
    BY Zenon, <1>1, <1>2, <2>1, <2>2, <2>3, <2>4, <2>5 DEF LateState, AtEnd
<1> QED
  BY Zenon, <1>3, <1>4

\* The socket is lost, is there again, or the cloud starts again.
LEMMA LinkKeeps ==
  ASSUME UploadInv, LinkBreaks \/ AgentReconnects \/ CloudRestarts
  PROVE  LinkInv'
<1>q. /\ pc \in [Puts -> Stages] /\ conn \in [Puts -> Nat] /\ epoch \in Nat
      /\ \A i \in 1..Len(down) : down[i].h \in Puts /\ pc[down[i].h] \notin Before
      /\ OnItsWay /\ InOrder /\ Writers /\ Results /\ LateState /\ Prefixed
  BY Zenon, Queues DEF UploadInv, LinkInv
<1>e. Len(<<>>) = 0 /\ 1..0 = {}
  OBVIOUS
<1>1. ASSUME LinkBreaks PROVE LinkInv'
  <2>1. /\ ~up' /\ down' = <<>> /\ uplink' = <<>>
        /\ UNCHANGED <<pc, conn, row, epoch, reader, ready, complete, handles, file, raced>>
    BY Zenon, <1>1 DEF LinkBreaks, LoseLink, handler, durable, channels
  <2>l. LateState' /\ (down = <<>> => late' = late)
    BY Zenon, <1>1, LoseLate DEF LinkBreaks
  <2>2. OnItsWay'
    BY Zenon, <1>q, <1>e, <2>1 DEF OnItsWay
  <2>3. InOrder'
    BY Zenon, <1>e, <2>1 DEF InOrder
  <2>4. Writers'
    BY Zenon, <1>e, <2>1 DEF Writers, AtEnd, Writing, Connected
  <2>5. \A k \in Puts : CompleteFor(k)' => CompleteFor(k)
    BY Zenon, <1>e, <2>1 DEF CompleteFor
  <2>6. Results'
    BY Zenon, <1>q, <2>1, <2>l, <2>5 DEF Results, Whole
  <2> QED
    BY Zenon, <1>q, <2>1, <2>2, <2>3, <2>4, <2>6, <2>l DEF LinkInv, Prefixed, FileIsPrefix
<1>2. ASSUME AgentReconnects PROVE LinkInv'
  <2>1. /\ down = <<>> /\ uplink = <<>> /\ epoch' = epoch + 1
        /\ UNCHANGED <<pc, conn, row, down, uplink, reader, ready, complete, handles, file, late, raced>>
    BY Zenon, <1>2, <1>q DEF AgentReconnects, handler, durable, channels, agent, OnItsWay
  <2>c. \A k \in Puts : conn[k] <= epoch /\ conn[k] <= epoch' /\ conn[k] # epoch'
    BY <1>q, <2>1 DEF OnItsWay
  <2>l. LateState'
    <3>1. \A k \in Puts : ~Writing(k)'
      BY Zenon, <2>1, <2>c DEF Writing, Connected
    <3> QED
      BY Zenon, <2>1, <3>1, <1>q, LateQuiet
  <2>2. OnItsWay'
    BY Zenon, <1>q, <1>e, <2>1, <2>c DEF OnItsWay
  <2>3. InOrder'
    BY Zenon, <1>e, <2>1 DEF InOrder
  <2>4. Writers'
    BY Zenon, <1>e, <2>1, <2>c DEF Writers, AtEnd, Writing, Connected
  <2>5. \A k \in Puts : CompleteFor(k)' => CompleteFor(k)
    BY Zenon, <2>1 DEF CompleteFor
  <2>6. Results'
    BY Zenon, <1>q, <2>1, <2>5 DEF Results, Whole
  <2> QED
    BY Zenon, <1>q, <2>1, <2>2, <2>3, <2>4, <2>6, <2>l DEF LinkInv, Prefixed, FileIsPrefix
<1>3. ASSUME CloudRestarts PROVE LinkInv'
  <2>1. /\ ~up' /\ down' = <<>> /\ uplink' = <<>> /\ reader' = [e \in Epochs |-> <<>>]
        /\ ready' = [k \in Puts |-> <<>>] /\ complete' = [k \in Puts |-> <<>>]
        /\ pc' = [k \in Puts |-> IF pc[k] = "new" THEN "new" ELSE "ended"]
        /\ UNCHANGED <<conn, row, epoch, handles, file, raced>>
    BY Zenon, <1>3 DEF CloudRestarts, LoseLink
  <2>l. LateState' /\ (down = <<>> => late' = late)
    BY Zenon, <1>3, LoseLate DEF CloudRestarts
  <2>p. \A k \in Puts : pc'[k] \in {"new", "ended"} /\ ready'[k] = <<>> /\ complete'[k] = <<>>
    BY Zenon, <2>1
  <2>r. \A e \in Epochs : reader'[e] = <<>>
    BY Zenon, <2>1
  <2>2. OnItsWay'
    BY Zenon, <1>q, <1>e, <2>1, <2>p, <2>r DEF OnItsWay
  <2>3. InOrder'
    BY Zenon, <1>e, <2>1 DEF InOrder
  <2>4. Writers'
    BY Zenon, <1>e, <2>1 DEF Writers, AtEnd, Writing, Connected
  <2>6. Results'
    BY Zenon, <1>q, <2>1, <2>l, <2>p DEF Results, Whole, AtAgent
  <2> QED
    BY Zenon, <1>q, <2>1, <2>2, <2>3, <2>4, <2>6, <2>l DEF LinkInv, Prefixed, FileIsPrefix
<1> QED
  BY Zenon, <1>1, <1>2, <1>3

\* The agent answers the request whose message it handles: ready when it has
\* opened the file at its end, complete when the handle is where the message
\* says.
LEMMA AgentReplies ==
  ASSUME UploadInv, AgentHandles
  PROVE  /\ uplink' \in Seq(Answers)
         /\ \A i \in 1..Len(uplink') :
              \/ i \in 1..Len(uplink) /\ uplink'[i] = uplink[i]
              \/ /\ uplink'[i].h = Head(down).h
                 /\ uplink'[i].type = "ready" =>
                      Head(down).type = "open" /\ handles'[Head(down).h] = Len(file')
                 /\ uplink'[i].type = "complete" =>
                      /\ Head(down).type = "complete" /\ handles[Head(down).h] # None
                      /\ handles[Head(down).h] = Head(down).off
<1> DEFINE m == Head(down)
<1>t. uplink \in Seq(Answers) /\ file \in Seq(Nat) /\ down \in Seq(Messages) /\ handles \in [Puts -> Nat \cup {None}]
  BY Zenon DEF UploadInv, ChunkInv, ChunkTypes, LinkTypes
<1>m. m \in Messages /\ m.h \in Puts /\ m.off \in Nat
  <2>1. m \in Messages
    BY Zenon, <1>t, TailQueue DEF AgentHandles
  <2> QED
    BY Zenon, <2>1 DEF Messages
<1>0. \/ m.type = "open" /\ StartUpload(TRUE, m.h, m.off)
      \/ m.type = "data" /\ WriteChunk(TRUE, m.h, m.off)
      \/ m.type = "complete" /\ FinishUpload(TRUE, m.h, m.off)
  BY Zenon DEF AgentHandles, Handle
<1> HIDE DEF m
<1>1. ASSUME NEW type \in {"ready", "complete", "error"}, NEW o \in Nat, uplink' = Reply(TRUE, type, m.h, o),
             type = "ready" => m.type = "open" /\ handles'[m.h] = Len(file'),
             type = "complete" => m.type = "complete" /\ handles[m.h] # None /\ handles[m.h] = m.off
      PROVE  /\ uplink' \in Seq(Answers)
             /\ \A i \in 1..Len(uplink') :
                  \/ i \in 1..Len(uplink) /\ uplink'[i] = uplink[i]
                  \/ /\ uplink'[i].h = m.h
                     /\ uplink'[i].type = "ready" => m.type = "open" /\ handles'[m.h] = Len(file')
                     /\ uplink'[i].type = "complete" =>
                          m.type = "complete" /\ handles[m.h] # None /\ handles[m.h] = m.off
  <2> DEFINE a == [type |-> type, h |-> m.h, off |-> o]
  <2>1. a \in Answers /\ a.h = m.h /\ a.type = type /\ uplink' = Append(uplink, a)
    BY Zenon, <1>1, <1>m DEF Answers, Reply
  <2> HIDE DEF a
  <2>2. /\ Append(uplink, a) \in Seq(Answers) /\ Append(uplink, a)[Len(uplink) + 1] = a
        /\ \A i \in 1..Len(uplink) : Append(uplink, a)[i] = uplink[i]
        /\ \A i \in 1..Len(Append(uplink, a)) : i = Len(uplink) + 1 \/ i \in 1..Len(uplink)
    BY <1>t, <2>1, AppendQueue
  <2> QED
    BY Zenon, <1>1, <2>1, <2>2
<1>2. CASE m.type = "open" /\ StartUpload(TRUE, m.h, m.off)
  <2>1. CASE m.off <= Len(file) /\ handles' = [handles EXCEPT ![m.h] = m.off] /\ file' = Opened(m.off)
             /\ uplink' = Reply(TRUE, "ready", m.h, m.off)
    <3>1. handles'[m.h] = Len(file')
      BY Zenon, <1>t, <1>m, <2>1, OpenedFile DEF Opened
    <3> QED
      BY Zenon, <1>1, <1>2, <1>m, <2>1, <3>1 DEF m
  <2>2. CASE uplink' = Reply(TRUE, "error", m.h, 0)
    BY Zenon, <1>1, <2>2 DEF m
  <2> QED
    BY Zenon, <1>2, <2>1, <2>2 DEF StartUpload
<1>3. CASE m.type = "data" /\ WriteChunk(TRUE, m.h, m.off)
  <2>1. CASE uplink' = uplink
    BY Zenon, <1>t, <2>1
  <2>2. CASE uplink' = Reply(TRUE, "error", m.h, 0)
    BY Zenon, <1>1, <2>2 DEF m
  <2> QED
    BY Zenon, <1>3, <2>1, <2>2 DEF WriteChunk
<1>4. CASE m.type = "complete" /\ FinishUpload(TRUE, m.h, m.off)
  <2>1. CASE handles[m.h] # None /\ m.off = handles[m.h] /\ uplink' = Reply(TRUE, "complete", m.h, m.off)
    BY Zenon, <1>1, <1>4, <1>m, <2>1 DEF m
  <2>2. CASE uplink' = Reply(TRUE, "error", m.h, 0)
    BY Zenon, <1>1, <2>2 DEF m
  <2> QED
    BY Zenon, <1>4, <2>1, <2>2 DEF FinishUpload
<1> QED
  BY Zenon, <1>0, <1>2, <1>3, <1>4

\* The handler of a message keeps the file a beginning of the client's when it
\* opens it, or when the handle is at its end.
LEMMA PrefixHandle ==
  ASSUME ChunkTypes, FileIsPrefix, NEW m \in Messages, NEW on, Handle(on, m),
         m.type # "open" => handles[m.h] = None \/ handles[m.h] = Len(file)
  PROVE  /\ FileIsPrefix'
         /\ m.type # "open" => /\ handles'[m.h] = None \/ handles'[m.h] = Len(file')
                               /\ Len(file) <= Len(file')
<1>t. file \in Seq(Nat) /\ handles \in [Puts -> Nat \cup {None}] /\ Len(file) \in Nat /\ Len(file) <= Len(file)
  BY DEF ChunkTypes
<1>m. m.h \in Puts /\ m.off \in Nat
  BY Zenon DEF Messages
<1>1. CASE m.type = "open" /\ StartUpload(on, m.h, m.off)
  <2>1. CASE file' = file
    BY Zenon, <1>1, <2>1 DEF FileIsPrefix
  <2>2. CASE m.off <= Len(file) /\ file' = Opened(m.off)
    BY <1>1, <1>t, <1>m, <2>2, OpenedFile DEF FileIsPrefix, Opened
  <2> QED
    BY Zenon, <1>1, <2>1, <2>2 DEF StartUpload
<1>2. CASE m.type # "open" /\ file' = file /\ (handles' = handles \/ handles' = [handles EXCEPT ![m.h] = None])
  BY Zenon, <1>t, <1>m, <1>2 DEF FileIsPrefix
<1>3. CASE /\ m.type # "open" /\ handles[m.h] # None /\ m.off = handles[m.h]
           /\ file' = WriteAt(file, m.off, m.off + 1) /\ handles' = [handles EXCEPT ![m.h] = @ + 1]
  <2>1. m.off = Len(file)
    BY Zenon, <1>3
  <2>2. /\ Len(file') = m.off + 1 /\ file'[m.off + 1] = m.off + 1
        /\ \A i \in 1..Len(file) : i # m.off + 1 => file'[i] = file[i]
    <3>1. Len(file) <= m.off /\ file' = WriteAt(file, m.off, m.off + 1)
      BY Zenon, <1>t, <1>3, <2>1
    <3> QED
      BY Zenon, <1>t, <1>m, <3>1, WrittenFile
  <2>3. /\ Len(file) <= Len(file')
        /\ \A i \in 1..Len(file') : i = m.off + 1 \/ (i \in 1..Len(file) /\ i # m.off + 1)
    BY <1>t, <2>1, <2>2
  <2>4. FileIsPrefix'
    BY Zenon, <2>2, <2>3 DEF FileIsPrefix
  <2>5. handles'[m.h] = m.off + 1
    BY Zenon, <1>t, <1>m, <1>3
  <2> QED
    BY Zenon, <2>2, <2>3, <2>4, <2>5
<1>4. CASE (m.type = "data" /\ WriteChunk(on, m.h, m.off)) \/ (m.type = "complete" /\ FinishUpload(on, m.h, m.off))
  BY Zenon, <1>2, <1>3, <1>4 DEF WriteChunk, FinishUpload
<1> QED
  BY Zenon, <1>1, <1>4 DEF Handle

\* The agent handles a message.
LEMMA AgentKeeps ==
  ASSUME UploadInv, AgentHandles
  PROVE  LinkInv'
<1> DEFINE m == Head(down)
<1>t. /\ file \in Seq(Nat) /\ down \in Seq(Messages) /\ handles \in [Puts -> Nat \cup {None}] /\ Len(file) \in Nat
      /\ pc \in [Puts -> Stages]
      /\ \A i \in 1..Len(down) : down[i] \in Messages /\ down[i].h \in Puts /\ pc[down[i].h] \notin Before
      /\ OnItsWay /\ InOrder /\ Writers /\ Results /\ LateState /\ Prefixed /\ ChunkTypes
  <2>1. file \in Seq(Nat) /\ down \in Seq(Messages) /\ handles \in [Puts -> Nat \cup {None}] /\ pc \in [Puts -> Stages]
    BY Zenon DEF UploadInv, ChunkInv, ChunkTypes
  <2>2. Len(file) \in Nat
    BY <2>1
  <2>3. \A i \in 1..Len(down) : down[i] \in Messages /\ down[i].h \in Puts /\ pc[down[i].h] \notin Before
    BY Zenon, Queues
  <2>4. OnItsWay /\ InOrder /\ Writers /\ Results /\ LateState /\ Prefixed /\ ChunkTypes
    BY Zenon DEF UploadInv, LinkInv, ChunkInv
  <2> QED
    BY Zenon, <2>1, <2>2, <2>3, <2>4
<1>d. /\ down # <<>> /\ m = down[1] /\ 1 \in 1..Len(down) /\ down' \in Seq(Messages) /\ Len(down') = Len(down) - 1
      /\ \A i \in 1..Len(down') : i + 1 \in 1..Len(down) /\ down'[i] = down[i + 1]
      /\ Len(down) \in Nat /\ Len(down') \in Nat
  BY <1>t, TailQueue DEF AgentHandles
<1>m. m \in Messages /\ m.h \in Puts /\ m.off \in Nat /\ pc[m.h] \notin Before /\ conn[m.h] = epoch
      /\ m.type \in {"open", "data", "complete"}
  BY <1>t, <1>d DEF Messages, OnItsWay
<1>u. /\ up /\ UNCHANGED <<pc, conn, row, epoch, up, reader, ready, complete>>
  BY Zenon DEF AgentHandles, handler, durable, channels
<1>r. \A i \in 1..Len(uplink') :
        \/ i \in 1..Len(uplink) /\ uplink'[i] = uplink[i]
        \/ /\ uplink'[i].h = m.h
           /\ uplink'[i].type = "ready" => m.type = "open" /\ handles'[m.h] = Len(file')
           /\ uplink'[i].type = "complete" =>
                m.type = "complete" /\ handles[m.h] # None /\ handles[m.h] = m.off
  BY Zenon, AgentReplies
<1>0. \/ m.type = "open" /\ StartUpload(TRUE, m.h, m.off)
      \/ m.type = "data" /\ WriteChunk(TRUE, m.h, m.off)
      \/ m.type = "complete" /\ FinishUpload(TRUE, m.h, m.off)
  BY Zenon DEF AgentHandles, Handle
<1>z. /\ Handle(TRUE, m) /\ late' = late
      /\ raced => raced'
      /\ m.type = "open" /\ late # {} => raced'
  BY Zenon DEF AgentHandles
<1> HIDE DEF m
<1>1. OnItsWay'
  <2>1. \A i \in 1..Len(down') : conn[down'[i].h] = epoch
    <3>1. \A i \in 1..Len(down) : conn[down[i].h] = epoch
      BY Zenon, <1>t DEF OnItsWay
    <3> QED
      BY Zenon, <1>d, <3>1
  <2>2. \A i \in 1..Len(uplink') : pc[uplink'[i].h] \notin Before /\ conn[uplink'[i].h] = epoch
    <3>1. \A i \in 1..Len(uplink) : pc[uplink[i].h] \notin Before /\ conn[uplink[i].h] = epoch
      BY Zenon, <1>t DEF OnItsWay
    <3>2. ASSUME NEW i \in 1..Len(uplink') PROVE pc[uplink'[i].h] \notin Before /\ conn[uplink'[i].h] = epoch
      <4>1. (i \in 1..Len(uplink) /\ uplink'[i] = uplink[i]) \/ uplink'[i].h = m.h
        BY Zenon, <1>r
      <4> QED
        BY Zenon, <1>m, <3>1, <4>1
    <3> QED
      BY Zenon, <3>2
  <2> QED
    BY Zenon, <1>t, <1>u, <2>1, <2>2 DEF OnItsWay
<1>2. InOrder'
  <2>1. \A i, j \in 1..Len(down') : i < j /\ down'[j].type # "open" => down'[i].type # "open"
    <3>1. \A i, j \in 1..Len(down') : i < j => i + 1 < j + 1
      BY <1>d
    <3>2. \A i, j \in 1..Len(down) : i < j /\ down[j].type # "open" => down[i].type # "open"
      BY Zenon, <1>t DEF InOrder
    <3> QED
      BY Zenon, <1>d, <3>1, <3>2
  <2>2. \A i, j \in 1..Len(down') :
          down'[i].type # "open" /\ down'[j].type # "open" => down'[i].h = down'[j].h
    <3>1. \A i, j \in 1..Len(down) : down[i].type # "open" /\ down[j].type # "open" => down[i].h = down[j].h
      BY Zenon, <1>t DEF InOrder
    <3>2. ASSUME NEW i \in 1..Len(down'), NEW j \in 1..Len(down'), down'[i].type # "open", down'[j].type # "open"
          PROVE  down'[i].h = down'[j].h
      <4>1. i + 1 \in 1..Len(down) /\ j + 1 \in 1..Len(down) /\ down'[i] = down[i + 1] /\ down'[j] = down[j + 1]
        BY Zenon, <1>d
      <4> QED
        BY Zenon, <3>1, <3>2, <4>1
    <3> QED
      BY Zenon, <3>2
  <2>3. \A i \in 1..Len(down') : down'[i].type # "data" /\ pc[down'[i].h] \in Live => i = Len(down')
    <3>1. \A i \in 1..Len(down') : i + 1 = Len(down) => i = Len(down')
      BY <1>d
    <3>2. \A i \in 1..Len(down) : down[i].type # "data" /\ pc[down[i].h] \in Live => i = Len(down)
      BY Zenon, <1>t DEF InOrder
    <3> QED
      BY Zenon, <1>d, <3>1, <3>2
  <2>4. \A i \in 1..Len(down') : down'[i].type = "complete" =>
          pc[down'[i].h] \notin {"waitReady", "sending"} /\ down'[i].off = Size
    <3>1. \A i \in 1..Len(down) : down[i].type = "complete" =>
            pc[down[i].h] \notin {"waitReady", "sending"} /\ down[i].off = Size
      BY Zenon, <1>t DEF InOrder
    <3> QED
      BY Zenon, <1>d, <3>1
  <2> QED
    BY Zenon, <1>u, <2>1, <2>2, <2>3, <2>4 DEF InOrder
<1>3. ASSUME NEW k \in Puts, ReadyFor(k)'
      PROVE  ReadyFor(k) \/ (k = m.h /\ m.type = "open" /\ handles'[k] = Len(file'))
  <2>1. CASE \E i \in 1..Len(uplink') : uplink'[i].type = "ready" /\ uplink'[i].h = k
    <3>1. PICK i \in 1..Len(uplink') : uplink'[i].type = "ready" /\ uplink'[i].h = k
      BY Zenon, <2>1
    <3>2. CASE i \in 1..Len(uplink) /\ uplink'[i] = uplink[i]
      BY Zenon, <3>1, <3>2 DEF ReadyFor
    <3> QED
      BY Zenon, <1>r, <3>1, <3>2
  <2> QED
    BY Zenon, <1>3, <1>u, <2>1 DEF ReadyFor
<1>4. ASSUME NEW k \in Puts, CompleteFor(k)'
      PROVE  CompleteFor(k) \/ (k = m.h /\ m.type = "complete" /\ handles[k] # None /\ handles[k] = m.off)
  <2>1. CASE \E i \in 1..Len(uplink') : uplink'[i].type = "complete" /\ uplink'[i].h = k
    <3>1. PICK i \in 1..Len(uplink') : uplink'[i].type = "complete" /\ uplink'[i].h = k
      BY Zenon, <2>1
    <3>2. CASE i \in 1..Len(uplink) /\ uplink'[i] = uplink[i]
      BY Zenon, <3>1, <3>2 DEF CompleteFor
    <3> QED
      BY Zenon, <1>r, <3>1, <3>2
  <2> QED
    BY Zenon, <1>4, <1>u, <2>1 DEF CompleteFor
<1>5. Results'
  <2>1. /\ row.status # "completed"
        /\ \A k \in Puts : pc[k] # "finishing" /\ (pc[k] = "waitComplete" => ~CompleteFor(k))
    BY Zenon, <1>t, <1>d DEF Results, Whole
  <2>2. \A k \in Puts : CompleteFor(k)' => pc[k] \notin {"waitReady", "sending"}
    BY Zenon, <1>t, <1>d, <1>4 DEF Results, Whole, InOrder
  <2>3. ASSUME NEW k \in Puts, pc[k] = "waitComplete", CompleteFor(k)'
        PROVE  down' = <<>> /\ Whole'
    <3>1. k = m.h /\ m.type = "complete" /\ handles[k] # None /\ handles[k] = m.off
      BY Zenon, <1>4, <2>1, <2>3
    <3>2. m.off = Size /\ Len(down) = 1
      BY Zenon, <1>t, <1>d, <2>3, <3>1 DEF InOrder, Live
    <3>3. raced \/ (handles[k] = Len(file) /\ late = {})
      <4>1. raced \/ handles[k] = Len(file)
        BY Zenon, <1>t, <1>d, <3>1 DEF Writers, AtEnd
      <4>2. Writing(k)
        BY Zenon, <1>m, <1>u, <2>3, <3>1 DEF Writing, Connected
      <4> QED
        BY Zenon, <1>t, <4>1, <4>2 DEF LateState
    <3>4. file' = file
      BY Zenon, <1>0, <3>1 DEF FinishUpload
    <3>5. down' = <<>>
      BY <1>d, <3>2
    <3> QED
      BY Zenon, <1>z, <3>1, <3>2, <3>3, <3>4, <3>5 DEF Whole
  <2> QED
    BY Zenon, <1>u, <2>1, <2>2, <2>3 DEF Results, Whole
<1>6. ASSUME m.type = "open" PROVE Writers' /\ Prefixed' /\ LateState'
  <2>1. \A i \in 1..Len(down) : down[i].type = "open"
    <3>1. \A i \in 1..Len(down) : i = 1 \/ 1 < i
      BY <1>d
    <3> QED
      BY Zenon, <1>t, <1>d, <1>6, <3>1 DEF InOrder
  <2>2. \A k \in Puts : ~Writing(k)
    BY Zenon, <1>t, <1>d, <1>6 DEF Writers
  <2>3. ASSUME NEW k \in Puts, Writing(k)'
        PROVE  k = m.h /\ pc[k] = "waitReady" /\ handles'[k] = Len(file')
    BY Zenon, <1>3, <1>u, <2>2, <2>3 DEF Writing, Connected
  <2>4. pc[m.h] = "waitReady" => Len(down') = 0
    BY <1>t, <1>d, <1>6 DEF InOrder, Live
  <2>5. \A i \in 1..Len(down') : down'[i].type = "open"
    BY Zenon, <1>d, <2>1
  <2>6. Writers'
    <3>1. \A k \in Puts : Writing(k)' => 1..Len(down') = {}
      BY <2>3, <2>4
    <3> QED
      BY Zenon, <2>3, <2>5, <3>1 DEF Writers, AtEnd
  <2>7. Prefixed'
    BY Zenon, <1>t, <1>m, <1>z, <1>6, PrefixHandle DEF Prefixed
  <2>8. LateState'
    BY Zenon, <1>z, <1>6 DEF LateState
  <2> QED
    BY Zenon, <2>6, <2>7, <2>8
<1>7. ASSUME m.type # "open" PROVE Writers' /\ Prefixed' /\ LateState'
  <2>1. AtEnd(m.h)
    BY Zenon, <1>t, <1>d, <1>7 DEF Writers
  <2>2. \A i \in 1..Len(down') : down'[i].type # "open" => down'[i].h = m.h
    <3>1. \A i \in 1..Len(down) : down[i].type # "open" => down[i].h = down[1].h
      BY Zenon, <1>t, <1>d, <1>7 DEF InOrder
    <3> QED
      BY Zenon, <1>d, <3>1
  <2>3. \A k \in Puts : Writing(k)' => Writing(k)
    BY Zenon, <1>3, <1>u, <1>7 DEF Writing, Connected
  <2>4. \A k \in Puts : Writing(k)' => k = m.h /\ \A i \in 1..Len(down') : down'[i].type # "open" /\ down'[i].h = k
    <3>1. ASSUME NEW k \in Puts, Writing(k)' PROVE \A i \in 1..Len(down) : down[i].type # "open" /\ down[i].h = k
      BY Zenon, <1>t, <2>3, <3>1 DEF Writers
    <3>2. ASSUME NEW k \in Puts, Writing(k)' PROVE k = m.h
      BY Zenon, <1>d, <3>1, <3>2
    <3>3. ASSUME NEW k \in Puts, Writing(k)', NEW i \in 1..Len(down')
          PROVE  down'[i].type # "open" /\ down'[i].h = k
      <4>1. i + 1 \in 1..Len(down) /\ down'[i] = down[i + 1]
        BY Zenon, <1>d, <3>3
      <4>2. down[i + 1].type # "open" /\ down[i + 1].h = k
        BY Zenon, <3>1, <3>3, <4>1
      <4> QED
        BY <4>1, <4>2
    <3> QED
      BY Zenon, <3>2, <3>3
  <2>5. (raced' \/ handles'[m.h] = None \/ handles'[m.h] = Len(file')) /\ Prefixed'
    BY Zenon, <1>t, <1>m, <1>z, <1>7, <2>1, PrefixHandle DEF Prefixed, AtEnd
  <2>6. raced \/ late = {}
    BY Zenon, <1>t, <1>d, <1>7 DEF LateState
  <2>7. LateState'
    BY Zenon, <1>z, <2>6 DEF LateState
  <2> QED
    BY Zenon, <2>2, <2>4, <2>5, <2>7 DEF Writers, AtEnd
<1> QED
  BY Zenon, <1>1, <1>2, <1>5, <1>6, <1>7 DEF LinkInv

\* The handler of a lost connection goes on: nothing else writes.
LEMMA LateKeeps ==
  ASSUME UploadInv, NEW w \in late, LateHandler(w)
  PROVE  LinkInv' /\ uplink' = uplink
<1>t. /\ OnItsWay /\ InOrder /\ Writers /\ Results /\ LateState /\ Prefixed
      /\ ChunkInv /\ ChunkTypes /\ file \in Seq(Nat)
  BY Zenon DEF UploadInv, LinkInv, ChunkInv, ChunkTypes
<1>m. w.msg \in Messages /\ w.msg.h \in Puts /\ w.msg.off \in Nat
  BY Zenon, <1>t, LateOf
<1>u. uplink' = uplink
  <2>1. CASE Handle(FALSE, w.msg)
    BY Zenon, <2>1 DEF Handle, StartUpload, WriteChunk, FinishUpload, Reply
  <2> QED
    BY Zenon, <2>1 DEF LateHandler
<1>v. UNCHANGED <<pc, conn, row, epoch, up, down, uplink, reader, ready, complete>>
  BY Zenon, <1>u DEF LateHandler, handler, durable, channels
<1>z. /\ late' = late \ {w}
      /\ raced => raced'
      /\ w.msg.type = "open" /\ late' # {} => raced'
  BY Zenon DEF LateHandler
<1>1. OnItsWay' /\ InOrder'
  <2>1. OnItsWay'
    BY Zenon, <1>t, <1>v DEF OnItsWay
  <2>2. InOrder'
    BY Zenon, <1>t, <1>v DEF InOrder
  <2> QED
    BY Zenon, <2>1, <2>2
<1>2. \A k \in Puts : /\ Writing(k)' = Writing(k) /\ CompleteFor(k)' = CompleteFor(k)
  BY ZenonT(60), <1>v DEF Writing, Connected, ReadyFor, CompleteFor
<1>3. CASE raced
  <2>1. raced'
    BY Zenon, <1>z, <1>3
  <2>2. Writers'
    BY Zenon, <1>t, <1>v, <1>2, <2>1 DEF Writers, AtEnd
  <2>3. Results'
    BY Zenon, <1>t, <1>v, <1>2, <2>1 DEF Results, Whole
  <2> QED
    BY Zenon, <1>1, <1>u, <2>1, <2>2, <2>3 DEF LinkInv, LateState, Prefixed
<1>4. CASE ~raced
  <2>1. /\ \A i \in 1..Len(down) : down[i].type = "open"
        /\ \A h \in Puts : ~Writing(h)
        /\ w.msg.type # "open" => handles[w.msg.h] = None \/ handles[w.msg.h] = Len(file)
        /\ \A v \in late : w.msg.type # "open" /\ v.msg.type # "open" => v = w
        /\ \A v \in late : v.measured => v.msg.off <= Len(file)
    BY Zenon, <1>t, <1>4 DEF LateState, AtEnd
  <2>2. Writers'
    BY Zenon, <1>v, <1>2, <2>1 DEF Writers
  <2>3. ~Whole
    BY Zenon, <1>4 DEF Whole
  <2>4. Results'
    BY Zenon, <1>t, <1>v, <1>2, <2>3 DEF Results
  <2>5. FileIsPrefix' /\ (w.msg.type # "open" => Len(file) <= Len(file'))
    <3>0. FileIsPrefix
      BY Zenon, <1>t, <1>4 DEF Prefixed
    <3>1. CASE Handle(FALSE, w.msg)
      BY Zenon, <1>t, <1>m, <2>1, <3>0, <3>1, PrefixHandle
    <3>2. CASE w.measured /\ file' = Truncate(file, w.msg.off)
      <4>1. w.msg.off <= Len(file) /\ file' = Truncate(file, w.msg.off)
        BY Zenon, <2>1, <3>2
      <4>2. Len(file') = w.msg.off /\ \A i \in 1..w.msg.off : i \in 1..Len(file) /\ file'[i] = file[i]
        BY Zenon, <1>t, <1>m, <4>1, CutFile
      <4>3. w.msg.type = "open"
        BY Zenon, <1>t, <3>2 DEF ChunkInv, LateWithin
      <4> QED
        BY Zenon, <3>0, <4>2, <4>3 DEF FileIsPrefix
    <3> QED
      BY Zenon, <3>1, <3>2 DEF LateHandler
  <2>6. LateState'
    <3>1. CASE w.msg.type = "open"
      BY Zenon, <1>z, <3>1 DEF LateState
    <3>2. CASE w.msg.type # "open"
      <4>1. \A v \in late' : v \in late /\ v.msg.type = "open"
        BY Zenon, <1>z, <2>1, <3>2
      <4>2. ASSUME NEW v \in late', v.measured PROVE v.msg.off <= Len(file')
        <5>1. v.msg.off <= Len(file) /\ v.msg.off \in Nat
          BY Zenon, <1>t, <2>1, <4>1, <4>2, LateOf
        <5>2. file' \in Seq(Nat)
          BY Zenon, <1>t, LateStep
        <5> QED
          BY <1>t, <2>5, <3>2, <5>1, <5>2
      <4> QED
        BY Zenon, <1>v, <1>2, <2>1, <4>1, <4>2 DEF LateState
    <3> QED
      BY Zenon, <3>1, <3>2
  <2> QED
    BY Zenon, <1>1, <1>u, <2>2, <2>4, <2>5, <2>6 DEF LinkInv, Prefixed
<1> QED
  BY Zenon, <1>3, <1>4

\* What a step leaves in the session object, the row and the request's own
\* copies.
LEMMA SessionMethods ==
  ASSUME NEW s \in Session, NEW a \in Nat, NEW b \in Nat
  PROVE  /\ BeginAttempt(s) \in Session /\ BeginAttempt(s).active
         /\ EndAttempt(s) \in Session
         /\ MarkReady(s, "upload", a, b) \in Session /\ MarkReady(s, "upload", a, b).active = s.active
         /\ Advance(s, a, b) \in Session /\ Advance(s, a, b).active = s.active
         /\ Complete(s, a, b) \in Session /\ Complete(s, a, b).active = s.active
<1>1. BeginAttempt(s) \in Session /\ BeginAttempt(s).active
  BY Zenon DEF BeginAttempt, Session
<1>2. EndAttempt(s) \in Session
  BY Zenon DEF EndAttempt, Session
<1>3. MarkReady(s, "upload", a, b) \in Session /\ MarkReady(s, "upload", a, b).active = s.active
  BY Zenon DEF MarkReady, Session
<1>4. Advance(s, a, b) \in Session /\ Advance(s, a, b).active = s.active
  BY Zenon DEF Advance, Session
<1>5. Complete(s, a, b) \in Session /\ Complete(s, a, b).active = s.active
  BY Zenon DEF Complete, Session
<1> QED
  BY Zenon, <1>1, <1>2, <1>3, <1>4, <1>5

LEMMA PersistedRow ==
  ASSUME NEW s \in Session, NEW status \in {"active", "failed", "completed"}
  PROVE  Persisted(s, status) \in Row /\ Persisted(s, status).status = status
  BY Zenon DEF Persisted, Session, Row

LEMMA RestoredFrom ==
  ASSUME NEW r \in Row
  PROVE  RestoredSession(r) \in Session
  BY Zenon DEF RestoredSession, Session, Row

LEMMA FirstObject ==
  ASSUME objects \in Seq(Session), Len(objects) = 1
  PROVE  objects[1] \in Session
  OBVIOUS

\* One session object, changed in place.
LEMMA OneObject ==
  ASSUME objects \in Seq(Session), Len(objects) = 1, NEW s \in Session, objects' = [objects EXCEPT ![1] = s]
  PROVE  objects' \in Seq(Session) /\ Len(objects') = 1 /\ objects'[1] = s /\ objects[1] \in Session
  OBVIOUS

\* A handler of the attempt that runs, begins or ends changes the session
\* object in place.
LEMMA SessionChanges ==
  ASSUME UploadInv, NEW h \in Puts, NEW to \in Stages, pc' = [pc EXCEPT ![h] = to], to # "authorized",
         pc[h] \in Live \/ (pc[h] = "authorized" /\ ~objects[1].active),
         NEW s \in Session, objects' = [objects EXCEPT ![1] = s], to \in Live => s.active,
         UNCHANGED <<sess, mapped>>
  PROVE  SessionState'
<1>0. /\ objects \in Seq(Session) /\ mapped \in Nat /\ Len(objects) = 1 /\ sess[h] = 1 /\ pc \in [Puts -> Stages]
      /\ SessionState
  BY Zenon DEF UploadInv, SessionState, ChunkInv, ChunkTypes
<1>1. objects' \in Seq(Session) /\ Len(objects') = 1 /\ objects'[1] = s
  BY Zenon, <1>0, OneObject
<1>p. pc'[h] = to /\ \A k \in Puts : k # h => pc'[k] = pc[k]
  BY Zenon, <1>0
<1>2. \A k \in Puts : pc'[k] \in Live \cup {"authorized"} => sess[k] = 1
  BY Zenon, <1>p, <1>0 DEF SessionState
<1>3. \A k \in Puts : k # h => pc'[k] \notin Live
  <2>1. CASE pc[h] \in Live
    BY Zenon, <1>p, <2>1, Alone
  <2>2. CASE ~objects[1].active
    BY Zenon, <1>0, <1>p, <2>2 DEF SessionState
  <2> QED
    BY Zenon, <2>1, <2>2
<1> QED
  BY Zenon, <1>0, <1>1, <1>p, <1>2, <1>3 DEF SessionState, OneAttempt

\* Other steps of a handler leave it alone.
LEMMA SessionStays ==
  ASSUME UploadInv, NEW h \in Puts, NEW to \in Stages, pc' = [pc EXCEPT ![h] = to], to # "authorized",
         to \in Live => pc[h] \in Live, UNCHANGED <<objects, sess>>, mapped' \in {mapped, 0}
  PROVE  SessionState'
<1>0. pc \in [Puts -> Stages] /\ SessionState
  BY Zenon DEF UploadInv, ChunkInv, ChunkTypes
<1>p. pc'[h] = to /\ \A k \in Puts : k # h => pc'[k] = pc[k]
  BY Zenon, <1>0
<1>1. \A k \in Puts : (pc'[k] \in Live => pc[k] \in Live) /\ (pc'[k] = "authorized" => pc[k] = "authorized")
  BY Zenon, <1>p
<1> QED
  BY <1>0, <1>1 DEF SessionState, OneAttempt

\* What a handler reads of the agent's answers.
LEMMA ValueOf ==
  ASSUME NEW q \in Seq(Values), q # <<>>
  PROVE  Head(q).off \in Nat /\ Tail(q) \in Seq(Values)
<1>1. Head(q) \in Values /\ Tail(q) \in Seq(Values)
  BY Zenon, TailQueue
<1> QED
  BY Zenon, <1>1 DEF Values

\* The choice of the offset and the limit decides where the request goes on.
LEMMA OffsetStep ==
  ASSUME NEW h \in Puts, NEW s \in Session, Offset(h, s)
  PROVE  \/ pc' = [pc EXCEPT ![h] = "ended"] /\ row' \in Row /\ row'.status = "failed"
         \/ pc' = [pc EXCEPT ![h] = "authorized"] /\ row' = row
<1>1. \/ pc' = [pc EXCEPT ![h] = "ended"] /\ row' = Persisted(s, "failed")
      \/ pc' = [pc EXCEPT ![h] = "authorized"] /\ row' = row
  BY Zenon DEF Offset, Persist
<1> QED
  BY Zenon, <1>1, PersistedRow

\* A request finds the session, or reads its row and restores it; under
\* OneRestore there is no other.
LEMMA AuthorizeKeeps ==
  ASSUME UploadInv, NEW h \in Puts, Authorize(h) \/ Missed(h) \/ ReadRow(h) \/ Restore(h), OneRestore'
  PROVE  SessionState' /\ HandlerTypes' /\ LinkTypes' /\ LinkInv'
<1>0. /\ pc \in [Puts -> Stages] /\ SessionState /\ HandlerTypes /\ LinkTypes /\ objects \in Seq(Session) /\ mapped \in Nat
      /\ sess \in [Puts -> Nat] /\ rec \in [Puts -> Row] /\ row \in Row
  BY Zenon DEF UploadInv, ChunkInv, ChunkTypes, SessionState, HandlerTypes
<1>l. UNCHANGED <<conn, epoch, up, down, uplink, reader, ready, complete, handles, file, late, raced>>
  BY Zenon DEF Authorize, Missed, ReadRow, Restore, link, channels, agent
<1>t. LinkTypes'
  BY Zenon, <1>0, <1>l DEF LinkTypes
<1>q. ASSUME NEW to \in {"ended", "authorized", "missed", "restoring"}, pc' = [pc EXCEPT ![h] = to],
             row'.status = "completed" => row.status = "completed"
      PROVE  LinkInv'
  <2>1. pc[h] \in {"new", "missed", "restoring"}
    BY Zenon DEF Authorize, Missed, ReadRow, Restore, Goto
  <2>2. to \in Stages /\ to \notin AtAgent \cup {"finishing"} /\ to # "persisted" /\ pc[h] \in Before
    BY Zenon, <2>1 DEF Stages, Before, AtAgent
  <2> QED
    BY Zenon, <1>l, <1>q, <2>2, QuietKeeps
<1>1. ASSUME Authorize(h) PROVE SessionState' /\ HandlerTypes' /\ LinkInv'
  <2>1. /\ mapped # 0 /\ sess' = [sess EXCEPT ![h] = mapped] /\ Offset(h, objects[mapped])
        /\ UNCHANGED <<rec, conn, mapped, objects>>
    BY Zenon, <1>1 DEF Authorize, registry
  <2>2. mapped = 1 /\ Len(objects) = 1 /\ objects[1] \in Session
    <3>1. mapped = 1 /\ Len(objects) = 1
      BY Zenon, <1>0, <2>1 DEF SessionState
    <3> QED
      BY Zenon, <1>0, <3>1, FirstObject
  <2>3. \/ pc' = [pc EXCEPT ![h] = "ended"] /\ row' \in Row /\ row'.status = "failed"
        \/ pc' = [pc EXCEPT ![h] = "authorized"] /\ row' = row
    BY Zenon, <2>1, <2>2, OffsetStep
  <2>4. LinkInv'
    BY Zenon, <1>q, <2>3
  <2>5. HandlerTypes'
    BY Zenon, <1>0, <2>1, <2>3 DEF HandlerTypes
  <2>6. \A k \in Puts : (k # h => pc'[k] = pc[k] /\ sess'[k] = sess[k]) /\ pc'[h] \in {"ended", "authorized"} /\ sess'[h] = 1
    BY Zenon, <1>0, <2>1, <2>2, <2>3
  <2>7. \A k \in Puts : pc'[k] \in Live => pc[k] \in Live
    BY Zenon, <2>6 DEF Live
  <2>8. \A k \in Puts : pc'[k] \in Live \cup {"authorized"} => sess'[k] = 1
    BY Zenon, <1>0, <2>6 DEF SessionState
  <2> QED
    BY Zenon, <1>0, <2>1, <2>2, <2>4, <2>5, <2>7, <2>8 DEF SessionState, OneAttempt
<1>2. ASSUME Missed(h) \/ ReadRow(h) PROVE SessionState' /\ HandlerTypes' /\ LinkInv'
  <2>1. PICK to \in {"missed", "ended", "restoring"} : pc' = [pc EXCEPT ![h] = to]
    BY Zenon, <1>2 DEF Missed, ReadRow, Goto
  <2>2. /\ UNCHANGED <<objects, sess, conn, row>> /\ mapped' \in {mapped, 0}
        /\ rec' = rec \/ rec' = [rec EXCEPT ![h] = row]
    BY Zenon, <1>2 DEF Missed, ReadRow, registry, durable
  <2>3. to \in Stages /\ to \notin Live /\ to # "authorized"
    BY Zenon DEF Stages, Before, Live
  <2>4. HandlerTypes'
    BY Zenon, <1>0, <2>2 DEF HandlerTypes
  <2> QED
    BY Zenon, <1>q, <2>1, <2>2, <2>3, <2>4, SessionStays
<1>3. ASSUME Restore(h) PROVE SessionState' /\ HandlerTypes' /\ LinkInv'
  <2>1. /\ objects' = Append(objects, RestoredSession(rec[h])) /\ mapped' = Len(objects) + 1
        /\ sess' = [sess EXCEPT ![h] = Len(objects) + 1] /\ Offset(h, RestoredSession(rec[h]))
        /\ UNCHANGED <<rec, conn>>
    BY Zenon, <1>3 DEF Restore
  <2>2. RestoredSession(rec[h]) \in Session
    BY Zenon, <1>0, RestoredFrom
  <2>3. \/ pc' = [pc EXCEPT ![h] = "ended"] /\ row' \in Row /\ row'.status = "failed"
        \/ pc' = [pc EXCEPT ![h] = "authorized"] /\ row' = row
    BY Zenon, <2>1, <2>2, OffsetStep
  <2>4. LinkInv'
    BY Zenon, <1>q, <2>3
  <2>5. Len(objects) = 0 /\ objects' \in Seq(Session) /\ Len(objects') = 1 /\ mapped' = 1 /\ sess' = [sess EXCEPT ![h] = 1]
    <3>1. objects' \in Seq(Session) /\ Len(objects') = Len(objects) + 1 /\ Len(objects) \in Nat
      BY <1>0, <2>1, <2>2, AppendQueue
    <3>2. Len(objects') <= 1
      BY Zenon DEF OneRestore
    <3>3. Len(objects) = 0 /\ Len(objects) + 1 = 1
      BY <3>1, <3>2
    <3> QED
      BY Zenon, <2>1, <3>1, <3>3
  <2>6. HandlerTypes'
    BY <1>0, <2>1, <2>5, <2>3 DEF HandlerTypes
  <2>7. \A k \in Puts : pc[k] \notin Live /\ pc[k] # "authorized"
    BY <1>0, <2>5 DEF SessionState
  <2>8. /\ \A k \in Puts : k # h => pc'[k] = pc[k]
        /\ pc'[h] \in {"ended", "authorized"} /\ sess'[h] = 1
    BY Zenon, <1>0, <2>5, <2>3
  <2>9. \A k \in Puts : pc'[k] \notin Live /\ (pc'[k] = "authorized" => k = h)
    BY Zenon, <2>7, <2>8 DEF Live
  <2> QED
    BY Zenon, <2>4, <2>5, <2>6, <2>8, <2>9 DEF SessionState, OneAttempt
<1> QED
  BY Zenon, <1>t, <1>1, <1>2, <1>3

\* The attempt begins, runs and ends.
LEMMA AttemptKeeps ==
  ASSUME UploadInv, ChunkInv', NEW h \in Puts,
         \/ Begin(h) \/ PersistActive(h) \/ Open(h) \/ Ready(h) \/ ClientGone(h) \/ SendChunk(h) \/ SendComplete(h)
         \/ Completed(h) \/ PersistResult(h) \/ End(h)
  PROVE  SessionState' /\ HandlerTypes' /\ LinkTypes' /\ LinkInv'
<1>0. /\ pc \in [Puts -> Stages] /\ SessionState /\ HandlerTypes /\ LinkTypes /\ objects \in Seq(Session)
      /\ conn \in [Puts -> Nat] /\ epoch \in Nat /\ cur \in [Puts -> Nat]
      /\ ready \in [Puts -> Seq(Values)] /\ complete \in [Puts -> Seq(Values)]
  BY Zenon DEF UploadInv, ChunkInv, ChunkTypes, SessionState, HandlerTypes, LinkTypes
<1>g. pc[h] \in Live \cup {"authorized"} /\ (pc[h] = "authorized" => Begin(h))
  BY Zenon DEF Begin, PersistActive, Open, Ready, ClientGone, SendChunk, SendComplete, Completed,
     PersistResult, End, Goto, Live
<1>s. sess[h] = 1 /\ Len(objects) = 1 /\ objects[1] \in Session /\ (pc[h] \in Live => objects[1].active)
  <2>1. sess[h] = 1 /\ Len(objects) = 1 /\ (pc[h] \in Live => objects[1].active)
    BY Zenon, <1>0, <1>g DEF SessionState
  <2> QED
    BY Zenon, <1>0, <2>1, FirstObject
<1>u. UNCHANGED <<sess, rec, mapped>>
  BY Zenon DEF Begin, PersistActive, Open, Ready, ClientGone, SendChunk, SendComplete, Completed,
     PersistResult, End, registry
<1>1. ASSUME Begin(h) \/ End(h) PROVE SessionState' /\ HandlerTypes' /\ LinkTypes' /\ LinkInv'
  <2>1. UNCHANGED <<row, conn, epoch, up, down, uplink, reader, ready, complete, handles, file, late, raced>>
    BY Zenon, <1>1 DEF Begin, End, durable, link, channels, agent
  <2>2. PICK to \in {"begun", "ended"} : pc' = [pc EXCEPT ![h] = to]
    BY Zenon, <1>1 DEF Begin, End, Goto
  <2>3. to \in Stages /\ to # "authorized" /\ to \notin AtAgent \cup {"finishing"} /\ to # "persisted"
        /\ (to \in Live => to = "begun") /\ (to \in Before => to = "begun")
    BY Zenon DEF Stages, Before, AtAgent, Live
  <2>4. to = "begun" => pc[h] = "authorized"
    BY Zenon, <1>0, <1>1, <2>2 DEF Begin, End, Goto
  <2>5. LinkInv'
    BY Zenon, <1>g, <2>1, <2>2, <2>3, <2>4, QuietKeeps DEF Before
  <2>6. HandlerTypes' /\ LinkTypes'
    BY Zenon, <1>0, <1>u, <2>1 DEF HandlerTypes, LinkTypes
  <2>7. CASE objects' = objects /\ to = "ended"
    BY Zenon, <1>u, <2>2, <2>3, <2>5, <2>6, <2>7, SessionStays
  <2>8. CASE objects' = [objects EXCEPT ![1] = BeginAttempt(@)] /\ pc[h] = "authorized" /\ ~objects[1].active
    <3>1. BeginAttempt(objects[1]) \in Session /\ BeginAttempt(objects[1]).active
      BY Zenon, <1>s, SessionMethods
    <3> QED
      BY Zenon, <1>u, <2>2, <2>3, <2>5, <2>6, <2>8, <3>1, SessionChanges
  <2>9. CASE objects' = [objects EXCEPT ![1] = EndAttempt(@)] /\ pc[h] = "ending" /\ to = "ended"
    <3>1. EndAttempt(objects[1]) \in Session /\ to \notin Live /\ pc[h] \in Live
      BY Zenon, <1>s, <2>9, SessionMethods DEF Live
    <3> QED
      BY Zenon, <1>u, <2>2, <2>3, <2>5, <2>6, <2>9, <3>1, SessionChanges
  <2> QED
    <3>1. CASE Begin(h)
      BY Zenon, <1>0, <1>s, <3>1, <2>2, <2>7, <2>8 DEF Begin, MayBegin
    <3>2. CASE End(h)
      BY Zenon, <1>0, <1>s, <3>2, <2>2, <2>9 DEF End, Goto
    <3> QED
      BY Zenon, <1>1, <3>1, <3>2
<1>2. ASSUME PersistActive(h) \/ ClientGone(h) \/ PersistResult(h)
      PROVE  SessionState' /\ HandlerTypes' /\ LinkTypes' /\ LinkInv'
  <2>1. UNCHANGED <<objects, conn, epoch, up, down, uplink, reader, ready, complete, handles, file, late, raced>>
    BY Zenon, <1>2 DEF PersistActive, ClientGone, PersistResult, registry, durable, link, channels,
       agent
  <2>2. PICK to \in {"persisted", "ending"} : pc' = [pc EXCEPT ![h] = to] /\ (to = "persisted" => pc[h] = "begun")
    BY Zenon, <1>2 DEF PersistActive, ClientGone, PersistResult, Goto
  <2>3. to \in Stages /\ to # "authorized" /\ to \notin AtAgent \cup {"finishing"} /\ (to \in Before => to = "persisted")
    BY Zenon DEF Stages, Before, AtAgent
  <2>4. pc[h] \in Live
    BY Zenon, <1>2 DEF PersistActive, ClientGone, PersistResult, Goto, Live
  <2>5. row' \in Row /\ (row'.status = "completed" => (row.status = "completed" /\ to # "persisted") \/ pc[h] = "finishing")
    <3>1. CASE PersistActive(h)
      <4>1. row' = Persisted(objects[1], "active")
        BY Zenon, <1>s, <3>1 DEF PersistActive, Persist
      <4> QED
        BY Zenon, <1>s, <4>1, PersistedRow
    <3>2. CASE ClientGone(h)
      <4>1. row' = row /\ pc' = [pc EXCEPT ![h] = "ending"]
        BY Zenon, <3>2 DEF ClientGone, durable
      <4>2. to = "ending"
        BY Zenon, <1>0, <2>2, <4>1
      <4> QED
        BY Zenon, <1>0, <4>1, <4>2 DEF HandlerTypes
    <3>3. CASE PersistResult(h)
      <4>1. \/ row' = Persisted(objects[1], "failed")
            \/ row' = Persisted(objects[1], "completed") /\ pc[h] = "finishing"
        BY Zenon, <1>s, <3>3 DEF PersistResult, Persist
      <4> QED
        BY Zenon, <1>s, <4>1, PersistedRow
    <3> QED
      BY Zenon, <1>2, <3>1, <3>2, <3>3
  <2>6. LinkInv'
    BY Zenon, <2>1, <2>2, <2>3, <2>4, <2>5, QuietKeeps DEF Before
  <2>7. HandlerTypes' /\ LinkTypes'
    BY Zenon, <1>0, <1>u, <2>1, <2>5 DEF HandlerTypes, LinkTypes
  <2>8. SessionState'
    BY Zenon, <1>u, <2>1, <2>2, <2>3, <2>4, SessionStays
  <2> QED
    BY Zenon, <2>6, <2>7, <2>8
<1>3. ASSUME Open(h) PROVE SessionState' /\ HandlerTypes' /\ LinkTypes' /\ LinkInv'
  <2>1. /\ pc[h] = "persisted" /\ UNCHANGED <<objects, row, epoch, up, uplink, reader, ready, complete, handles, file, late, raced>>
        /\ \/ up /\ pc' = [pc EXCEPT ![h] = "waitReady"] /\ conn' = [conn EXCEPT ![h] = epoch]
           \/ ~up /\ pc' = [pc EXCEPT ![h] = "ending"] /\ UNCHANGED <<conn, down>>
    BY Zenon, <1>3 DEF Open, registry, durable, channels, agent
  <2>2. /\ "waitReady" \in Stages /\ "ending" \in Stages /\ "ending" \notin AtAgent \cup {"finishing"} /\ "ending" \notin Before
        /\ "waitReady" # "authorized" /\ "ending" # "authorized" /\ "ending" # "persisted" /\ pc[h] \in Live
    BY Zenon, <2>1 DEF Stages, Before, AtAgent, Live
  <2>3. SessionState'
    BY Zenon, <1>u, <2>1, <2>2, SessionStays
  <2>4. HandlerTypes' /\ LinkTypes'
    BY Zenon, <1>0, <1>u, <2>1 DEF HandlerTypes, LinkTypes
  <2>5. LinkInv'
    <3>1. CASE up
      BY Zenon, <1>3, <3>1, OpenKeeps
    <3>2. CASE ~up
      BY Zenon, <2>1, <2>2, <3>2, QuietKeeps
    <3> QED
      BY Zenon, <3>1, <3>2
  <2> QED
    BY Zenon, <2>3, <2>4, <2>5
<1>4. ASSUME Ready(h) \/ Completed(h) PROVE SessionState' /\ HandlerTypes' /\ LinkTypes' /\ LinkInv'
  <2>1. LinkInv'
    BY Zenon, <1>4, ReadyKeeps, CompletedKeeps
  <2>2. /\ UNCHANGED <<conn, row, epoch, up, uplink, reader>>
        /\ ready' \in [Puts -> Seq(Values)] /\ complete' \in [Puts -> Seq(Values)]
    <3>1. UNCHANGED <<conn, row, epoch, up, uplink, reader>>
      BY Zenon, <1>4 DEF Ready, Completed, durable, link
    <3>2. \/ ready[h] # <<>> /\ ready' = [ready EXCEPT ![h] = Tail(@)] /\ complete' = complete
          \/ complete[h] # <<>> /\ complete' = [complete EXCEPT ![h] = Tail(@)] /\ ready' = ready
      BY Zenon, <1>4 DEF Ready, Completed
    <3>3. ready[h] \in Seq(Values) /\ complete[h] \in Seq(Values)
      BY Zenon, <1>0
    <3>4. (ready[h] # <<>> => Tail(ready[h]) \in Seq(Values)) /\ (complete[h] # <<>> => Tail(complete[h]) \in Seq(Values))
      BY Zenon, <3>3, ValueOf
    <3> QED
      BY Zenon, <1>0, <3>1, <3>2, <3>4
  <2>3. HandlerTypes' /\ LinkTypes'
    BY Zenon, <1>0, <1>u, <2>2 DEF HandlerTypes, LinkTypes
  <2>4. PICK to \in {"failing", "ending", "sending", "finishing"} : pc' = [pc EXCEPT ![h] = to]
    BY Zenon, <1>4 DEF Ready, Completed
  <2>5. to \in Stages /\ to # "authorized" /\ to \in Live /\ pc[h] \in Live
    BY Zenon, <1>4 DEF Stages, AtAgent, Live, Ready, Completed
  <2>6. objects' = objects \/ \E s \in Session : objects' = [objects EXCEPT ![1] = s] /\ s.active
    <3>1. CASE Ready(h)
      <4>1. ready[h] \in Seq(Values) /\ ready[h] # <<>>
        BY Zenon, <1>0, <3>1 DEF Ready
      <4>2. Head(ready[h]).off \in Nat
        BY Zenon, <4>1, ValueOf
      <4>3. \/ objects' = objects
            \/ objects' = [objects EXCEPT ![1] = MarkReady(objects[1], "upload", Head(ready[h]).off, Head(ready[h]).off)]
        BY Zenon, <1>s, <1>0, <3>1 DEF Ready
      <4>4. /\ MarkReady(objects[1], "upload", Head(ready[h]).off, Head(ready[h]).off) \in Session
            /\ MarkReady(objects[1], "upload", Head(ready[h]).off, Head(ready[h]).off).active
        BY Zenon, <1>s, <2>5, <4>2, SessionMethods
      <4> QED
        BY Zenon, <4>3, <4>4
    <3>2. CASE Completed(h)
      <4>1. complete[h] \in Seq(Values) /\ complete[h] # <<>>
        BY Zenon, <1>0, <3>2 DEF Completed
      <4>2. Head(complete[h]).off \in Nat
        BY Zenon, <4>1, ValueOf
      <4>3. \/ objects' = objects
            \/ objects' = [objects EXCEPT ![1] = Complete(objects[1], Head(complete[h]).off, Head(complete[h]).off)]
        BY Zenon, <1>s, <1>0, <3>2 DEF Completed
      <4>4. /\ Complete(objects[1], Head(complete[h]).off, Head(complete[h]).off) \in Session
            /\ Complete(objects[1], Head(complete[h]).off, Head(complete[h]).off).active
        BY Zenon, <1>s, <2>5, <4>2, SessionMethods
      <4> QED
        BY Zenon, <4>3, <4>4
    <3> QED
      BY Zenon, <1>4, <3>1, <3>2
  <2>7. SessionState'
    BY Zenon, <1>u, <2>4, <2>5, <2>6, SessionStays, SessionChanges
  <2> QED
    BY Zenon, <2>1, <2>3, <2>7
<1>5. ASSUME SendChunk(h) \/ SendComplete(h) PROVE SessionState' /\ HandlerTypes' /\ LinkTypes' /\ LinkInv'
  <2>1. pc[h] = "sending" /\ UNCHANGED <<conn, row, epoch, up, uplink, reader, ready, complete, handles, file, late, raced>>
    BY Zenon, <1>5 DEF SendChunk, SendComplete, durable, channels, agent
  <2>2. HandlerTypes' /\ LinkTypes'
    BY Zenon, <1>0, <1>u, <2>1 DEF HandlerTypes, LinkTypes
  <2>3. \/ /\ down' = down /\ objects' = objects
           /\ pc' = [pc EXCEPT ![h] = "failing"] \/ pc' = [pc EXCEPT ![h] = "ending"]
        \/ /\ Connected(h) /\ pc' = pc /\ down' = Append(down, [type |-> "data", h |-> h, off |-> cur[h]])
           /\ objects' = [objects EXCEPT ![1] = Advance(objects[1], cur[h] + 1, cur[h] + 1)]
        \/ /\ Connected(h) /\ pc' = [pc EXCEPT ![h] = "waitComplete"] /\ cur[h] = Size /\ objects' = objects
           /\ down' = Append(down, [type |-> "complete", h |-> h, off |-> cur[h]])
    BY Zenon, <1>0, <1>5, <1>s DEF SendChunk, SendComplete, registry
  <2>4. /\ "failing" \in Stages /\ "ending" \in Stages /\ "waitComplete" \in Stages /\ "sending" \in Stages
        /\ {"failing", "ending"} \cap (AtAgent \cup {"finishing"}) = {} /\ {"failing", "ending"} \cap Before = {}
        /\ "sending" \in Live
    BY Zenon DEF Stages, Before, AtAgent, Live
  <2>5. CASE /\ down' = down /\ objects' = objects
             /\ pc' = [pc EXCEPT ![h] = "failing"] \/ pc' = [pc EXCEPT ![h] = "ending"]
    <3>1. PICK to \in {"failing", "ending"} : pc' = [pc EXCEPT ![h] = to]
      BY Zenon, <2>5
    <3>2. to \in Stages /\ to # "authorized" /\ to # "persisted" /\ to \notin AtAgent \cup {"finishing"} /\ to \notin Before
      BY Zenon, <2>4
    <3>3. LinkInv'
      BY Zenon, <2>1, <2>4, <2>5, <3>1, <3>2, QuietKeeps
    <3>4. SessionState'
      BY Zenon, <1>u, <2>1, <2>4, <2>5, <3>1, <3>2, SessionStays
    <3> QED
      BY Zenon, <2>2, <3>3, <3>4
  <2>6. CASE /\ Connected(h) /\ pc' = pc /\ down' = Append(down, [type |-> "data", h |-> h, off |-> cur[h]])
             /\ objects' = [objects EXCEPT ![1] = Advance(objects[1], cur[h] + 1, cur[h] + 1)]
    <3> DEFINE m == [type |-> "data", h |-> h, off |-> cur[h]]
    <3>1. m \in Messages /\ m.h = h /\ m.type = "data" /\ cur[h] + 1 \in Nat
      BY <1>0 DEF Messages
    <3>2. down' = Append(down, m)
      BY Zenon, <2>6
    <3> HIDE DEF m
    <3>3. LinkInv'
      BY Zenon, <2>1, <2>6, <3>1, <3>2, SendKeeps
    <3>4. /\ Advance(objects[1], cur[h] + 1, cur[h] + 1) \in Session
          /\ Advance(objects[1], cur[h] + 1, cur[h] + 1).active
      BY Zenon, <1>s, <2>1, <2>4, <3>1, SessionMethods
    <3>5. pc' = [pc EXCEPT ![h] = "sending"]
      BY Zenon, <1>0, <2>1, <2>6
    <3>6. SessionState'
      BY Zenon, <1>u, <2>1, <2>4, <2>6, <3>4, <3>5, SessionChanges
    <3> QED
      BY Zenon, <2>2, <3>3, <3>6
  <2>7. CASE /\ Connected(h) /\ pc' = [pc EXCEPT ![h] = "waitComplete"] /\ cur[h] = Size /\ objects' = objects
             /\ down' = Append(down, [type |-> "complete", h |-> h, off |-> cur[h]])
    <3> DEFINE m == [type |-> "complete", h |-> h, off |-> cur[h]]
    <3>1. m \in Messages /\ m.h = h /\ m.type = "complete" /\ m.off = Size
      BY Zenon, <1>0, <2>7 DEF Messages
    <3>2. down' = Append(down, m)
      BY Zenon, <2>7
    <3> HIDE DEF m
    <3>3. LinkInv'
      BY Zenon, <2>1, <2>7, <3>1, <3>2, SendKeeps
    <3>4. SessionState'
      BY Zenon, <1>u, <2>1, <2>4, <2>7, SessionStays
    <3> QED
      BY Zenon, <2>2, <3>3, <3>4
  <2> QED
    BY Zenon, <2>3, <2>5, <2>6, <2>7
<1> QED
  BY Zenon, <1>1, <1>2, <1>3, <1>4, <1>5

LEMMA UploadInit == Init => UploadInv
<1> SUFFICES ASSUME Init PROVE UploadInv
  OBVIOUS
<1>0. Len(<<>>) = 0 /\ 1..0 = {} /\ \A S : <<>> \in Seq(S)
  OBVIOUS
<1>1. HandlerTypes
  BY Zenon DEF Init, HandlerTypes, NewRow, Row
<1>2. LinkTypes
  BY Zenon, <1>0 DEF Init, LinkTypes
<1>3. SessionState
  <2>1. NewSession \in Session
    BY Zenon DEF NewSession, Session
  <2>2. objects \in Seq(Session) /\ Len(objects) = 1 /\ mapped = 1
    BY <2>1 DEF Init
  <2>3. \A h \in Puts : pc[h] \notin Live /\ pc[h] # "authorized"
    BY Zenon DEF Init, Live
  <2> QED
    BY Zenon, <2>2, <2>3 DEF SessionState, OneAttempt
<1>4. OnItsWay
  BY <1>0 DEF Init, OnItsWay
<1>5. InOrder
  BY Zenon, <1>0 DEF Init, InOrder
<1>6. Writers
  BY Zenon, <1>0 DEF Init, Writers, AtEnd, Writing
<1>7. Results
  BY Zenon, <1>0 DEF Init, Results, NewRow
<1>8. Prefixed /\ LateState
  BY Zenon, <1>0 DEF Init, Prefixed, FileIsPrefix, LateState
<1> QED
  BY Zenon, <1>1, <1>2, <1>3, <1>4, <1>5, <1>6, <1>7, <1>8, ChunkInit DEF UploadInv, LinkInv

LEMMA UploadNext == UploadInv /\ OneRestore' /\ [Next]_vars => UploadInv'
<1> SUFFICES ASSUME UploadInv, OneRestore', [Next]_vars PROVE UploadInv'
  OBVIOUS
<1>c. ChunkInv'
  BY Zenon, ChunkNext DEF UploadInv
<1>0. SessionState /\ HandlerTypes /\ LinkTypes /\ LinkInv
  BY Zenon DEF UploadInv
<1>1. ASSUME NEW h \in Puts,
             \/ Authorize(h) \/ Missed(h) \/ ReadRow(h) \/ Restore(h) \/ Begin(h) \/ PersistActive(h) \/ Open(h)
             \/ Ready(h) \/ ClientGone(h) \/ SendChunk(h) \/ SendComplete(h) \/ Completed(h) \/ PersistResult(h) \/ End(h)
      PROVE  UploadInv'
  BY Zenon, <1>c, <1>1, AuthorizeKeeps, AttemptKeeps DEF UploadInv
<1>2. CASE AgentHandles
  <2>1. SessionState' /\ HandlerTypes'
    BY Zenon, <1>0, <1>2 DEF AgentHandles, handler, registry, durable, SessionState, HandlerTypes,
       OneAttempt
  <2>2. LinkTypes'
    BY Zenon, <1>0, <1>2, AgentReplies DEF AgentHandles, channels, LinkTypes
  <2> QED
    BY Zenon, <1>2, <1>c, <2>1, <2>2, AgentKeeps DEF UploadInv
<1>l. ASSUME NEW w \in late, LateHandler(w) PROVE UploadInv'
  <2>1. SessionState' /\ HandlerTypes'
    BY Zenon, <1>0, <1>l DEF LateHandler, handler, registry, durable, SessionState, HandlerTypes,
       OneAttempt
  <2>2. LinkInv' /\ uplink' = uplink
    BY Zenon, <1>l, LateKeeps
  <2>3. LinkTypes'
    BY Zenon, <1>0, <1>l, <2>2 DEF LateHandler, channels, LinkTypes
  <2> QED
    BY Zenon, <1>c, <2>1, <2>2, <2>3 DEF UploadInv
<1>3. CASE ReaderTakes \/ \E e \in Epochs : ReaderSends(e)
  <2>1. UNCHANGED <<handler, registry, durable, epoch, up>>
    BY Zenon, <1>3 DEF ReaderTakes, ReaderSends, link
  <2>2. SessionState' /\ HandlerTypes'
    BY Zenon, <1>0, <2>1 DEF handler, registry, durable, SessionState, HandlerTypes, OneAttempt
  <2>3. LinkTypes' /\ LinkInv'
    <3>1. CASE ReaderTakes
      <4>1. UNCHANGED <<ready, complete>>
        BY Zenon, <3>1 DEF ReaderTakes, channels
      <4> QED
        BY Zenon, <1>0, <2>1, <3>1, <4>1, ReaderTakesKeeps DEF LinkTypes
    <3>2. ASSUME NEW e \in Epochs, ReaderSends(e) PROVE LinkTypes' /\ LinkInv'
      <4>1. UNCHANGED uplink
        BY Zenon, <3>2 DEF ReaderSends, link
      <4> QED
        BY Zenon, <1>0, <2>1, <3>2, <4>1, ReaderSendsKeeps DEF LinkTypes
    <3> QED
      BY Zenon, <1>3, <3>1, <3>2
  <2> QED
    BY Zenon, <1>c, <2>2, <2>3 DEF UploadInv
<1>4. CASE LinkBreaks \/ AgentReconnects
  <2>1. /\ UNCHANGED <<handler, registry, durable, channels, reader>> /\ up' \in BOOLEAN
        /\ epoch' = epoch \/ epoch' = epoch + 1
        /\ uplink' = uplink \/ uplink' = <<>>
    BY Zenon, <1>4 DEF LinkBreaks, LoseLink, AgentReconnects
  <2>2. SessionState' /\ HandlerTypes'
    BY Zenon, <1>0, <2>1 DEF handler, registry, durable, SessionState, HandlerTypes, OneAttempt
  <2>3. LinkTypes'
    <3>1. epoch' \in Nat
      BY <1>0, <2>1 DEF LinkTypes
    <3>2. uplink' \in Seq(Answers)
      BY Zenon, <1>0, <2>1, EmptyQueue DEF LinkTypes
    <3> QED
      BY Zenon, <1>0, <2>1, <3>1, <3>2 DEF LinkTypes, channels
  <2> QED
    BY Zenon, <1>c, <1>4, <2>2, <2>3, LinkKeeps DEF UploadInv
<1>5. CASE CloudRestarts
  <2>1. /\ pc' = [h \in Puts |-> IF pc[h] = "new" THEN "new" ELSE "ended"]
        /\ mapped' = 0 /\ objects' = <<>> /\ up' = FALSE /\ uplink' = <<>> /\ reader' = [e \in Epochs |-> <<>>]
        /\ ready' = [h \in Puts |-> <<>>] /\ complete' = [h \in Puts |-> <<>>]
        /\ UNCHANGED <<sess, rec, conn, row, epoch>>
    BY Zenon, <1>5 DEF CloudRestarts, LoseLink
  <2>2. \A h \in Puts : pc'[h] \notin Live /\ pc'[h] # "authorized"
    BY Zenon, <2>1 DEF Live
  <2>3. SessionState'
    BY Zenon, <2>1, <2>2, EmptyQueue DEF SessionState, OneAttempt
  <2>4. HandlerTypes'
    BY Zenon, <1>0, <2>1 DEF HandlerTypes
  <2>5. LinkTypes'
    BY Zenon, <1>0, <2>1, EmptyQueue DEF LinkTypes
  <2> QED
    BY Zenon, <1>c, <1>5, <2>3, <2>4, <2>5, LinkKeeps DEF UploadInv
<1>6. CASE UNCHANGED <<handler, registry, row, channels, link, reader, agent>>
  <2>1. SessionState' /\ HandlerTypes' /\ LinkTypes'
    BY Zenon, <1>0, <1>6 DEF handler, registry, channels, link, SessionState, HandlerTypes,
       OneAttempt, LinkTypes
  <2>2. OnItsWay' /\ InOrder'
    BY <1>0, <1>6 DEF handler, channels, link, LinkInv, OnItsWay, InOrder
  <2>3. \A k \in Puts : ReadyFor(k)' = ReadyFor(k) /\ CompleteFor(k)' = CompleteFor(k)
    BY Zenon, <1>6 DEF channels, link, ReadyFor, CompleteFor
  <2>4. UNCHANGED <<pc, conn, epoch, up, down, row, handles, file, late, raced>>
    BY Zenon, <1>6 DEF handler, link, agent
  <2> QED
    BY Zenon, <1>c, <2>1, <2>2, <2>3, <2>4, AnswerKeeps DEF UploadInv
<1>7. Expire \/ UNCHANGED vars => UNCHANGED <<handler, registry, row, channels, link, reader, agent>>
  BY Zenon DEF Expire, vars, durable
<1> QED
  BY Zenon, <1>1, <1>2, <1>l, <1>3, <1>4, <1>5, <1>6, <1>7 DEF Next

(* While no two requests race to restore the session after a restart, a    *)
(* lease has one attempt at a time and no chunk is in the place of another.*)
(* Until an upload is opened while the read loop of a lost connection is   *)
(* still inside a handler, the agent's file is the beginning of the        *)
(* client's and a transfer the store calls completed left the whole file   *)
(* there: for any number of requests, lost connections and restarts, any   *)
(* size, and writes that fail (handleFileTransfer, BeginAttempt,           *)
(* openWriterLocal, handleTransferData, persistTransferStatus).            *)
THEOREM UploadsAreFaithful == Spec /\ []OneRestore => []UploadIsFaithful
<1>1. UploadInv => UploadIsFaithful
  <2> SUFFICES ASSUME UploadInv PROVE UploadIsFaithful
    OBVIOUS
  <2>1. NoneMisplaced /\ OneAttempt /\ file \in Seq(Nat)
    BY Zenon DEF UploadInv, SessionState, ChunkInv, ChunkTypes
  <2>2. ASSUME ~raced PROVE FileIsPrefix /\ CompletedIsWhole
    <3>1. FileIsPrefix /\ (row.status = "completed" => Len(file) = Size)
      BY Zenon, <2>2 DEF UploadInv, LinkInv, Prefixed, Results, Whole
    <3>2. file = [i \in 1..Len(file) |-> file[i]]
      BY <2>1
    <3> QED
      BY Zenon, <3>1, <3>2 DEF CompletedIsWhole, FileIsPrefix
  <2> QED
    BY Zenon, <2>1, <2>2 DEF UploadIsFaithful
<1> QED
  BY <1>1, UploadInit, UploadNext, PTL DEF Spec
=============================================================================

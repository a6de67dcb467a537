--------------------------- MODULE FileEndsProofs ---------------------------
(***************************************************************************)
(* The safety of downloads and of managed file moves, for any number of    *)
(* requests, attempts, lost connections, crashes and restarts.             *)
(***************************************************************************)
EXTENDS FileDownload, FileMoveJobs, FiniteSetTheorems, TLAPS

\* An event or an answer at the end of a queue.
LEMMA AppendQueue ==
  ASSUME NEW S, NEW q \in Seq(S), NEW e \in S
  PROVE  /\ Append(q, e) \in Seq(S)
         /\ \A i \in 1 .. Len(Append(q, e)) :
              Append(q, e)[i] = e \/ (i \in 1 .. Len(q) /\ Append(q, e)[i] = q[i])
  OBVIOUS

\* Taking the first message leaves the others.
LEMMA TailQueue ==
  ASSUME NEW S, NEW q \in Seq(S), q # <<>>
  PROVE  /\ Head(q) \in S /\ Head(q) = q[1] /\ 1 \in 1 .. Len(q)
         /\ Tail(q) \in Seq(S)
         /\ \A i \in 1 .. Len(Tail(q)) : i + 1 \in 1 .. Len(q) /\ Tail(q)[i] = q[i + 1]
  OBVIOUS

\* A queue that breaks is empty.
LEMMA EmptyQueue == \A S : <<>> \in Seq(S) /\ Len(<<>>) = 0
  OBVIOUS

-----------------------------------------------------------------------------
(* Downloads.                                                              *)

\* Where a handler may be.
Stages == Live \cup {"new", "ended"}

\* What the agent may send: no frame beyond the file, and a GET's stream is
\* complete at the end of the file only.
Frames ==
  {m \in [type : {"ready", "data", "complete", "error"}, h : Requests, off : Nat] :
     /\ m.type = "data" => m.off < Size
     /\ m.type = "complete" /\ m.h \in Gets => m.off = Size}

\* What the cloud may send.
Orders == [type : {"open", "cancel"}, h : Requests]

\* What the cloud's reader may have to send, and what the channels hold.
Sends ==
  {s \in [ch : {"ready", "data", "complete"}, h : Requests, off : Nat, error : BOOLEAN] :
     /\ s.ch = "data" => s.off < Size
     /\ s.ch = "complete" /\ ~s.error /\ s.h \in Gets => s.off = Size}
Answers == [off : Nat, error : BOOLEAN]
AnswersTo(h) == {r \in Answers : ~r.error /\ h \in Gets => r.off = Size}
\* Where a stream may be.
Streams(h) == {s \in [pos : Nat, end : 0..Size] : h \in Gets => s.end = Size}

\* What the handlers know: nobody has counted beyond the file, and a complete
\* message that came too early names its end.
HandlerTypes ==
  /\ pc \in [Requests -> Stages]
  /\ off \in [Requests -> Nat] /\ \A h \in Gets : off[h] \in 0..Size
  /\ upto \in [Requests -> Nat] /\ \A h \in Gets : upto[h] = Size
  /\ cur \in [Requests -> 0..Size]
  /\ pending \in [Requests -> {None, Size}]
  /\ session \in Session

\* The channels and the reader.
ChannelTypes ==
  /\ ready \in [Requests -> Seq(Answers)]
  /\ data \in [Requests -> Seq(0..(Size - 1))]
  /\ complete \in [Requests -> Seq(Answers)]
  /\ \A h \in Requests : complete[h] \in Seq(AnswersTo(h))
  /\ reader \in [0..MaxBreaks -> Seq(Sends)]

\* The socket and the agent's streams.
LinkTypes ==
  /\ down \in Seq(Orders)
  /\ uplink \in Seq(Frames)
  /\ DOMAIN stream = Requests /\ stream = [h \in Requests |-> stream[h]]
  /\ \A h \in Requests : stream[h] # None => stream[h] \in Streams(h)

\* The inductive invariant.
DownloadInv == HandlerTypes /\ ChannelTypes /\ LinkTypes /\ DownloadIsWhole /\ LeaseFollowsAttempt

\* The beginning: nothing is on its way.
LEMMA DownloadInit == Init => DownloadInv
<1> SUFFICES ASSUME Init PROVE DownloadInv
  OBVIOUS
<1> USE DownloadAssumption
<1>1. HandlerTypes
  BY DEF Init, HandlerTypes, Stages, NewSession, Session, Requests
<1>2. ChannelTypes
  BY Zenon, EmptyQueue DEF Init, ChannelTypes
<1>3. LinkTypes
  BY Zenon, EmptyQueue DEF Init, LinkTypes
<1>4. DownloadIsWhole /\ LeaseFollowsAttempt
  BY Zenon DEF Init, DownloadIsWhole, LeaseFollowsAttempt, Live, NewSession, Requests
<1> QED
  BY Zenon, <1>1, <1>2, <1>3, <1>4 DEF DownloadInv

\* The session's methods keep its shape, and only BeginAttempt and EndAttempt
\* touch what says whether it is active.
LEMMA SessionMethods ==
  ASSUME NEW s \in Session, NEW a \in Nat, NEW b \in Nat
  PROVE  /\ BeginAttempt(s) \in Session /\ BeginAttempt(s).active
         /\ EndAttempt(s) \in Session /\ ~EndAttempt(s).active
         /\ MarkReady(s, "download", a, b) \in Session /\ MarkReady(s, "download", a, b).active = s.active
         /\ Advance(s, a, b) \in Session /\ Advance(s, a, b).active = s.active
         /\ Complete(s, a, b) \in Session /\ Complete(s, a, b).active = s.active
<1>1. BeginAttempt(s) \in Session /\ BeginAttempt(s).active
  BY Zenon DEF BeginAttempt, Session
<1>2. EndAttempt(s) \in Session /\ ~EndAttempt(s).active
  BY Zenon DEF EndAttempt, Session
<1>3. MarkReady(s, "download", a, b) \in Session /\ MarkReady(s, "download", a, b).active = s.active
  BY Zenon DEF MarkReady, Session
<1>4. Advance(s, a, b) \in Session /\ Advance(s, a, b).active = s.active
  BY Zenon DEF Advance, Session
<1>5. Complete(s, a, b) \in Session /\ Complete(s, a, b).active = s.active
  BY Zenon DEF Complete, Session
<1> QED
  BY Zenon, <1>1, <1>2, <1>3, <1>4, <1>5

\* A handler goes on within its attempt, or a preview moves: the session and
\* the attempts of GETs are what they were.
LEMMA WithinAttempt ==
  ASSUME DownloadInv, NEW h \in Requests, NEW s \in Stages, Goto(h, s),
         h \in Gets => pc[h] \in Live /\ s \in Live,
         session'.active = session.active
  PROVE  LeaseFollowsAttempt'
<1>1. \A k \in Gets : pc'[k] \in Live <=> pc[k] \in Live
  BY Zenon DEF DownloadInv, HandlerTypes, Goto, Requests
<1> QED
  BY Zenon, <1>1 DEF DownloadInv, LeaseFollowsAttempt

\* Steps of the agent and of the reader leave the handlers alone.
LEMMA NoHandlerMoves ==
  ASSUME DownloadInv, UNCHANGED <<pc, session, cur>>
  PROVE  LeaseFollowsAttempt' /\ DownloadIsWhole'
  BY Zenon DEF DownloadInv, LeaseFollowsAttempt, DownloadIsWhole

\* Begin and End, on the lease.
LEMMA LeaseTaken ==
  ASSUME DownloadInv, NEW h \in Requests, Begin(h) \/ BeginPreview(h) \/ End(h)
  PROVE  LeaseFollowsAttempt' /\ DownloadIsWhole' /\ HandlerTypes'
<1> USE DownloadAssumption
<1>t. /\ pc \in [Requests -> Stages] /\ session \in Session /\ h \in Requests
      /\ "new" \notin Live /\ "ended" \notin Live /\ "begun" \in Live /\ "ending" \in Live
      /\ {"new", "begun", "ended", "persisted"} \subseteq Stages
  BY Zenon DEF DownloadInv, HandlerTypes, Live, Stages
<1>1. CASE Begin(h)
  <2>1. PICK o \in 0..Size :
          /\ off' = [off EXCEPT ![h] = o]
          /\ IF MayBegin(session, "download", o) THEN Goto(h, "begun") /\ session' = BeginAttempt(session)
             ELSE Goto(h, "ended") /\ session' = session
    BY Zenon, <1>1 DEF Begin
  <2>2. off' \in [Requests -> Nat] /\ \A k \in Gets : off'[k] \in 0..Size
    BY <2>1 DEF DownloadInv, HandlerTypes, Requests
  <2>3. CASE MayBegin(session, "download", o)
    <3>1. pc' = [pc EXCEPT ![h] = "begun"] /\ session' \in Session /\ session'.active
      BY <2>1, <2>3, <1>t, SessionMethods DEF Goto
    <3>2. ~session.active /\ \A k \in Gets : pc[k] \notin Live
      BY Zenon, <2>3 DEF MayBegin, DownloadInv, LeaseFollowsAttempt
    <3>3. LeaseFollowsAttempt'
      BY Zenon, <3>1, <3>2, <1>t, <1>1 DEF LeaseFollowsAttempt, Begin, Requests
    <3>4. DownloadIsWhole'
      BY Zenon, <3>1, <1>t, <1>1 DEF DownloadInv, DownloadIsWhole, Begin, Requests
    <3> QED
      BY Zenon, <3>1, <3>3, <3>4, <2>2, <1>t, <1>1 DEF DownloadInv, HandlerTypes, Begin
  <2>4. CASE ~MayBegin(session, "download", o)
    <3>1. pc' = [pc EXCEPT ![h] = "ended"] /\ session' = session /\ pc[h] = "new"
      BY Zenon, <2>1, <2>4, <1>1 DEF Goto, Begin
    <3>3. LeaseFollowsAttempt'
      BY Zenon, <3>1, <1>t DEF DownloadInv, LeaseFollowsAttempt, Requests
    <3>4. DownloadIsWhole'
      BY Zenon, <3>1, <1>t, <1>1 DEF DownloadInv, DownloadIsWhole, Begin, Requests
    <3> QED
      BY Zenon, <3>1, <3>3, <3>4, <2>2, <1>t, <1>1 DEF DownloadInv, HandlerTypes, Begin
  <2> QED
    BY Zenon, <2>3, <2>4
<1>2. CASE BeginPreview(h)
  <2>1. h \notin Gets /\ pc' = [pc EXCEPT ![h] = "persisted"] /\ session' = session /\ cur' = cur /\ pending' = pending
    BY Zenon, <1>2 DEF BeginPreview, Goto
  <2>2. PICK range \in Ranges : off' = [off EXCEPT ![h] = range[1]] /\ upto' = [upto EXCEPT ![h] = range[2]]
    BY Zenon, <1>2 DEF BeginPreview
  <2>3. range[1] \in Nat /\ range[2] \in Nat
    OBVIOUS
  <2>4. LeaseFollowsAttempt' /\ DownloadIsWhole'
    BY Zenon, <2>1, <1>t DEF DownloadInv, LeaseFollowsAttempt, DownloadIsWhole, Requests
  <2> QED
    BY Zenon, <2>1, <2>2, <2>3, <2>4, <1>t DEF DownloadInv, HandlerTypes, Requests
<1>3. CASE End(h)
  <2>1. pc[h] = "ending" /\ pc' = [pc EXCEPT ![h] = "ended"] /\ UNCHANGED <<off, upto, cur, pending>>
    BY Zenon, <1>3 DEF End, Goto
  <2>2. session' \in Session /\ (h \in Gets => ~session'.active) /\ (h \notin Gets => session' = session)
    BY Zenon, <1>3, <1>t, SessionMethods DEF End
  <2>3. \A k \in Gets : pc'[k] \in Live <=> pc[k] \in Live /\ k # h
    BY Zenon, <2>1, <1>t DEF Requests
  <2>4. LeaseFollowsAttempt'
    BY Zenon, <2>1, <2>2, <2>3, <1>t DEF DownloadInv, LeaseFollowsAttempt
  <2>5. DownloadIsWhole'
    BY Zenon, <2>1, <1>t DEF DownloadInv, DownloadIsWhole, Requests
  <2> QED
    BY Zenon, <2>1, <2>2, <2>4, <2>5, <1>t DEF DownloadInv, HandlerTypes
<1> QED
  BY Zenon, <1>1, <1>2, <1>3

\* The steps of a handler between BeginAttempt and EndAttempt.
LEMMA HandlerGoesOn ==
  ASSUME DownloadInv, NEW h \in Requests,
         \/ PersistActive(h) \/ Open(h) \/ Ready(h) \/ TakeData(h) \/ TakeComplete(h)
         \/ PersistResult(h) \/ ClientGone(h)
  PROVE  LeaseFollowsAttempt' /\ DownloadIsWhole' /\ HandlerTypes'
<1> USE DownloadAssumption
<1>t. /\ pc \in [Requests -> Stages] /\ session \in Session /\ cur \in [Requests -> 0..Size]
      /\ off \in [Requests -> Nat] /\ pending \in [Requests -> {None, Size}]
      /\ Live \subseteq Stages
      /\ \A k \in Gets : pc[k] = "finishing" => cur[k] = Size
  BY Zenon DEF DownloadInv, HandlerTypes, Stages, DownloadIsWhole
<1>g. ASSUME NEW s \in Live, pc[h] \in Live, Goto(h, s), session' \in Session, session'.active = session.active,
             cur' \in [Requests -> 0..Size], \A k \in Requests : k # h => cur'[k] = cur[k],
             s = "finishing" /\ h \in Gets => cur'[h] = Size,
             pending' \in [Requests -> {None, Size}], UNCHANGED <<off, upto>>
      PROVE  LeaseFollowsAttempt' /\ DownloadIsWhole' /\ HandlerTypes'
  <2>1. LeaseFollowsAttempt'
    BY Zenon, <1>g, <1>t, WithinAttempt
  <2>2. DownloadIsWhole'
    BY Zenon, <1>g, <1>t DEF DownloadIsWhole, Goto, Requests
  <2>3. HandlerTypes'
    BY Zenon, <1>g, <1>t DEF DownloadInv, HandlerTypes, Goto
  <2> QED
    BY Zenon, <2>1, <2>2, <2>3
<1>1. CASE PersistActive(h) \/ Open(h) \/ ClientGone(h)
  <2>1. pc[h] \in Live /\ \E s \in {"persisted", "waitReady", "ending"} : Goto(h, s)
    BY Zenon, <1>1 DEF PersistActive, Open, ClientGone, Live
  <2>2. UNCHANGED <<off, upto, cur, pending, session>>
    BY Zenon, <1>1 DEF PersistActive, Open, ClientGone, lease
  <2> QED
    BY Zenon, <2>1, <2>2, <1>g, <1>t DEF Live
<1>2. CASE Ready(h)
  <2>1. pc[h] = "waitReady" /\ UNCHANGED <<off, upto, pending>>
    BY Zenon, <1>2 DEF Ready
  <2>2. CASE Goto(h, "streaming") /\ Satisfiable(h)
    <3>1. off[h] \in 0..Size
      BY <2>2, <1>t DEF DownloadInv, HandlerTypes, Satisfiable, Requests
    <3>2. cur' = [cur EXCEPT ![h] = off[h]] /\ session' = IF h \in Gets THEN MarkReady(session, "download", off[h], Size) ELSE session
      BY Zenon, <1>2, <2>2, <2>1, <1>t DEF Ready, Goto, AfterError
    <3>3. session' \in Session /\ session'.active = session.active
      <4>1. off[h] \in Nat /\ Size \in Nat
        BY <3>1
      <4>2. /\ MarkReady(session, "download", off[h], Size) \in Session
            /\ MarkReady(session, "download", off[h], Size).active = session.active
        BY SMTT(30), <4>1, <1>t, SessionMethods
      <4> QED
        BY Zenon, <4>2, <3>2, <1>t
    <3> QED
      BY Zenon, <2>1, <2>2, <3>1, <3>2, <3>3, <1>g, <1>t DEF Live
  <2>3. CASE \E s \in {"failing", "ending"} : Goto(h, s) /\ UNCHANGED <<cur, session>>
    BY Zenon, <2>1, <2>3, <1>g, <1>t DEF Live
  <2> QED
    BY Zenon, <2>2, <2>3, <1>2 DEF Ready, AfterError
<1>3. CASE TakeData(h)
  <2>1. pc[h] = "streaming" /\ UNCHANGED <<off, upto, pending>>
    BY Zenon, <1>3 DEF TakeData
  <2>2. CASE Head(data[h]) # cur[h]
    <3>1. (\E s \in {"failing", "ending"} : Goto(h, s)) /\ UNCHANGED <<cur, session>>
      BY Zenon, <2>2, <1>3 DEF TakeData, AfterError
    <3> QED
      BY Zenon, <2>1, <3>1, <1>g, <1>t DEF Live
  <2>3. CASE Head(data[h]) = cur[h]
    <3>1. cur[h] \in 0..(Size - 1)
      BY SMTT(30), <2>3, <1>3, TailQueue DEF TakeData, DownloadInv, ChannelTypes
    <3>2. cur' = [cur EXCEPT ![h] = cur[h] + 1] /\ session' = Advanced(h, cur[h] + 1)
      BY Zenon, <2>3, <1>3 DEF TakeData
    <3>3. session' \in Session /\ session'.active = session.active
      <4>1. cur[h] + 1 \in Nat /\ Size \in Nat
        BY <3>1
      <4>2. /\ Advance(session, cur[h] + 1, Size) \in Session
            /\ Advance(session, cur[h] + 1, Size).active = session.active
        BY SMTT(30), <4>1, <1>t, SessionMethods
      <4> QED
        BY Zenon, <4>2, <3>2, <1>t DEF Advanced
    <3>4. \/ Goto(h, "finishing") /\ h \in Gets /\ pending[h] # None /\ cur[h] + 1 >= pending[h]
          \/ Goto(h, "ending")
          \/ Goto(h, "streaming")
      BY Zenon, <2>3, <1>3 DEF TakeData
    <3>5. CASE Goto(h, "finishing") /\ h \in Gets /\ pending[h] # None /\ cur[h] + 1 >= pending[h]
      <4>1. cur[h] + 1 = Size
        BY <3>5, <3>1, <1>t
      <4> QED
        BY <4>1, <3>1, <3>2, <3>3, <3>5, <2>1, <1>g, <1>t DEF Live
    <3>6. CASE Goto(h, "ending") \/ Goto(h, "streaming")
      BY <3>1, <3>2, <3>3, <3>6, <2>1, <1>g, <1>t DEF Live
    <3> QED
      BY Zenon, <3>4, <3>5, <3>6
  <2> QED
    BY Zenon, <2>2, <2>3
<1>4. CASE TakeComplete(h)
  <2>1. pc[h] = "streaming" /\ UNCHANGED <<off, upto, cur, session>> /\ complete[h] # <<>>
    BY Zenon, <1>4 DEF TakeComplete, lease
  <2>2. Head(complete[h]) \in AnswersTo(h)
    BY Zenon, <2>1, TailQueue DEF DownloadInv, ChannelTypes
  <2>3. CASE Goto(h, "finishing") /\ h \in Gets /\ ~Head(complete[h]).error /\ cur[h] >= Head(complete[h]).off /\ UNCHANGED pending
    <3>1. cur[h] = Size
      BY <2>2, <2>3, <1>t DEF AnswersTo, Answers
    <3> QED
      BY Zenon, <2>1, <2>3, <3>1, <1>g, <1>t DEF Live
  <2>4. CASE pc' = pc /\ h \in Gets /\ ~Head(complete[h]).error /\ pending' = [pending EXCEPT ![h] = Head(complete[h]).off]
    <3>1. Head(complete[h]).off = Size
      BY Zenon, <2>2, <2>4 DEF AnswersTo, Answers
    <3>2. Goto(h, "streaming")
      BY Zenon, <2>1, <2>4, <1>t DEF Goto
    <3> QED
      BY Zenon, <2>1, <2>4, <3>1, <3>2, <1>g, <1>t DEF Live
  <2>5. CASE UNCHANGED <<pc, pending>>
    <3>1. Goto(h, "streaming")
      BY Zenon, <2>1, <2>5, <1>t DEF Goto
    <3> QED
      BY Zenon, <2>1, <2>5, <3>1, <1>g, <1>t DEF Live
  <2>6. CASE (\E s \in {"failing", "ending"} : Goto(h, s)) /\ UNCHANGED pending
    BY Zenon, <2>1, <2>6, <1>g, <1>t DEF Live
  <2> QED
    BY Zenon, <2>3, <2>4, <2>5, <2>6, <1>4 DEF TakeComplete, AfterError
<1>5. CASE PersistResult(h)
  <2>1. pc[h] \in Live /\ Goto(h, "ending") /\ UNCHANGED <<off, upto, cur, pending>>
    BY Zenon, <1>5 DEF PersistResult, Live
  <2>2. session' = session \/ session' = Complete(session, cur[h], Size)
    BY Zenon, <1>5 DEF PersistResult
  <2>3. session' \in Session /\ session'.active = session.active
    BY <2>2, <1>t, SessionMethods
  <2> QED
    BY Zenon, <2>1, <2>3, <1>g, <1>t DEF Live
<1> QED
  BY Zenon, <1>1, <1>2, <1>3, <1>4, <1>5

\* A queue built from its elements.
LEMMA BuiltQueue ==
  ASSUME NEW S, NEW n \in Nat, NEW e(_), \A i \in 1..n : e(i) \in S
  PROVE  [i \in 1..n |-> e(i)] \in Seq(S)
  OBVIOUS

\* The reader passes on what the agent sent, and no more.
LEMMA ReaderSendsFrames ==
  ASSUME NEW m \in Frames
  PROVE  [i \in 1..Len(Channels(m)) |->
            [ch |-> Channels(m)[i], h |-> m.h, off |-> m.off, error |-> m.type = "error"]] \in Seq(Sends)
<1>0. m \in [type : {"ready", "data", "complete", "error"}, h : Requests, off : Nat]
  BY Zenon DEF Frames
<1>2. ASSUME NEW c \in {"ready", "data", "complete"}, m.type = c, Channels(m) = <<c>>
      PROVE  \A i \in 1..Len(Channels(m)) :
               [ch |-> Channels(m)[i], h |-> m.h, off |-> m.off, error |-> m.type = "error"] \in Sends
  BY <1>0, <1>2 DEF Frames, Sends
<1>3. ASSUME m.type = "error", Channels(m) = <<"ready", "complete">>
      PROVE  \A i \in 1..Len(Channels(m)) :
               [ch |-> Channels(m)[i], h |-> m.h, off |-> m.off, error |-> m.type = "error"] \in Sends
  <2>1. \A i \in 1..Len(Channels(m)) : Channels(m)[i] \in {"ready", "complete"}
    BY <1>3
  <2>2. \A c \in {"ready", "complete"} : [ch |-> c, h |-> m.h, off |-> m.off, error |-> TRUE] \in Sends
    BY Zenon, <1>0 DEF Sends
  <2>3. (m.type = "error") = TRUE
    BY Zenon, <1>3
  <2> QED
    BY Zenon, <2>1, <2>2, <2>3
<1>4. \/ Channels(m) = <<>>
      \/ \E c \in {"ready", "data", "complete"} : m.type = c /\ Channels(m) = <<c>>
      \/ m.type = "error" /\ Channels(m) = <<"ready", "complete">>
  BY Zenon, <1>0 DEF Channels
<1>5. Len(Channels(m)) \in Nat
  BY <1>4
<1>6. \A i \in 1..Len(Channels(m)) :
        [ch |-> Channels(m)[i], h |-> m.h, off |-> m.off, error |-> m.type = "error"] \in Sends
  <2>1. CASE Channels(m) = <<>>
    BY <2>1
  <2> QED
    BY Zenon, <2>1, <1>2, <1>3, <1>4
<1> QED
  BY <1>5, <1>6, BuiltQueue

\* Steps that touch the channels.
LEMMA ChannelStep ==
  ASSUME DownloadInv, [Next]_vars
  PROVE  ChannelTypes'
<1> USE DownloadAssumption
<1>t. /\ ready \in [Requests -> Seq(Answers)] /\ data \in [Requests -> Seq(0..(Size - 1))]
      /\ complete \in [Requests -> Seq(Answers)] /\ \A h \in Requests : complete[h] \in Seq(AnswersTo(h))
      /\ reader \in [0..MaxBreaks -> Seq(Sends)]
  BY Zenon DEF DownloadInv, ChannelTypes
<1>1. CASE UNCHANGED <<channels, reader>>
  BY Zenon, <1>1, <1>t DEF ChannelTypes, channels
<1>2. ASSUME NEW h \in Requests, Ready(h)
      PROVE  ChannelTypes'
  <2>1. Tail(ready[h]) \in Seq(Answers)
    BY <1>2, <1>t, TailQueue DEF Ready
  <2> QED
    BY Zenon, <1>2, <1>t, <2>1 DEF Ready, ChannelTypes
<1>3. ASSUME NEW h \in Requests, TakeData(h)
      PROVE  ChannelTypes'
  <2>1. Tail(data[h]) \in Seq(0..(Size - 1))
    BY <1>3, <1>t, TailQueue DEF TakeData
  <2> QED
    BY Zenon, <1>3, <1>t, <2>1 DEF TakeData, ChannelTypes
<1>4. ASSUME NEW h \in Requests, TakeComplete(h)
      PROVE  ChannelTypes'
  <2>1. Tail(complete[h]) \in Seq(Answers) /\ Tail(complete[h]) \in Seq(AnswersTo(h))
    BY <1>4, <1>t, TailQueue DEF TakeComplete
  <2> QED
    BY Zenon, <1>4, <1>t, <2>1 DEF TakeComplete, ChannelTypes
<1>5. CASE ReaderTakes
  <2>1. Head(uplink) \in Frames
    BY Zenon, <1>5, TailQueue DEF ReaderTakes, DownloadInv, LinkTypes
  <2>2. \E q \in Seq(Sends) : reader' = [reader EXCEPT ![epoch] = q]
    BY Zenon, <1>5, <2>1, ReaderSendsFrames DEF ReaderTakes
  <2> QED
    BY Zenon, <1>5, <2>2, <1>t DEF ReaderTakes, ChannelTypes, channels
<1>6. ASSUME NEW e \in 0..MaxBreaks, ReaderSends(e)
      PROVE  ChannelTypes'
  <2>1. PICK s \in Sends : s = Head(reader[e])
    BY <1>6, <1>t, TailQueue DEF ReaderSends
  <2>2. Tail(reader[e]) \in Seq(Sends)
    BY <1>6, <1>t, TailQueue DEF ReaderSends
  <2>3. reader' \in [0..MaxBreaks -> Seq(Sends)]
    BY Zenon, <1>6, <2>2, <1>t DEF ReaderSends
  <2>4. s.h \in Requests /\ Result(s) \in Answers /\ <<Result(s)>> \in Seq(Answers)
    BY <2>1 DEF Sends, Result, Answers
  <2>5. CASE ready' = [ready EXCEPT ![s.h] = <<Result(s)>>] /\ UNCHANGED <<data, complete>>
    BY Zenon, <2>3, <2>4, <2>5, <1>t DEF ChannelTypes
  <2>6. CASE s.ch = "data" /\ data' = [data EXCEPT ![s.h] = Append(@, s.off)] /\ UNCHANGED <<ready, complete>>
    <3>1. s.off \in 0..(Size - 1)
      BY <2>1, <2>6 DEF Sends
    <3>2. Append(data[s.h], s.off) \in Seq(0..(Size - 1))
      BY Zenon, <3>1, <2>4, <1>t, AppendQueue
    <3> QED
      BY Zenon, <2>3, <2>4, <2>6, <3>2, <1>t DEF ChannelTypes
  <2>7. CASE s.ch = "complete" /\ complete' = [complete EXCEPT ![s.h] = <<Result(s)>>] /\ UNCHANGED <<ready, data>>
    <3>1. Result(s) \in AnswersTo(s.h)
      BY Zenon, <2>1, <2>7, <2>4 DEF Sends, AnswersTo, Result
    <3>2. <<Result(s)>> \in Seq(AnswersTo(s.h))
      BY <3>1
    <3> QED
      BY Zenon, <2>3, <2>4, <2>7, <3>2, <1>t DEF ChannelTypes
  <2> QED
    BY Zenon, <2>1, <2>5, <2>6, <2>7, <1>6 DEF ReaderSends
<1>7. \/ UNCHANGED <<channels, reader>>
      \/ \E h \in Requests : Ready(h) \/ TakeData(h) \/ TakeComplete(h)
      \/ ReaderTakes
      \/ \E e \in 0..MaxBreaks : ReaderSends(e)
  BY ZenonT(30) DEF Next, vars, Handler, Begin, BeginPreview, PersistActive, Open, PersistResult, End, ClientGone,
     StreamDownload, StreamFails, AgentHandles, LinkBreaks, AgentReconnects
<1> QED
  BY Zenon, <1>1, <1>2, <1>3, <1>4, <1>5, <1>6, <1>7

\* Steps that touch the socket and the agent's streams.
LEMMA LinkStep ==
  ASSUME DownloadInv, [Next]_vars
  PROVE  LinkTypes'
<1> USE DownloadAssumption
<1>t. /\ down \in Seq(Orders) /\ uplink \in Seq(Frames)
      /\ DOMAIN stream = Requests /\ stream = [h \in Requests |-> stream[h]]
      /\ \A h \in Requests : stream[h] # None => stream[h] \in Streams(h)
      /\ off \in [Requests -> Nat] /\ upto \in [Requests -> Nat] /\ \A h \in Gets : upto[h] = Size
  BY Zenon DEF DownloadInv, LinkTypes, HandlerTypes
<1>s. ASSUME NEW h \in Requests, NEW x, x # None => x \in Streams(h), stream' = [stream EXCEPT ![h] = x]
      PROVE  /\ DOMAIN stream' = Requests /\ stream' = [k \in Requests |-> stream'[k]]
             /\ \A k \in Requests : stream'[k] # None => stream'[k] \in Streams(k)
  BY Zenon, <1>s, <1>t
<1>1. CASE UNCHANGED <<down, uplink, stream>>
  BY Zenon, <1>1, <1>t DEF LinkTypes
<1>2. ASSUME NEW h \in Requests, Open(h) \/ ClientGone(h)
      PROVE  LinkTypes'
  <2>1. down' = down \/ \E m \in Orders : down' = Append(down, m)
    BY Zenon, <1>2 DEF Open, ClientGone, Orders
  <2>2. down' \in Seq(Orders)
    <3>1. ASSUME NEW m \in Orders PROVE Append(down, m) \in Seq(Orders)
      BY Zenon, <1>t, AppendQueue
    <3> QED
      BY Zenon, <3>1, <2>1, <1>t
  <2>3. UNCHANGED <<uplink, stream>>
    BY Zenon, <1>2 DEF Open, ClientGone
  <2> QED
    BY Zenon, <2>2, <2>3, <1>t DEF LinkTypes
<1>3. CASE AgentHandles
  <2>0. Head(down) \in Orders
    BY Zenon, <1>3, <1>t, TailQueue DEF AgentHandles
  <2>1. PICK m \in Orders : m = Head(down) /\ m.h \in Requests
    BY Zenon, <2>0 DEF Orders
  <2>2. down' \in Seq(Orders)
    BY Zenon, <1>3, <1>t, TailQueue DEF AgentHandles
  <2>3. CASE m.type = "cancel" /\ stream' = [stream EXCEPT ![m.h] = None] /\ uplink' = uplink
    BY Zenon, <2>1, <2>2, <2>3, <1>t, <1>s DEF LinkTypes
  <2>4. CASE StartDownload(m.h)
    <3>1. CASE /\ uplink' = Append(uplink, [type |-> "ready", h |-> m.h, off |-> off[m.h]])
               /\ stream' = [stream EXCEPT ![m.h] =
                               [pos |-> off[m.h], end |-> IF upto[m.h] < Size THEN upto[m.h] ELSE Size]]
      <4>1. [type |-> "ready", h |-> m.h, off |-> off[m.h]] \in Frames
        BY Zenon, <2>1, <1>t DEF Frames
      <4>2. [pos |-> off[m.h], end |-> IF upto[m.h] < Size THEN upto[m.h] ELSE Size] \in Streams(m.h)
        BY <2>1, <1>t DEF Streams
      <4>3. uplink' \in Seq(Frames)
        BY Zenon, <3>1, <4>1, <1>t, AppendQueue
      <4> QED
        BY Zenon, <3>1, <4>2, <4>3, <2>1, <2>2, <1>s DEF LinkTypes
    <3>2. CASE uplink' = Append(uplink, [type |-> "error", h |-> m.h, off |-> 0]) /\ stream' = stream
      <4>1. [type |-> "error", h |-> m.h, off |-> 0] \in Frames
        BY Zenon, <2>1 DEF Frames
      <4>2. uplink' \in Seq(Frames)
        BY Zenon, <3>2, <4>1, <1>t, AppendQueue
      <4> QED
        BY Zenon, <3>2, <4>2, <2>2, <1>t DEF LinkTypes
    <3> QED
      BY Zenon, <2>4, <3>1, <3>2 DEF StartDownload
  <2> QED
    BY Zenon, <1>3, <2>1, <2>3, <2>4 DEF AgentHandles
<1>4. ASSUME NEW h \in Requests, StreamDownload(h) \/ StreamFails(h)
      PROVE  LinkTypes'
  <2>1. stream[h] \in Streams(h) /\ down' = down
    BY Zenon, <1>4, <1>t DEF StreamDownload, StreamFails
  <2>2. PICK m \in Frames : uplink' = Append(uplink, m)
    <3>1. stream[h].pos \in Nat /\ stream[h].end \in 0..Size /\ (h \in Gets => stream[h].end = Size)
      BY Zenon, <2>1 DEF Streams
    <3>2. stream[h].pos < stream[h].end => [type |-> "data", h |-> h, off |-> stream[h].pos] \in Frames
      BY <3>1 DEF Frames
    <3>3. [type |-> "complete", h |-> h, off |-> stream[h].end] \in Frames
      BY <3>1 DEF Frames
    <3>4. [type |-> "error", h |-> h, off |-> 0] \in Frames
      BY Zenon DEF Frames
    <3> QED
      BY Zenon, <1>4, <3>2, <3>3, <3>4 DEF StreamDownload, StreamFails
  <2>3. uplink' \in Seq(Frames)
    BY Zenon, <2>2, <1>t, AppendQueue
  <2>4. CASE stream' = [stream EXCEPT ![h] = None]
    BY Zenon, <2>1, <2>3, <2>4, <1>t, <1>s DEF LinkTypes
  <2>5. CASE stream' = [stream EXCEPT ![h].pos = @ + 1]
    <3>1. stream' = [stream EXCEPT ![h] = [stream[h] EXCEPT !.pos = @ + 1]]
      BY Zenon, <2>5
    <3>2. [stream[h] EXCEPT !.pos = @ + 1] \in Streams(h)
      BY <2>1 DEF Streams
    <3> QED
      BY Zenon, <2>1, <2>3, <3>1, <3>2, <1>t, <1>s DEF LinkTypes
  <2> QED
    BY Zenon, <1>4, <2>4, <2>5 DEF StreamDownload, StreamFails
<1>5. CASE ReaderTakes
  <2>1. uplink' \in Seq(Frames) /\ UNCHANGED <<down, stream>>
    BY Zenon, <1>5, <1>t, TailQueue DEF ReaderTakes
  <2> QED
    BY Zenon, <2>1, <1>t DEF LinkTypes
<1>6. CASE LinkBreaks
  BY Zenon, <1>6, EmptyQueue DEF LinkBreaks, LinkTypes
<1>7. \/ UNCHANGED <<down, uplink, stream>>
      \/ \E h \in Requests : Open(h) \/ ClientGone(h) \/ StreamDownload(h) \/ StreamFails(h)
      \/ AgentHandles \/ ReaderTakes \/ LinkBreaks
  BY ZenonT(30) DEF Next, vars, link, Handler, Begin, BeginPreview, PersistActive, Ready, TakeData, TakeComplete,
     PersistResult, End, ReaderSends, AgentReconnects
<1> QED
  BY Zenon, <1>1, <1>2, <1>3, <1>4, <1>5, <1>6, <1>7

\* Every step keeps the invariant.
LEMMA DownloadNext == DownloadInv /\ [Next]_vars => DownloadInv'
<1> SUFFICES ASSUME DownloadInv, [Next]_vars PROVE DownloadInv'
  OBVIOUS
<1>1. LeaseFollowsAttempt' /\ DownloadIsWhole' /\ HandlerTypes'
  <2>1. CASE UNCHANGED <<pc, off, upto, cur, pending, session>>
    BY Zenon, <2>1, NoHandlerMoves DEF DownloadInv, HandlerTypes
  <2>2. CASE \E h \in Requests : Begin(h) \/ BeginPreview(h) \/ Handler(h) \/ ClientGone(h)
    BY Zenon, <2>2, LeaseTaken, HandlerGoesOn DEF Handler
  <2> QED
    BY Zenon, <2>1, <2>2 DEF Next, vars, handler, lease, StreamDownload, StreamFails, AgentHandles,
       ReaderTakes, ReaderSends, LinkBreaks, AgentReconnects
<1> QED
  BY Zenon, <1>1, ChannelStep, LinkStep DEF DownloadInv

(* A download is reported complete only when the client has every chunk    *)
(* to the end of the file, and the session is active exactly while one GET *)
(* runs its attempt, for any number of requests, any size of the file and  *)
(* of the channels, and any number of lost connections (handleFileTransfer,*)
(* handleFilePreviewStream, streamDownload).                               *)
THEOREM DownloadsAreExact == Spec => []DownloadIsExact
<1>1. DownloadInv => DownloadIsExact
  BY Zenon DEF DownloadInv, DownloadIsExact
<1> QED
  BY <1>1, DownloadInit, DownloadNext, PTL DEF Spec
-----------------------------------------------------------------------------
(* Moves.                                                                  *)

Working == {"planning", "copying", "writing", "verifying", "verified", "deleting"}
Places == Working \cup {"none", "waiting", "reporting", "reported", "released", "ended"}
Results == {"none", "completed", "failed", "cancelled", "rollback_required"}
AttemptRecord == [at : Places, cancelled : BOOLEAN, conn : Nat, result : Results]

\* What the proofs need to know of the types.
MoveTypes ==
  /\ attempt \in [Attempts -> AttemptRecord]
  /\ started \in Nat /\ breaks \in Nat /\ restarts \in Nat
  /\ source \in {"present", "gone"}
  /\ dest \in {"absent", "partial", "complete"}
  /\ rolledBack \in BOOLEAN

\* A goroutine past the wait for the slot holds it until it has reported.
SlotHeld == \A k \in Attempts : attempt[k].at \in Working => slot = k

\* Nobody takes the source away from a goroutine that writes its copy.
WritesFromSource ==
  \A k \in Attempts : attempt[k].at = "writing" => source = "present"

\* What was verified stays whole while the goroutine has the slot: only a
\* rollback, which does not wait for the slot, deletes it.
VerifiedStays ==
  \A k \in Attempts :
    attempt[k].at \in {"verified", "deleting"} => dest = "complete" \/ rolledBack

CopyInv == MoveTypes /\ SlotHeld /\ WritesFromSource /\ VerifiedStays /\ CopySurvives

USE DEF Working, Places, Results

\* Attempts are numbered from one, so that slot 0 is nobody's.
LEMMA AttemptsPositive == \A k \in Attempts : k \in Nat /\ k # 0
<1>1. MaxAttempts \in Nat
  BY HandlersAssumption, FS_CardinalityType DEF MaxAttempts
<1> QED
  BY <1>1 DEF Attempts

\* A goroutine that moves on leaves the others alone.
LEMMA StepMoves ==
  ASSUME MoveTypes, NEW k \in Attempts, NEW s \in Places, Step(k, s)
  PROVE  /\ attempt' \in [Attempts -> AttemptRecord]
         /\ attempt'[k].at = s /\ attempt'[k].result = attempt[k].result
         /\ \A j \in Attempts : j # k => attempt'[j] = attempt[j]
<1>1. attempt' \in [Attempts -> AttemptRecord]
  BY DEF MoveTypes, AttemptRecord, Step
<1>2. attempt'[k].at = s /\ attempt'[k].result = attempt[k].result
  BY Zenon DEF MoveTypes, AttemptRecord, Step
<1>3. \A j \in Attempts : j # k => attempt'[j] = attempt[j]
  BY Zenon DEF MoveTypes, Step
<1> QED
  BY Zenon, <1>1, <1>2, <1>3

\* So does one that finishes.
LEMMA FinishMoves ==
  ASSUME MoveTypes, NEW k \in Attempts, NEW r \in Results, Finish(k, r)
  PROVE  /\ attempt' \in [Attempts -> AttemptRecord]
         /\ attempt'[k].at = "reporting" /\ attempt'[k].result = r
         /\ \A j \in Attempts : j # k => attempt'[j] = attempt[j]
<1> DEFINE last == [attempt[k] EXCEPT !.at = "reporting", !.result = r]
<1>1. attempt[k] \in AttemptRecord
  BY Zenon DEF MoveTypes
<1>2. last \in AttemptRecord /\ last.at = "reporting" /\ last.result = r
  BY Zenon, <1>1 DEF AttemptRecord
<1>3. attempt' = [attempt EXCEPT ![k] = last]
  BY Zenon DEF MoveTypes, Finish
<1> HIDE DEF last
<1>4. attempt' \in [Attempts -> AttemptRecord]
  BY Zenon, <1>2, <1>3 DEF MoveTypes
<1>5. attempt'[k] = last /\ \A j \in Attempts : j # k => attempt'[j] = attempt[j]
  BY Zenon, <1>3 DEF MoveTypes
<1> QED
  BY Zenon, <1>2, <1>4, <1>5

\* The records of goroutines that have not begun and that have ended.
LEMMA NoAttemptType ==
  /\ NoAttempt \in AttemptRecord /\ NoAttempt.at = "none" /\ NoAttempt.result = "none"
  /\ Ended \in AttemptRecord /\ Ended.at = "ended" /\ Ended.result = "none"
<1>1. NoAttempt \in AttemptRecord /\ NoAttempt.at = "none" /\ NoAttempt.result = "none"
  BY Zenon DEF NoAttempt, AttemptRecord
<1>2. Ended \in AttemptRecord /\ Ended.at = "ended" /\ Ended.result = "none"
  BY Zenon, <1>1 DEF Ended, AttemptRecord
<1> QED
  BY Zenon, <1>1, <1>2

\* No file has moved in the beginning.
LEMMA CopyInit == MoveInit => CopyInv
<1> SUFFICES ASSUME MoveInit PROVE CopyInv
  OBVIOUS
<1>1. MoveTypes
  BY Zenon, NoAttemptType DEF MoveInit, MoveTypes
<1>2. \A k \in Attempts : attempt[k].at = "none"
  BY Zenon, NoAttemptType DEF MoveInit
<1> QED
  BY Zenon, <1>1, <1>2 DEF MoveInit, CopyInv, SlotHeld, WritesFromSource, VerifiedStays,
     CopySurvives

\* Cancelling the registered attempt leaves every goroutine where it is.
LEMMA CancelKeeps ==
  ASSUME MoveTypes
  PROVE  /\ CancelRegistered \in [Attempts -> AttemptRecord]
         /\ \A k \in Attempts : /\ CancelRegistered[k].at = attempt[k].at
                                /\ CancelRegistered[k].result = attempt[k].result
  BY Zenon DEF MoveTypes, CancelRegistered, AttemptRecord

\* Steps that change neither disk nor slot and put no goroutine to work.
LEMMA CopyIdle ==
  ASSUME CopyInv, MoveTypes', UNCHANGED <<disk, slot>>,
         \A k \in Attempts : attempt'[k].at \in Working => attempt'[k].at = attempt[k].at
  PROVE  CopyInv'
  BY Zenon DEF CopyInv, SlotHeld, WritesFromSource, VerifiedStays, CopySurvives, disk

\* Every step of a move goroutine preserves the invariant.
LEMMA CopyAttempt ==
  ASSUME CopyInv, NEW k \in Attempts, AttemptStep(k)
  PROVE  CopyInv'
<1> USE StepMoves, FinishMoves DEF CopyInv, Quiet, disk
<1>1. CASE TakeSlot(k)
  BY <1>1, AttemptsPositive DEF TakeSlot, MoveTypes, SlotHeld, WritesFromSource, VerifiedStays, CopySurvives
<1>2. CASE WaitCancelled(k)
  BY <1>2 DEF WaitCancelled, MoveTypes, SlotHeld, WritesFromSource, VerifiedStays, CopySurvives
<1>3. CASE Rename(k)
  BY <1>3 DEF Rename, MoveTypes, SlotHeld, WritesFromSource, VerifiedStays, CopySurvives
<1>4. CASE Plan(k)
  BY <1>4 DEF Plan, MoveTypes, SlotHeld, WritesFromSource, VerifiedStays, CopySurvives
<1>5. CASE OpenFiles(k)
  BY <1>5 DEF OpenFiles, MoveTypes, SlotHeld, WritesFromSource, VerifiedStays, CopySurvives
<1>6. CASE Copy(k)
  BY <1>6 DEF Copy, MoveTypes, SlotHeld, WritesFromSource, VerifiedStays, CopySurvives
<1>7. CASE Verify(k)
  BY <1>7 DEF Verify, MoveTypes, SlotHeld, WritesFromSource, VerifiedStays, CopySurvives
<1>8. CASE CheckCancelled(k)
  BY <1>8 DEF CheckCancelled, MoveTypes, SlotHeld, WritesFromSource, VerifiedStays, CopySurvives
<1>9. CASE DeleteSource(k)
  BY Zenon, <1>9 DEF DeleteSource, MoveTypes, SlotHeld, WritesFromSource, VerifiedStays,
     CopySurvives
<1>10. CASE Report(k)
  BY <1>10 DEF Report, MoveTypes, SlotHeld, WritesFromSource, VerifiedStays, CopySurvives
<1>11. CASE ReleaseSlot(k)
  BY <1>11 DEF ReleaseSlot, MoveTypes, SlotHeld, WritesFromSource, VerifiedStays, CopySurvives
<1>12. CASE DeleteMove(k)
  <2>1. attempt' \in [Attempts -> AttemptRecord]
    BY Zenon, <1>12, NoAttemptType DEF DeleteMove, MoveTypes
  <2>2. attempt'[k].at = "ended" /\ \A j \in Attempts : j # k => attempt'[j] = attempt[j]
    BY Zenon, <1>12, NoAttemptType DEF DeleteMove, MoveTypes
  <2> QED
    BY Zenon, <1>12, <2>1, <2>2, CopyIdle DEF DeleteMove, MoveTypes
<1> QED
  BY Zenon, <1>1, <1>2, <1>3, <1>4, <1>5, <1>6, <1>7, <1>8, <1>9, <1>10, <1>11, <1>12 DEF
     AttemptStep

\* Every step preserves the invariant.
LEMMA CopyNext == CopyInv /\ [MoveNext]_moveVars => CopyInv'
<1> SUFFICES ASSUME CopyInv, [MoveNext]_moveVars PROVE CopyInv'
  OBVIOUS
<1>0. MoveTypes
  BY Zenon DEF CopyInv
<1>1. CASE AppStep \/ TimerStep \/ SocketStep
  <2>1. UNCHANGED <<agent, disk, breaks, restarts>>
    BY Zenon, <1>1 DEF AppStep, TimerStep, SocketStep, Submit, SubmitFails, Dispatch, MarkRunning,
       PendingTimeout, TimeoutJob, CloudReads, CloudUpdates, agent, disk, moveLink
  <2> QED
    BY Zenon, <1>0, <2>1, CopyIdle DEF MoveTypes, agent, disk
<1>2. ASSUME NEW h \in Handlers, HandlerStep(h) \/ \E kind \in {"cancel", "retry", "rollback"} : Request(h, kind)
      PROVE  CopyInv'
  <2>1. UNCHANGED <<agent, disk, breaks, restarts>>
    BY Zenon, <1>2 DEF HandlerStep, Request, UpdateFirst, Send, SendFails, RequestAbandoned,
       UpdateLast, agent, disk, moveLink
  <2> QED
    BY Zenon, <1>0, <2>1, CopyIdle DEF MoveTypes, agent, disk
<1>3. CASE StartMove
  <2> DEFINE new == [NoAttempt EXCEPT !.at = "waiting", !.conn = breaks + restarts]
  <2>0. breaks + restarts \in Nat
    BY <1>0 DEF MoveTypes
  <2>1. new \in AttemptRecord /\ new.at = "waiting" /\ new.result = "none"
    BY Zenon, <2>0 DEF AttemptRecord, NoAttempt
  <2>2. attempt' = [CancelRegistered EXCEPT ![started + 1] = new]
    BY Zenon, <1>3 DEF StartMove
  <2> HIDE DEF new
  <2>3. /\ attempt' \in [Attempts -> AttemptRecord]
        /\ \A k \in Attempts : attempt'[k].at \in {"waiting", attempt[k].at}
    BY Zenon, <1>0, <2>1, <2>2, CancelKeeps
  <2> QED
    BY <1>0, <1>3, <2>3, CopyIdle DEF StartMove, MoveTypes, disk
<1>4. CASE StartMoveFails \/ CancelMove
  BY <1>0, <1>4, CancelKeeps, CopyIdle DEF StartMoveFails, CancelMove, MoveTypes, disk
<1>5. CASE RollbackMove
  <2>1. /\ UNCHANGED <<agent, source, breaks, restarts>>
        /\ (dest' = "absent" /\ rolledBack' = TRUE) \/ UNCHANGED <<dest, rolledBack>>
    BY Zenon, <1>5 DEF RollbackMove
  <2> QED
    BY Zenon, <2>1 DEF agent, CopyInv, MoveTypes, SlotHeld, WritesFromSource, VerifiedStays,
       CopySurvives
<1>6. ASSUME NEW k \in Attempts, AttemptStep(k) PROVE CopyInv'
  BY Zenon, <1>6, CopyAttempt
<1>7. CASE ConnectionBreaks \/ CloudRestarts
  BY <1>0, <1>7, CopyIdle DEF ConnectionBreaks, CloudRestarts, MoveTypes, agent, disk
<1>8. CASE AgentCrashes
  <2>1. attempt' \in [Attempts -> AttemptRecord]
    BY Zenon, <1>8, NoAttemptType DEF AgentCrashes
  <2>2. \A k \in Attempts : attempt'[k].at \in {"none", "ended"}
    BY Zenon, <1>8, NoAttemptType DEF AgentCrashes
  <2> QED
    BY <1>0, <1>8, <2>1, <2>2
      DEF AgentCrashes, CopyInv, MoveTypes, SlotHeld, WritesFromSource, VerifiedStays, CopySurvives, disk
<1>9. CASE UNCHANGED moveVars
  BY Zenon, <1>0, <1>9, CopyIdle DEF moveVars, agent, disk, moveLink, MoveTypes
<1> QED
  BY Zenon, <1>1, <1>2, <1>3, <1>4, <1>5, <1>6, <1>7, <1>8, <1>9 DEF MoveNext, AgentStep

\* However often a move is retried, cancelled or interrupted, the file is
\* whole at one end until the agent executes a rollback.
THEOREM NoCopyLost == MoveSpec => []CopySurvives
<1>1. MoveInit => CopyInv
  BY Zenon, CopyInit
<1>2. CopyInv /\ [MoveNext]_moveVars => CopyInv'
  BY Zenon, CopyNext
<1>3. CopyInv => CopySurvives
  BY Zenon DEF CopyInv
<1> QED
  BY <1>1, <1>2, <1>3, PTL DEF MoveSpec

-----------------------------------------------------------------------------
(* "completed" travels from the goroutine that deleted the source over its *)
(* event, the queue and the read loop to the row.                          *)

Kinds == {"none", "cancel", "retry", "rollback"}
Steps == {"idle", "done", "read", "sending", "waiting", "answered", "refused"}
HandlerRecord == [kind : Kinds, at : Steps]
CommandMessage == [cmd : {"move", "cancel", "rollback", "none", "retry"}, from : Handlers \cup {"app"}]
CloudMessage ==
  [kind : {"response", "event"}, to : Handlers \cup {"app", Nil},
   status : Results \cup {"running", "rolled_back", "error"}]

QueueTypes ==
  /\ op \in [Handlers -> HandlerRecord]
  /\ toAgent \in Seq(CommandMessage)
  /\ toCloud \in Seq(CloudMessage)

\* Whoever says "completed" says it of a file that has left its source.
CompletedIsTrue ==
  /\ \A k \in Attempts : attempt[k].result = "completed" => source = "gone"
  /\ \A i \in 1 .. Len(toCloud) : toCloud[i].status = "completed" => source = "gone"
  /\ loop # Nil /\ loop.status = "completed" => source = "gone"

CompletedInv == CopyInv /\ QueueTypes /\ CompletedIsTrue /\ CompletedMeansMoved

USE DEF Kinds, Steps

\* Events of goroutines are messages.
LEMMA EventType ==
  ASSUME NEW r \in Results \cup {"running"}
  PROVE  Event(r) \in CloudMessage /\ Event(r).status = r
  BY Zenon DEF Event, CloudMessage

\* So are answers.
LEMMA ResponseType ==
  ASSUME NEW c \in CommandMessage, NEW r \in {"running", "rolled_back", "error"}
  PROVE  Response(c.from, r) \in CloudMessage /\ Response(c.from, r).status = r
  BY Zenon DEF Response, CloudMessage, CommandMessage

\* The beginning: nobody has said anything.
LEMMA CompletedInit == MoveInit => CompletedInv
<1> SUFFICES ASSUME MoveInit PROVE CompletedInv
  OBVIOUS
<1>1. CopyInv
  BY Zenon, CopyInit
<1>2. QueueTypes
  BY Zenon, EmptyQueue DEF MoveInit, QueueTypes, HandlerRecord, Idle
<1>3. CompletedIsTrue
  BY EmptyQueue, NoAttemptType DEF MoveInit, CompletedIsTrue
<1> QED
  BY Zenon, <1>1, <1>2, <1>3 DEF MoveInit, CompletedInv, CompletedMeansMoved

\* Steps in which nobody says "completed" anew.
LEMMA NothingSaid ==
  ASSUME CompletedInv, CopyInv', QueueTypes', source' = source,
         \A k \in Attempts : attempt'[k].result \in {attempt[k].result, "none"},
         toCloud' = toCloud \/ toCloud' = <<>>,
         loop' = loop \/ loop' = Nil,
         status' = status \/ status' # "completed"
  PROVE  CompletedInv'
<1>1. \A k \in Attempts : attempt'[k].result = "completed" => source' = "gone"
  BY Zenon DEF CompletedInv, CompletedIsTrue
<1>2. \A i \in 1 .. Len(toCloud') : toCloud'[i].status = "completed" => source' = "gone"
  BY EmptyQueue DEF CompletedInv, CompletedIsTrue
<1>3. loop' # Nil /\ loop'.status = "completed" => source' = "gone"
  BY Zenon DEF CompletedInv, CompletedIsTrue
<1>4. CompletedMeansMoved'
  BY Zenon DEF CompletedInv, CompletedMeansMoved
<1> QED
  BY Zenon, <1>1, <1>2, <1>3, <1>4 DEF CompletedInv, CompletedIsTrue

\* Steps of the agent, which may send a message that is true.
LEMMA TruthSaid ==
  ASSUME CompletedInv, CopyInv', source = "gone" => source' = "gone",
         NEW e \in CloudMessage, e.status = "completed" => source' = "gone",
         toCloud' = toCloud \/ toCloud' = Append(toCloud, e),
         \A k \in Attempts : attempt'[k].result = "completed" => attempt[k].result = "completed" \/ source' = "gone",
         toAgent' \in Seq(CommandMessage), UNCHANGED <<op, loop, status>>
  PROVE  CompletedInv'
<1>1. QueueTypes'
  BY Zenon, AppendQueue DEF CompletedInv, QueueTypes
<1>2. \A k \in Attempts : attempt'[k].result = "completed" => source' = "gone"
  BY Zenon DEF CompletedInv, CompletedIsTrue
<1>3. \A i \in 1 .. Len(toCloud') : toCloud'[i].status = "completed" => source' = "gone"
  BY AppendQueue DEF CompletedInv, CompletedIsTrue, QueueTypes
<1>4. loop' # Nil /\ loop'.status = "completed" => source' = "gone"
  BY Zenon DEF CompletedInv, CompletedIsTrue
<1>5. CompletedMeansMoved'
  BY Zenon DEF CompletedInv, CompletedMeansMoved
<1> QED
  BY Zenon, <1>1, <1>2, <1>3, <1>4, <1>5 DEF CompletedInv, CompletedIsTrue

\* A move goroutine says "completed" only after it has deleted or renamed the
\* source.
LEMMA CompletedAttempt ==
  ASSUME CompletedInv, CopyInv', NEW k \in Attempts, AttemptStep(k)
  PROVE  CompletedInv'
<1>0. /\ MoveTypes /\ toAgent \in Seq(CommandMessage)
      /\ attempt[k].result \in Results
      /\ attempt[k].result = "completed" => source = "gone"
  BY Zenon DEF CompletedInv, CopyInv, CompletedIsTrue, MoveTypes, AttemptRecord, QueueTypes
<1>1. /\ Event("running") \in CloudMessage /\ Event("running").status # "completed"
      /\ Event(attempt[k].result) \in CloudMessage /\ Event(attempt[k].result).status = attempt[k].result
  BY Zenon, <1>0, EventType
<1>a. ASSUME NEW s \in Places, Step(k, s)
      PROVE  \A j \in Attempts : attempt'[j].result = "completed" => attempt[j].result = "completed"
  <2>1. attempt'[k].result = attempt[k].result /\ \A j \in Attempts : j # k => attempt'[j] = attempt[j]
    BY Zenon, <1>0, <1>a, StepMoves
  <2> QED
    BY Zenon, <2>1
<1>b. ASSUME NEW r \in Results, Finish(k, r)
      PROVE  \A j \in Attempts : attempt'[j].result = "completed" => attempt[j].result = "completed" \/ r = "completed"
  <2>1. attempt'[k].result = r /\ \A j \in Attempts : j # k => attempt'[j] = attempt[j]
    BY Zenon, <1>0, <1>b, FinishMoves
  <2> QED
    BY Zenon, <2>1
<1>c. ASSUME UNCHANGED <<op, loop, status, toAgent, toCloud>>, source = "gone" => source' = "gone",
             \A j \in Attempts : attempt'[j].result = "completed" => attempt[j].result = "completed" \/ source' = "gone"
      PROVE  CompletedInv'
  BY Zenon, <1>0, <1>1, <1>c, TruthSaid
<1> USE DEF Quiet, cloud, disk
<1>2. CASE TakeSlot(k) \/ WaitCancelled(k) \/ OpenFiles(k) \/ Copy(k) \/ Verify(k) \/ CheckCancelled(k) \/ ReleaseSlot(k)
  <2>1. UNCHANGED <<op, loop, status, toAgent, toCloud, source>>
    BY Zenon, <1>2 DEF TakeSlot, WaitCancelled, OpenFiles, Copy, Verify, CheckCancelled, ReleaseSlot
  <2>2. \/ \E s \in Places : Step(k, s)
        \/ \E r \in Results : r # "completed" /\ Finish(k, r)
    BY Zenon, <1>2 DEF TakeSlot, WaitCancelled, OpenFiles, Copy, Verify, CheckCancelled, ReleaseSlot
  <2> QED
    BY Zenon, <1>a, <1>b, <1>c, <2>1, <2>2
<1>4. CASE Rename(k) \/ DeleteSource(k)
  <2>1. UNCHANGED <<op, loop, status, toAgent, toCloud>>
    BY Zenon, <1>4 DEF Rename, DeleteSource
  <2>2. \/ source' = "gone"
        \/ source' = source /\ \E r \in Results : r # "completed" /\ Finish(k, r)
    BY Zenon, <1>4 DEF Rename, DeleteSource
  <2> QED
    BY Zenon, <1>b, <1>c, <2>1, <2>2
<1>6. CASE Plan(k)
  <2>1. UNCHANGED <<op, loop, status, toAgent, source>>
    BY Zenon, <1>6 DEF Plan
  <2>2. toCloud' = toCloud \/ toCloud' = Append(toCloud, Event("running"))
    BY Zenon, <1>6 DEF Plan, Emit
  <2>3. Step(k, "copying") \/ Finish(k, "failed")
    BY Zenon, <1>6 DEF Plan
  <2>4. \A j \in Attempts : attempt'[j].result = "completed" => attempt[j].result = "completed"
    BY Zenon, <1>a, <1>b, <2>3
  <2> QED
    BY Zenon, <1>0, <1>1, <2>1, <2>2, <2>4, TruthSaid
<1>7. CASE Report(k)
  <2>1. UNCHANGED <<op, loop, status, toAgent, source>>
    BY Zenon, <1>7 DEF Report
  <2>2. toCloud' = toCloud \/ toCloud' = Append(toCloud, Event(attempt[k].result))
    BY Zenon, <1>7 DEF Report, Emit
  <2>4. \A j \in Attempts : attempt'[j].result = "completed" => attempt[j].result = "completed"
    BY Zenon, <1>a, <1>7 DEF Report
  <2> QED
    BY Zenon, <1>0, <1>1, <2>1, <2>2, <2>4, TruthSaid
<1>8. CASE DeleteMove(k)
  <2>1. attempt'[k].result = "none" /\ \A j \in Attempts : j # k => attempt'[j] = attempt[j]
    BY Zenon, <1>0, <1>8, NoAttemptType DEF DeleteMove, MoveTypes
  <2>2. UNCHANGED <<op, loop, status, toAgent, toCloud, source>>
    BY Zenon, <1>8 DEF DeleteMove
  <2> QED
    BY Zenon, <1>c, <2>1, <2>2
<1> QED
  BY Zenon, <1>2, <1>4, <1>6, <1>7, <1>8 DEF AttemptStep

\* The agent's read loop answers, and says nothing of completion.
LEMMA CompletedAgent ==
  ASSUME CompletedInv, CopyInv', AgentStep
  PROVE  CompletedInv'
<1> DEFINE c == Head(toAgent)
<1>0. MoveTypes /\ toAgent \in Seq(CommandMessage)
  BY Zenon DEF CompletedInv, CopyInv, QueueTypes
<1>1. toAgent # <<>>
  BY Zenon DEF AgentStep, StartMove, CancelMove, RollbackMove
<1>2. c \in CommandMessage /\ Tail(toAgent) \in Seq(CommandMessage)
  BY Zenon, <1>0, <1>1, TailQueue
<1> HIDE DEF c
<1>3. \A r \in {"running", "rolled_back", "error"} :
        Response(c.from, r) \in CloudMessage /\ Response(c.from, r).status # "completed"
  BY Zenon, <1>2, ResponseType
<1>4. CASE StartMove
  <2>1. \A k \in Attempts : attempt'[k].result \in {"none", attempt[k].result}
    <3> DEFINE new == [NoAttempt EXCEPT !.at = "waiting", !.conn = breaks + restarts]
    <3>1. new.result = "none"
      BY Zenon DEF NoAttempt
    <3>2. attempt' = [CancelRegistered EXCEPT ![started + 1] = new]
      BY Zenon, <1>4 DEF StartMove
    <3> HIDE DEF new
    <3> QED
      BY Zenon, <1>0, <3>1, <3>2, CancelKeeps
  <2>2. toCloud' = Append(toCloud, Response(c.from, "running"))
    BY Zenon, <1>4 DEF StartMove, c
  <2> QED
    BY Zenon, <1>2, <1>3, <1>4, <2>1, <2>2, TruthSaid DEF StartMove, cloud, disk
<1>5. CASE CancelMove
  BY Zenon, <1>0, <1>2, <1>3, <1>5, CancelKeeps, TruthSaid DEF CancelMove, cloud, disk
<1>6. CASE RollbackMove
  <2>1. \E r \in {"rolled_back", "error"} : toCloud' = Append(toCloud, Response(c.from, r))
    BY Zenon, <1>6 DEF RollbackMove, c
  <2>2. UNCHANGED <<cloud, agent, source>> /\ toAgent' = Tail(toAgent)
    BY Zenon, <1>6 DEF RollbackMove
  <2> QED
    BY Zenon, <1>2, <1>3, <2>1, <2>2, TruthSaid DEF cloud, agent
<1> QED
  BY Zenon, <1>4, <1>5, <1>6 DEF AgentStep

\* The requests' handlers write no "completed".
LEMMA CompletedHandler ==
  ASSUME CompletedInv, CopyInv', NEW h \in Handlers,
         HandlerStep(h) \/ \E kind \in {"cancel", "retry", "rollback"} : Request(h, kind)
  PROVE  CompletedInv'
<1>0. op \in [Handlers -> HandlerRecord] /\ toAgent \in Seq(CommandMessage)
  BY Zenon DEF CompletedInv, QueueTypes
<1>1. \A st \in Steps : StepTo(h, st) => op' \in [Handlers -> HandlerRecord]
  BY <1>0 DEF StepTo, HandlerRecord
<1>2. Leave(h) => op' \in [Handlers -> HandlerRecord]
  BY <1>0 DEF Leave, HandlerRecord, Done
<1>3. CASE \E kind \in {"cancel", "retry", "rollback"} : Request(h, kind)
  <2>1. op' \in [Handlers -> HandlerRecord]
    BY <1>0, <1>3 DEF Request, HandlerRecord
  <2> QED
    BY Zenon, <1>3, <2>1, NothingSaid DEF Request, moveLink, agent, disk, CompletedInv, QueueTypes
<1>4. CASE UpdateFirst(h)
  BY Zenon, <1>1, <1>4, NothingSaid DEF UpdateFirst, moveLink, agent, disk, CompletedInv, QueueTypes
<1>5. CASE Send(h)
  <2> DEFINE c == Command(IF op[h].kind = "retry" THEN "move" ELSE op[h].kind, h)
  <2>1. c \in CommandMessage
    BY Zenon, <1>0 DEF Command, CommandMessage, HandlerRecord
  <2>2. toAgent' = Append(toAgent, c)
    BY Zenon, <1>5 DEF Send
  <2> HIDE DEF c
  <2>3. toAgent' \in Seq(CommandMessage)
    BY Zenon, <1>0, <2>1, <2>2, AppendQueue
  <2> QED
    BY Zenon, <1>1, <1>2, <1>5, <2>3, NothingSaid DEF Send, agent, disk, CompletedInv, QueueTypes
<1>6. CASE SendFails(h) \/ RequestAbandoned(h)
  BY Zenon, <1>1, <1>2, <1>6, NothingSaid DEF SendFails, RequestAbandoned, moveLink, agent, disk,
     CompletedInv, QueueTypes
<1>7. CASE UpdateLast(h)
  BY Zenon, <1>2, <1>7, NothingSaid DEF UpdateLast, moveLink, agent, disk, CompletedInv, QueueTypes
<1> QED
  BY Zenon, <1>3, <1>4, <1>5, <1>6, <1>7 DEF HandlerStep

\* The read loop of the agent's socket takes a message and writes what it says.
LEMMA CompletedSocket ==
  ASSUME CompletedInv, CopyInv', SocketStep
  PROVE  CompletedInv'
<1>0. /\ op \in [Handlers -> HandlerRecord] /\ toCloud \in Seq(CloudMessage)
      /\ toAgent \in Seq(CommandMessage)
  BY Zenon DEF CompletedInv, QueueTypes
<1>1. CASE CloudReads
  <2> DEFINE m == Head(toCloud)
  <2>1. toCloud # <<>> /\ toCloud' = Tail(toCloud) /\ (loop' = m \/ loop' = Nil)
    BY Zenon, <1>1 DEF CloudReads
  <2>2. UNCHANGED <<status, attempt, source, toAgent>>
    BY Zenon, <1>1 DEF CloudReads, agent, disk
  <2>3. toCloud' \in Seq(CloudMessage) /\ m = toCloud[1] /\ 1 \in 1 .. Len(toCloud)
    BY Zenon, <1>0, <2>1, TailQueue
  <2>4. op' \in [Handlers -> HandlerRecord]
    BY <1>0, <1>1 DEF CloudReads, HandlerRecord
  <2> HIDE DEF m
  <2>5. \A i \in 1 .. Len(toCloud') : toCloud'[i].status = "completed" => source' = "gone"
    BY Zenon, <1>0, <2>1, <2>2, TailQueue DEF CompletedInv, CompletedIsTrue
  <2>6. loop' # Nil /\ loop'.status = "completed" => source' = "gone"
    BY Zenon, <2>1, <2>2, <2>3 DEF CompletedInv, CompletedIsTrue
  <2> QED
    BY Zenon, <1>0, <2>2, <2>3, <2>4, <2>5, <2>6 DEF CompletedInv, CompletedIsTrue, QueueTypes,
       CompletedMeansMoved
<1>2. CASE CloudUpdates
  BY Zenon, <1>0, <1>2 DEF CloudUpdates, moveLink, agent, disk, CompletedInv, CompletedIsTrue,
     QueueTypes, CompletedMeansMoved
<1> QED
  BY Zenon, <1>1, <1>2 DEF SocketStep

\* Every step preserves the invariant.
LEMMA CompletedNext == CompletedInv /\ [MoveNext]_moveVars => CompletedInv'
<1> SUFFICES ASSUME CompletedInv, [MoveNext]_moveVars PROVE CompletedInv'
  OBVIOUS
<1>0. CopyInv' /\ MoveTypes
  BY Zenon, CopyNext DEF CompletedInv, CopyInv
<1>1. CASE Submit \/ SubmitFails \/ MarkRunning \/ TimerStep
  BY Zenon, <1>0, <1>1, NothingSaid DEF Submit, SubmitFails, MarkRunning, TimerStep, PendingTimeout,
     TimeoutJob, moveLink, agent, disk, CompletedInv, QueueTypes
<1>2. CASE Dispatch
  <2>1. Command("move", "app") \in CommandMessage
    BY Zenon DEF Command, CommandMessage
  <2>2. toAgent' \in Seq(CommandMessage)
    BY Zenon, <1>2, <2>1, AppendQueue DEF Dispatch, CompletedInv, QueueTypes
  <2> QED
    BY Zenon, <1>0, <1>2, <2>2, NothingSaid DEF Dispatch, agent, disk, CompletedInv, QueueTypes
<1>3. CASE SocketStep
  BY Zenon, <1>0, <1>3, CompletedSocket
<1>4. ASSUME NEW h \in Handlers,
             HandlerStep(h) \/ \E kind \in {"cancel", "retry", "rollback"} : Request(h, kind)
      PROVE  CompletedInv'
  BY Zenon, <1>0, <1>4, CompletedHandler
<1>5. CASE AgentStep
  BY Zenon, <1>0, <1>5, CompletedAgent
<1>6. ASSUME NEW k \in Attempts, AttemptStep(k) PROVE CompletedInv'
  BY Zenon, <1>0, <1>6, CompletedAttempt
<1>7. CASE StartMoveFails
  BY Zenon, <1>0, <1>7, CancelKeeps, EmptyQueue, NothingSaid DEF StartMoveFails, cloud, disk,
     CompletedInv, QueueTypes
<1>8. CASE ConnectionBreaks
  BY Zenon, <1>0, <1>8, EmptyQueue, NothingSaid DEF ConnectionBreaks, cloud, agent, disk,
     CompletedInv, QueueTypes
<1>9. CASE AgentCrashes
  <2>1. \A k \in Attempts : attempt'[k].result = "none"
    BY Zenon, <1>9, NoAttemptType DEF AgentCrashes
  <2> QED
    BY Zenon, <1>0, <1>9, <2>1, EmptyQueue, NothingSaid DEF AgentCrashes, cloud, disk, CompletedInv,
       QueueTypes
<1>10. CASE CloudRestarts
  <2>1. op' \in [Handlers -> HandlerRecord]
    BY Zenon, <1>10 DEF CloudRestarts, HandlerRecord, Idle, Done
  <2> QED
    BY Zenon, <1>0, <1>10, <2>1, EmptyQueue, NothingSaid DEF CloudRestarts, agent, disk,
       CompletedInv, QueueTypes
<1>11. CASE UNCHANGED moveVars
  BY Zenon, <1>0, <1>11, NothingSaid DEF moveVars, cloud, moveLink, agent, disk, CompletedInv,
     QueueTypes
<1> QED
  BY <1>1, <1>2, <1>3, <1>4, <1>5, <1>6, <1>7, <1>8, <1>9, <1>10, <1>11 DEF MoveNext, AppStep

\* The row says "completed" only of a file that has left its source, whatever
\* events were late, lost or overtaken.
THEOREM CompletedIsMoved == MoveSpec => []CompletedMeansMoved
<1>1. MoveInit => CompletedInv
  BY Zenon, CompletedInit
<1>2. CompletedInv /\ [MoveNext]_moveVars => CompletedInv'
  BY Zenon, CompletedNext
<1>3. CompletedInv => CompletedMeansMoved
  BY Zenon DEF CompletedInv
<1> QED
  BY <1>1, <1>2, <1>3, PTL DEF MoveSpec

=============================================================================

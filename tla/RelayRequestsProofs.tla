------------------------ MODULE RelayRequestsProofs ------------------------
(***************************************************************************)
(* A relayed command is settled once, for any number of commands, apps,    *)
(* request IDs, shells and restarts.                                       *)
(***************************************************************************)
EXTENDS RelayRequests, TLAPS

Early == {"unused", "authorized", "refused", "created", "acquired", "rejecting"}
Admitted == {"created", "acquired", "rejecting", "failing", "inserted", "broken",
             "resolving", "written"}
Stages == Early \cup Admitted \cup {"done", "cut"}
Expiring == {"claimed", "released", "expiring"}
TimerOn == {"armed", "fired"} \cup Expiring
Timers == TimerOn \cup {"none", "stopped", "over"}
Rows == {"none", "pending", "sent", "completed", "failed", "timed_out"}
FromAgent == {"result", "agent_error"}
Kinds == FromAgent \cup {"error", "timeout"}

\* What the constants must satisfy.
Constants == IsFiniteSet(Commands) /\ None \notin Commands /\ None \notin Shells

Types ==
  /\ stage \in [Commands -> Stages]
  /\ cmd \in [Commands -> [app : Apps \cup {None}, id : Requests \cup {None}, op : Ops,
                           shell : Shells \cup {None}]]
  /\ pendingByID \in [Requests -> Commands \cup {None}]
  /\ timer \in [Commands -> Timers]
  /\ victim \in [Commands -> Commands \cup {None}]
  /\ inFlight \in [Apps -> Nat]
  /\ row \in [Requests -> Rows]
  /\ shells \in [Shells -> Commands \cup {None}]
  /\ toAgent \subseteq Commands
  /\ toCloud \subseteq [id : Requests, ok : BOOLEAN]
  /\ loop \in [at : {"idle", "shell", "row"}, of : Commands \cup {None}, ok : BOOLEAN]
  /\ loop.at = "idle" <=> loop.of = None
  /\ answers \in [Commands -> SUBSET Kinds]
  /\ \A p \in Commands : stage[p] # "unused" => cmd[p].id \in Requests /\ cmd[p].app \in Apps

\* Something in the process or on the link still concerns p under its ID.
Concerns(p) == stage[p] \in Admitted \/ timer[p] \in TimerOn \/ p \in toAgent \/ loop.of = p

\* The row outlives whatever concerns its ID, so that no second command is
\* admitted under it.
RowGuards ==
  /\ \A p \in Commands : Concerns(p) => stage[p] # "unused" /\ row[cmd[p].id] # "none"
  /\ \A m \in toCloud : row[m.id] # "none"
OneConcern ==
  \A p, q \in Commands : Concerns(p) /\ Concerns(q) /\ cmd[p].id = cmd[q].id => p = q

\* What the agent answers was written to it.
AnswersToWritten ==
  /\ \A p \in toAgent : stage[p] \in {"written", "done"}
  /\ \A m \in toCloud, p \in Commands :
       Concerns(p) /\ cmd[p].id = m.id => stage[p] \in {"written", "done"}

\* A command is with the map, with its timer's goroutine or with the agent's
\* read loop, and not answered before it is with one of them.
EarlyState ==
  \A p \in Commands : stage[p] \in Early => timer[p] = "none" /\ answers[p] = {}
PendingState ==
  \A r \in Requests, p \in Commands : pendingByID[r] = p =>
    /\ cmd[p].id = r /\ timer[p] \in {"armed", "fired"}
    /\ stage[p] \in {"inserted", "broken", "resolving", "written", "done"}
    /\ answers[p] = {} /\ loop.of # p
TimerState ==
  \A p \in Commands :
    /\ victim[p] \in {None, p}
    /\ timer[p] \in Expiring => /\ victim[p] = p /\ loop.of # p
                                /\ answers[p] \cap FromAgent = {}
LoopState ==
  \A p \in Commands : loop.of = p => stage[p] \in {"written", "done"} /\ answers[p] = {}
AgentAnswered ==
  \A p \in Commands : answers[p] \cap FromAgent # {} =>
    stage[p] \in {"written", "done"} /\ \E kind \in FromAgent : answers[p] = {kind}

\* An open that holds its session has not been failed, and is not about to be.
ShellState ==
  \A s \in Shells, p \in Commands : shells[s] = p =>
    /\ cmd[p].op = "open" /\ cmd[p].shell = s
    /\ stage[p] \notin {"unused", "resolving", "failing"} /\ timer[p] # "expiring"
    /\ loop.of = p /\ loop.at = "row" => loop.ok
    /\ answers[p] \subseteq {"result"}

SettleInv ==
  /\ Types /\ RowGuards /\ OneConcern /\ AnswersToWritten /\ EarlyState /\ PendingState
  /\ TimerState /\ LoopState /\ AgentAnswered /\ ShellState

USE DEF Early, Admitted, Stages, Expiring, TimerOn, Timers, Rows, FromAgent, Kinds, Ops

-----------------------------------------------------------------------------
LEMMA ResolveTypes ==
  ASSUME Constants, SettleInv, NEW r \in Requests, pendingByID[r] # None, ResolvePending(r)
  PROVE  /\ inFlight' \in [Apps -> Nat] /\ timer' \in [Commands -> Timers]
         /\ pendingByID' \in [Requests -> Commands \cup {None}]
<1>1. pendingByID[r] \in Commands /\ cmd[pendingByID[r]].app \in Apps
  BY DEF SettleInv, Types, PendingState
<1>2. inFlight' \in [Apps -> Nat]
  BY <1>1 DEF SettleInv, Types, ResolvePending, Release
<1>3. timer' \in [Commands -> Timers] /\ pendingByID' \in [Requests -> Commands \cup {None}]
  BY Zenon, <1>1 DEF SettleInv, Types, ResolvePending
<1> QED
  BY Zenon, <1>2, <1>3

LEMMA ReceiveKeeps ==
  ASSUME Constants, SettleInv, NEW p \in Commands, NEW a \in Apps, NEW r \in Requests, NEW op \in Ops, NEW s \in Shells \cup {None}, Receive(p, a, r, op, s)
  PROVE  SettleInv'
<1>1. Types'
  BY Zenon DEF SettleInv, Types, Receive, MoveTo, ShellAllowed
<1>2. RowGuards'
  BY DEF SettleInv, RowGuards, Concerns, Receive, MoveTo
<1>3. OneConcern'
  BY DEF SettleInv, OneConcern, Concerns, RowGuards, Receive, MoveTo
<1>4. AnswersToWritten'
  BY DEF SettleInv, AnswersToWritten, Concerns, RowGuards, Receive, MoveTo
<1>5. EarlyState'
  BY DEF SettleInv, EarlyState, Receive, MoveTo
<1>6. PendingState'
  BY DEF SettleInv, PendingState, Receive, MoveTo
<1>7. TimerState'
  BY Zenon DEF SettleInv, TimerState, Receive
<1>8. LoopState'
  BY DEF SettleInv, LoopState, Receive, MoveTo
<1>9. AgentAnswered'
  BY DEF SettleInv, AgentAnswered, Receive, MoveTo
<1>10. ShellState'
  BY DEF SettleInv, Types, ShellState, EarlyState, LoopState, Receive, MoveTo
<1> QED
  BY Zenon, <1>1, <1>2, <1>3, <1>4, <1>5, <1>6, <1>7, <1>8, <1>9, <1>10 DEF SettleInv

LEMMA CreateRelayRequestKeeps ==
  ASSUME Constants, SettleInv, NEW p \in Commands, CreateRelayRequest(p)
  PROVE  SettleInv'
<1>1. Types'
  <2>1. cmd[p].id \in Requests
    BY Zenon DEF SettleInv, Types, CreateRelayRequest
  <2>2. stage' \in [Commands -> Stages] /\ row' \in [Requests -> Rows]
    BY ZenonT(60), <2>1 DEF SettleInv, Types, CreateRelayRequest, MoveTo
  <2>3. stage[p] # "unused" /\ \A q \in Commands : q # p => stage'[q] = stage[q]
    BY DEF SettleInv, Types, CreateRelayRequest, MoveTo
  <2> QED
    BY Zenon, <2>2, <2>3 DEF SettleInv, Types, CreateRelayRequest
<1>2. RowGuards'
  BY DEF SettleInv, Types, RowGuards, Concerns, CreateRelayRequest, MoveTo
<1>3. OneConcern'
  BY DEF SettleInv, Types, OneConcern, Concerns, RowGuards, CreateRelayRequest, MoveTo
<1>4. AnswersToWritten'
  <2>1. UNCHANGED <<cmd, timer, toAgent, toCloud, loop>> /\ stage[p] = "authorized"
        /\ \A q \in Commands : q # p => stage'[q] = stage[q]
    BY DEF SettleInv, Types, CreateRelayRequest, MoveTo
  <2>2. p \notin toAgent
    BY Zenon, <2>1 DEF SettleInv, AnswersToWritten
  <2>3. \A q \in Commands : q # p => (Concerns(q)' <=> Concerns(q))
    BY Zenon, <2>1 DEF Concerns
  <2>4. stage'[p] = "refused" \/ (stage'[p] = "created" /\ row[cmd[p].id] = "none")
    BY Zenon DEF SettleInv, Types, CreateRelayRequest, MoveTo
  <2>5. stage'[p] = "refused" => ~Concerns(p)'
    BY Zenon, <2>1, <2>2 DEF Concerns, SettleInv, EarlyState, LoopState
  <2>6. row[cmd[p].id] = "none" => \A m \in toCloud : m.id # cmd[p].id
    BY Zenon DEF SettleInv, RowGuards
  <2>7. \A q \in toAgent : q \in Commands /\ q # p /\ stage[q] \in {"written", "done"}
    BY Zenon, <2>2 DEF SettleInv, Types, AnswersToWritten
  <2>8. \A m \in toCloud, q \in Commands :
          Concerns(q) /\ cmd[q].id = m.id => stage[q] \in {"written", "done"}
    BY Zenon DEF SettleInv, AnswersToWritten
  <2> QED
    BY Zenon, <2>1, <2>3, <2>4, <2>5, <2>6, <2>7, <2>8 DEF AnswersToWritten
<1>5. EarlyState'
  BY DEF SettleInv, Types, EarlyState, CreateRelayRequest, MoveTo
<1>6. PendingState'
  BY DEF SettleInv, Types, PendingState, CreateRelayRequest, MoveTo
<1>7. TimerState'
  BY Zenon DEF SettleInv, TimerState, CreateRelayRequest, MoveTo
<1>8. LoopState'
  BY DEF SettleInv, Types, LoopState, CreateRelayRequest, MoveTo
<1>9. AgentAnswered'
  BY DEF SettleInv, Types, AgentAnswered, CreateRelayRequest, MoveTo
<1>10. ShellState'
  BY DEF SettleInv, Types, ShellState, CreateRelayRequest, MoveTo
<1> QED
  BY Zenon, <1>1, <1>2, <1>3, <1>4, <1>5, <1>6, <1>7, <1>8, <1>9, <1>10 DEF SettleInv

LEMMA RefuseKeeps ==
  ASSUME Constants, SettleInv, NEW p \in Commands, Refuse(p)
  PROVE  SettleInv'
<1>1. Types'
  BY DEF SettleInv, Types, Refuse, MoveTo, Answer, CompleteShell
<1>2. RowGuards'
  BY DEF SettleInv, Types, RowGuards, Concerns, Refuse, MoveTo
<1>3. OneConcern'
  BY DEF SettleInv, Types, OneConcern, Concerns, Refuse, MoveTo
<1>4. AnswersToWritten'
  BY DEF SettleInv, Types, AnswersToWritten, Concerns, Refuse, MoveTo
<1>5. EarlyState'
  BY Zenon DEF SettleInv, Types, EarlyState, Refuse, MoveTo, Answer
<1>6. PendingState'
  BY DEF SettleInv, Types, PendingState, Refuse, MoveTo, Answer
<1>7. TimerState'
  BY DEF SettleInv, TimerState, Refuse, Answer
<1>8. LoopState'
  BY DEF SettleInv, LoopState, Refuse, MoveTo, Answer
<1>9. AgentAnswered'
  BY DEF SettleInv, AgentAnswered, Refuse, MoveTo, Answer
<1>10. ShellState'
  BY DEF SettleInv, Types, ShellState, Refuse, MoveTo, Answer, CompleteShell, Constants
<1> QED
  BY Zenon, <1>1, <1>2, <1>3, <1>4, <1>5, <1>6, <1>7, <1>8, <1>9, <1>10 DEF SettleInv

LEMMA AcquireKeeps ==
  ASSUME Constants, SettleInv, NEW p \in Commands, Acquire(p)
  PROVE  SettleInv'
<1>1. Types'
  <2>1. cmd[p].app \in Apps /\ stage[p] # "unused"
    BY Zenon DEF SettleInv, Types, Acquire
  <2>2. stage' \in [Commands -> Stages] /\ \A q \in Commands : q # p => stage'[q] = stage[q]
    BY SMTT(30) DEF SettleInv, Types, Acquire, MoveTo
  <2>3. inFlight' \in [Apps -> Nat]
    BY <2>1 DEF SettleInv, Types, Acquire
  <2> QED
    BY Zenon, <2>1, <2>2, <2>3 DEF SettleInv, Types, Acquire
<1>2. RowGuards'
  BY DEF SettleInv, Types, RowGuards, Concerns, Acquire, MoveTo
<1>3. OneConcern'
  BY DEF SettleInv, Types, OneConcern, Concerns, Acquire, MoveTo
<1>4. AnswersToWritten'
  <2>1. UNCHANGED <<cmd, toAgent, toCloud, loop>> /\ stage[p] = "created"
        /\ \A q \in Commands : q # p => stage'[q] = stage[q] /\ timer'[q] = timer[q]
    BY Zenon DEF SettleInv, Types, Acquire, MoveTo
  <2>2. p \notin toAgent /\ Concerns(p)
    BY Zenon, <2>1 DEF SettleInv, AnswersToWritten, Concerns
  <2>3. \A m \in toCloud : m.id # cmd[p].id
    BY Zenon, <2>1, <2>2 DEF SettleInv, AnswersToWritten
  <2>4. \A q \in Commands : q # p => (Concerns(q)' <=> Concerns(q))
    BY Zenon, <2>1 DEF Concerns
  <2> QED
    BY <2>1, <2>2, <2>3, <2>4 DEF SettleInv, Types, AnswersToWritten
<1>5. EarlyState'
  BY DEF SettleInv, Types, EarlyState, Acquire, MoveTo
<1>6. PendingState'
  BY DEF SettleInv, Types, PendingState, Acquire, MoveTo
<1>7. TimerState'
  BY Zenon DEF SettleInv, Types, TimerState, Acquire, MoveTo
<1>8. LoopState'
  BY DEF SettleInv, Types, LoopState, Acquire, MoveTo
<1>9. AgentAnswered'
  BY DEF SettleInv, Types, AgentAnswered, Acquire, MoveTo
<1>10. ShellState'
  BY DEF SettleInv, Types, ShellState, Acquire, MoveTo
<1> QED
  BY Zenon, <1>1, <1>2, <1>3, <1>4, <1>5, <1>6, <1>7, <1>8, <1>9, <1>10 DEF SettleInv

LEMMA InsertKeeps ==
  ASSUME Constants, SettleInv, NEW p \in Commands, Insert(p)
  PROVE  SettleInv'
<1>1. Types'
  <2>1. cmd[p].app \in Apps /\ cmd[p].id \in Requests /\ stage[p] # "unused"
    BY Zenon DEF SettleInv, Types, Insert
  <2>2. stage' \in [Commands -> Stages] /\ \A q \in Commands : q # p => stage'[q] = stage[q]
    BY ZenonT(60) DEF SettleInv, Types, Insert, MoveTo
  <2>3. inFlight' \in [Apps -> Nat]
    BY <2>1 DEF SettleInv, Types, Insert, Release
  <2>4. pendingByID' \in [Requests -> Commands \cup {None}]
    BY <2>1 DEF SettleInv, Types, Insert
  <2>5. timer' \in [Commands -> Timers]
    BY Zenon DEF SettleInv, Types, Insert, SetTimer
  <2> QED
    BY Zenon, <2>1, <2>2, <2>3, <2>4, <2>5 DEF SettleInv, Types, Insert
<1>2. RowGuards'
  BY DEF SettleInv, Types, RowGuards, Concerns, Insert, MoveTo, SetTimer
<1>3. OneConcern'
  BY DEF SettleInv, Types, OneConcern, Concerns, RowGuards, Insert, MoveTo, SetTimer
<1>4. AnswersToWritten'
  <2>1. UNCHANGED <<cmd, toAgent, toCloud, loop>> /\ stage[p] = "acquired"
        /\ \A q \in Commands : q # p => stage'[q] = stage[q] /\ timer'[q] = timer[q]
    BY DEF SettleInv, Types, Insert, MoveTo, SetTimer
  <2>2. p \notin toAgent /\ Concerns(p)
    BY Zenon, <2>1 DEF SettleInv, AnswersToWritten, Concerns
  <2>3. \A m \in toCloud : m.id # cmd[p].id
    BY Zenon, <2>1, <2>2 DEF SettleInv, AnswersToWritten
  <2>4. \A q \in Commands : q # p => (Concerns(q)' <=> Concerns(q))
    BY Zenon, <2>1 DEF Concerns
  <2> QED
    BY <2>1, <2>2, <2>3, <2>4 DEF SettleInv, Types, AnswersToWritten
<1>5. EarlyState'
  BY DEF SettleInv, Types, EarlyState, Insert, MoveTo, SetTimer
<1>6. PendingState'
  BY DEF SettleInv, Types, PendingState, EarlyState, TimerState, LoopState, Insert, MoveTo, SetTimer
<1>7. TimerState'
  BY DEF SettleInv, Types, TimerState, Insert, MoveTo, SetTimer
<1>8. LoopState'
  BY DEF SettleInv, Types, LoopState, Insert, MoveTo
<1>9. AgentAnswered'
  BY DEF SettleInv, Types, AgentAnswered, Insert, MoveTo
<1>10. ShellState'
  BY DEF SettleInv, Types, ShellState, Insert, MoveTo, SetTimer
<1> QED
  BY Zenon, <1>1, <1>2, <1>3, <1>4, <1>5, <1>6, <1>7, <1>8, <1>9, <1>10 DEF SettleInv

LEMMA RejectKeeps ==
  ASSUME Constants, SettleInv, NEW p \in Commands, Reject(p)
  PROVE  SettleInv'
<1>1. Types'
  BY DEF SettleInv, Types, Reject, MoveTo, CompleteShell
<1>2. RowGuards'
  BY DEF SettleInv, Types, RowGuards, Concerns, Reject, MoveTo
<1>3. OneConcern'
  BY DEF SettleInv, Types, OneConcern, Concerns, Reject, MoveTo
<1>4. AnswersToWritten'
  BY DEF SettleInv, Types, AnswersToWritten, Concerns, Reject, MoveTo
<1>5. EarlyState'
  BY Zenon DEF SettleInv, Types, EarlyState, Reject, MoveTo
<1>6. PendingState'
  BY DEF SettleInv, Types, PendingState, Reject, MoveTo
<1>7. TimerState'
  BY Zenon DEF SettleInv, Types, TimerState, Reject, MoveTo
<1>8. LoopState'
  BY DEF SettleInv, Types, LoopState, Reject, MoveTo
<1>9. AgentAnswered'
  BY DEF SettleInv, Types, AgentAnswered, Reject, MoveTo
<1>10. ShellState'
  BY DEF SettleInv, Types, ShellState, Reject, MoveTo, CompleteShell, Constants
<1> QED
  BY Zenon, <1>1, <1>2, <1>3, <1>4, <1>5, <1>6, <1>7, <1>8, <1>9, <1>10 DEF SettleInv

LEMMA WriteToAgentKeeps ==
  ASSUME Constants, SettleInv, NEW p \in Commands, WriteToAgent(p)
  PROVE  SettleInv'
<1>1. Types'
  BY Zenon DEF SettleInv, Types, WriteToAgent, MoveTo
<1>2. RowGuards'
  BY DEF SettleInv, Types, RowGuards, Concerns, WriteToAgent, MoveTo
<1>3. OneConcern'
  BY DEF SettleInv, Types, OneConcern, Concerns, WriteToAgent, MoveTo
<1>4. AnswersToWritten'
  BY DEF SettleInv, Types, AnswersToWritten, Concerns, WriteToAgent, MoveTo
<1>5. EarlyState'
  BY DEF SettleInv, EarlyState, WriteToAgent, MoveTo
<1>6. PendingState'
  BY DEF SettleInv, Types, PendingState, WriteToAgent, MoveTo
<1>7. TimerState'
  BY Zenon DEF SettleInv, Types, TimerState, WriteToAgent, MoveTo
<1>8. LoopState'
  BY DEF SettleInv, Types, LoopState, WriteToAgent, MoveTo
<1>9. AgentAnswered'
  BY DEF SettleInv, Types, AgentAnswered, WriteToAgent, MoveTo
<1>10. ShellState'
  BY DEF SettleInv, Types, ShellState, WriteToAgent, MoveTo
<1> QED
  BY Zenon, <1>1, <1>2, <1>3, <1>4, <1>5, <1>6, <1>7, <1>8, <1>9, <1>10 DEF SettleInv

LEMMA WriteFailsKeeps ==
  ASSUME Constants, SettleInv, NEW p \in Commands, WriteFails(p)
  PROVE  SettleInv'
<1>1. Types'
  BY Zenon DEF SettleInv, Types, WriteFails, MoveTo
<1>2. RowGuards'
  BY DEF SettleInv, Types, RowGuards, Concerns, WriteFails, MoveTo
<1>3. OneConcern'
  BY DEF SettleInv, Types, OneConcern, Concerns, WriteFails, MoveTo
<1>4. AnswersToWritten'
  BY DEF SettleInv, Types, AnswersToWritten, Concerns, WriteFails, MoveTo
<1>5. EarlyState'
  BY Zenon DEF SettleInv, Types, EarlyState, WriteFails, MoveTo
<1>6. PendingState'
  BY DEF SettleInv, Types, PendingState, WriteFails, MoveTo
<1>7. TimerState'
  BY Zenon DEF SettleInv, Types, TimerState, WriteFails, MoveTo
<1>8. LoopState'
  BY DEF SettleInv, LoopState, WriteFails, MoveTo
<1>9. AgentAnswered'
  BY DEF SettleInv, Types, AgentAnswered, WriteFails, MoveTo
<1>10. ShellState'
  BY DEF SettleInv, Types, ShellState, WriteFails, MoveTo
<1> QED
  BY Zenon, <1>1, <1>2, <1>3, <1>4, <1>5, <1>6, <1>7, <1>8, <1>9, <1>10 DEF SettleInv

LEMMA WriteFailedShellKeeps ==
  ASSUME Constants, SettleInv, NEW p \in Commands, WriteFailedShell(p)
  PROVE  SettleInv'
<1>1. Types'
  BY DEF SettleInv, Types, WriteFailedShell, MoveTo, CompleteShell
<1>2. RowGuards'
  BY DEF SettleInv, Types, RowGuards, Concerns, WriteFailedShell, MoveTo
<1>3. OneConcern'
  BY DEF SettleInv, Types, OneConcern, Concerns, WriteFailedShell, MoveTo
<1>4. AnswersToWritten'
  BY DEF SettleInv, Types, AnswersToWritten, Concerns, WriteFailedShell, MoveTo
<1>5. EarlyState'
  BY Zenon DEF SettleInv, Types, EarlyState, WriteFailedShell, MoveTo
<1>6. PendingState'
  BY DEF SettleInv, Types, PendingState, WriteFailedShell, MoveTo
<1>7. TimerState'
  BY Zenon DEF SettleInv, Types, TimerState, WriteFailedShell, MoveTo
<1>8. LoopState'
  BY DEF SettleInv, Types, LoopState, WriteFailedShell, MoveTo
<1>9. AgentAnswered'
  BY DEF SettleInv, Types, AgentAnswered, EarlyState, WriteFailedShell, MoveTo
<1>10. ShellState'
  BY DEF SettleInv, Types, ShellState, WriteFailedShell, MoveTo, CompleteShell, Constants
<1> QED
  BY Zenon, <1>1, <1>2, <1>3, <1>4, <1>5, <1>6, <1>7, <1>8, <1>9, <1>10 DEF SettleInv

LEMMA WriteFailedResolveKeeps ==
  ASSUME Constants, SettleInv, NEW p \in Commands, WriteFailedResolve(p)
  PROVE  SettleInv'
<1>1. Types'
  <2>1. cmd[p].id \in Requests /\ stage[p] # "unused"
    BY Zenon DEF SettleInv, Types, WriteFailedResolve
  <2>2. stage' \in [Commands -> Stages] /\ \A q \in Commands : q # p => stage'[q] = stage[q]
    BY Zenon DEF SettleInv, Types, WriteFailedResolve, MoveTo
  <2>3. /\ inFlight' \in [Apps -> Nat] /\ timer' \in [Commands -> Timers]
        /\ pendingByID' \in [Requests -> Commands \cup {None}]
    BY <2>1, ResolveTypes DEF SettleInv, Types, WriteFailedResolve
  <2> QED
    BY Zenon, <2>1, <2>2, <2>3 DEF SettleInv, Types, WriteFailedResolve
<1>2. RowGuards'
  BY DEF SettleInv, Types, RowGuards, Concerns, WriteFailedResolve, MoveTo, ResolvePending,
     Constants
<1>3. OneConcern'
  BY DEF SettleInv, Types, OneConcern, Concerns, RowGuards, WriteFailedResolve, MoveTo,
     ResolvePending, Constants
<1>4. AnswersToWritten'
  <2>1. UNCHANGED <<cmd, toAgent, toCloud, loop>> /\ stage[p] = "resolving"
        /\ \A q \in Commands : q # p => stage'[q] = stage[q]
    BY Zenon DEF SettleInv, Types, WriteFailedResolve, MoveTo
  <2>2. p \notin toAgent /\ Concerns(p)
    BY Zenon, <2>1 DEF SettleInv, AnswersToWritten, Concerns
  <2>3. \A m \in toCloud : m.id # cmd[p].id
    BY Zenon, <2>1, <2>2 DEF SettleInv, AnswersToWritten
  <2>4. \A q \in Commands : timer'[q] \in TimerOn => timer[q] \in TimerOn
    BY Zenon DEF SettleInv, Types, WriteFailedResolve, ResolvePending
  <2>5. \A q \in Commands : q # p => (Concerns(q)' => Concerns(q))
    BY Zenon, <2>1, <2>4 DEF Concerns
  <2> QED
    BY Zenon, <2>1, <2>2, <2>3, <2>5 DEF SettleInv, Types, AnswersToWritten
<1>5. EarlyState'
  BY DEF SettleInv, Types, EarlyState, WriteFailedResolve, MoveTo, ResolvePending, Constants
<1>6. PendingState'
  BY DEF SettleInv, Types, PendingState, EarlyState, TimerState, LoopState, WriteFailedResolve,
     MoveTo, ResolvePending, Constants
<1>7. TimerState'
  BY DEF SettleInv, Types, TimerState, EarlyState, WriteFailedResolve, MoveTo, ResolvePending,
     Constants
<1>8. LoopState'
  BY DEF SettleInv, Types, LoopState, WriteFailedResolve, MoveTo, Constants
<1>9. AgentAnswered'
  BY SMTT(30) DEF SettleInv, Types, AgentAnswered, LoopState, TimerState, EarlyState, WriteFailedResolve,
     MoveTo, ResolvePending, Constants
<1>10. ShellState'
  BY DEF SettleInv, Types, ShellState, EarlyState, TimerState, LoopState, WriteFailedResolve,
     MoveTo, ResolvePending, Constants
<1> QED
  BY Zenon, <1>1, <1>2, <1>3, <1>4, <1>5, <1>6, <1>7, <1>8, <1>9, <1>10 DEF SettleInv

LEMMA FailRelayRequestKeeps ==
  ASSUME Constants, SettleInv, NEW p \in Commands, FailRelayRequest(p)
  PROVE  SettleInv'
<1>1. Types'
  BY Zenon DEF SettleInv, Types, FailRelayRequest, MoveTo, Answer, UpdateRow
<1>2. RowGuards'
  BY DEF SettleInv, Types, RowGuards, Concerns, FailRelayRequest, MoveTo, UpdateRow
<1>3. OneConcern'
  BY DEF SettleInv, Types, OneConcern, Concerns, FailRelayRequest, MoveTo
<1>4. AnswersToWritten'
  BY DEF SettleInv, Types, AnswersToWritten, Concerns, FailRelayRequest, MoveTo
<1>5. EarlyState'
  BY Zenon DEF SettleInv, Types, EarlyState, FailRelayRequest, MoveTo, Answer
<1>6. PendingState'
  BY SMTT(30) DEF SettleInv, Types, PendingState, FailRelayRequest, MoveTo, Answer
<1>7. TimerState'
  BY DEF SettleInv, Types, TimerState, FailRelayRequest, MoveTo, Answer
<1>8. LoopState'
  BY DEF SettleInv, Types, LoopState, FailRelayRequest, MoveTo, Answer
<1>9. AgentAnswered'
  BY DEF SettleInv, Types, AgentAnswered, FailRelayRequest, MoveTo, Answer
<1>10. ShellState'
  BY DEF SettleInv, Types, ShellState, FailRelayRequest, MoveTo, Answer
<1> QED
  BY Zenon, <1>1, <1>2, <1>3, <1>4, <1>5, <1>6, <1>7, <1>8, <1>9, <1>10 DEF SettleInv

LEMMA MarkSentKeeps ==
  ASSUME Constants, SettleInv, NEW p \in Commands, MarkSent(p)
  PROVE  SettleInv'
<1>1. Types'
  BY DEF SettleInv, Types, MarkSent, MoveTo, UpdateRow
<1>2. RowGuards'
  BY DEF SettleInv, Types, RowGuards, Concerns, MarkSent, MoveTo, UpdateRow
<1>3. OneConcern'
  BY DEF SettleInv, Types, OneConcern, Concerns, MarkSent, MoveTo
<1>4. AnswersToWritten'
  BY DEF SettleInv, Types, AnswersToWritten, Concerns, MarkSent, MoveTo
<1>5. EarlyState'
  BY Zenon DEF SettleInv, Types, EarlyState, MarkSent, MoveTo
<1>6. PendingState'
  BY DEF SettleInv, Types, PendingState, MarkSent, MoveTo
<1>7. TimerState'
  BY Zenon DEF SettleInv, Types, TimerState, MarkSent, MoveTo
<1>8. LoopState'
  BY DEF SettleInv, Types, LoopState, MarkSent, MoveTo
<1>9. AgentAnswered'
  BY DEF SettleInv, Types, AgentAnswered, MarkSent, MoveTo
<1>10. ShellState'
  BY DEF SettleInv, Types, ShellState, MarkSent, MoveTo
<1> QED
  BY Zenon, <1>1, <1>2, <1>3, <1>4, <1>5, <1>6, <1>7, <1>8, <1>9, <1>10 DEF SettleInv

LEMMA TimerFiresKeeps ==
  ASSUME Constants, SettleInv, NEW p \in Commands, TimerFires(p)
  PROVE  SettleInv'
<1>1. Types'
  BY Zenon DEF SettleInv, Types, TimerFires, SetTimer
<1>2. RowGuards'
  BY DEF SettleInv, Types, RowGuards, Concerns, TimerFires, SetTimer
<1>3. OneConcern'
  BY DEF SettleInv, Types, OneConcern, Concerns, TimerFires, SetTimer
<1>4. AnswersToWritten'
  BY DEF SettleInv, Types, AnswersToWritten, Concerns, TimerFires, SetTimer
<1>5. EarlyState'
  BY Zenon DEF SettleInv, Types, EarlyState, TimerFires, SetTimer
<1>6. PendingState'
  BY DEF SettleInv, Types, PendingState, TimerFires, SetTimer
<1>7. TimerState'
  BY DEF SettleInv, Types, TimerState, TimerFires, SetTimer
<1>8. LoopState'
  BY Zenon DEF SettleInv, LoopState, TimerFires
<1>9. AgentAnswered'
  BY Zenon DEF SettleInv, AgentAnswered, TimerFires
<1>10. ShellState'
  BY DEF SettleInv, Types, ShellState, TimerFires, SetTimer
<1> QED
  BY Zenon, <1>1, <1>2, <1>3, <1>4, <1>5, <1>6, <1>7, <1>8, <1>9, <1>10 DEF SettleInv

LEMMA TimerClaimsKeeps ==
  ASSUME Constants, SettleInv, NEW p \in Commands, TimerClaims(p)
  PROVE  SettleInv'
<1>1. Types'
  <2>1. cmd[p].id \in Requests /\ pendingByID[cmd[p].id] \in Commands \cup {None}
    BY Zenon DEF SettleInv, Types, TimerClaims, RowGuards, Concerns
  <2>2. victim' \in [Commands -> Commands \cup {None}] /\ timer' \in [Commands -> Timers]
        /\ pendingByID' \in [Requests -> Commands \cup {None}]
    BY Zenon, <2>1 DEF SettleInv, Types, TimerClaims, SetTimer
  <2> QED
    BY Zenon, <2>2 DEF SettleInv, Types, TimerClaims
<1>2. RowGuards'
  BY DEF SettleInv, Types, RowGuards, Concerns, TimerClaims, SetTimer
<1>3. OneConcern'
  BY DEF SettleInv, Types, OneConcern, Concerns, TimerClaims, SetTimer
<1>4. AnswersToWritten'
  BY DEF SettleInv, Types, AnswersToWritten, Concerns, TimerClaims, SetTimer
<1>5. EarlyState'
  BY Zenon DEF SettleInv, Types, EarlyState, TimerClaims, SetTimer
<1>6. PendingState'
  BY DEF SettleInv, Types, PendingState, TimerClaims, SetTimer, Constants
<1>7. TimerState'
  BY DEF SettleInv, Types, TimerState, PendingState, EarlyState, OneConcern, Concerns,
     TimerClaims, SetTimer, Constants
<1>8. LoopState'
  BY Zenon DEF SettleInv, Types, LoopState, TimerClaims, SetTimer, Constants
<1>9. AgentAnswered'
  BY Zenon DEF SettleInv, Types, AgentAnswered, TimerClaims, Constants
<1>10. ShellState'
  BY DEF SettleInv, Types, ShellState, TimerClaims, SetTimer, Constants
<1> QED
  BY Zenon, <1>1, <1>2, <1>3, <1>4, <1>5, <1>6, <1>7, <1>8, <1>9, <1>10 DEF SettleInv

LEMMA TimerReleasesKeeps ==
  ASSUME Constants, SettleInv, NEW p \in Commands, TimerReleases(p)
  PROVE  SettleInv'
<1>1. Types'
  <2>1. timer' \in [Commands -> Timers]
    BY Zenon DEF SettleInv, Types, TimerReleases, SetTimer
  <2>2. cmd[victim[p]].app \in Apps
    BY Zenon DEF SettleInv, Types, TimerReleases, TimerState, RowGuards, Concerns
  <2>3. inFlight' \in [Apps -> Nat]
    BY <2>2 DEF SettleInv, Types, TimerReleases, Release
  <2> QED
    BY Zenon, <2>1, <2>3 DEF SettleInv, Types, TimerReleases
<1>2. RowGuards'
  BY DEF SettleInv, Types, RowGuards, Concerns, TimerReleases, SetTimer, Constants
<1>3. OneConcern'
  BY DEF SettleInv, Types, OneConcern, Concerns, TimerReleases, SetTimer, Constants
<1>4. AnswersToWritten'
  BY DEF SettleInv, Types, AnswersToWritten, Concerns, TimerReleases, SetTimer, Constants
<1>5. EarlyState'
  BY Zenon DEF SettleInv, Types, EarlyState, TimerReleases, SetTimer, Constants
<1>6. PendingState'
  BY DEF SettleInv, Types, PendingState, TimerReleases, SetTimer, Constants
<1>7. TimerState'
  BY DEF SettleInv, Types, TimerState, TimerReleases, SetTimer, Constants
<1>8. LoopState'
  BY Zenon DEF SettleInv, Types, LoopState, TimerReleases, SetTimer, Constants
<1>9. AgentAnswered'
  BY Zenon DEF SettleInv, Types, AgentAnswered, EarlyState, TimerReleases, SetTimer, Constants
<1>10. ShellState'
  BY DEF SettleInv, Types, ShellState, TimerReleases, SetTimer, Constants
<1> QED
  BY Zenon, <1>1, <1>2, <1>3, <1>4, <1>5, <1>6, <1>7, <1>8, <1>9, <1>10 DEF SettleInv

LEMMA TimeoutShellKeeps ==
  ASSUME Constants, SettleInv, NEW p \in Commands, TimeoutShell(p)
  PROVE  SettleInv'
<1>1. Types'
  <2>1. timer' \in [Commands -> Timers]
    BY Zenon DEF SettleInv, Types, TimeoutShell, SetTimer
  <2>2. shells' \in [Shells -> Commands \cup {None}]
    BY DEF SettleInv, Types, TimeoutShell, CompleteShell
  <2> QED
    BY Zenon, <2>1, <2>2 DEF SettleInv, Types, TimeoutShell
<1>2. RowGuards'
  BY DEF SettleInv, Types, RowGuards, Concerns, TimeoutShell, SetTimer, Constants
<1>3. OneConcern'
  BY DEF SettleInv, Types, OneConcern, Concerns, TimeoutShell, SetTimer, Constants
<1>4. AnswersToWritten'
  BY DEF SettleInv, Types, AnswersToWritten, Concerns, TimeoutShell, SetTimer, Constants
<1>5. EarlyState'
  BY Zenon DEF SettleInv, Types, EarlyState, TimeoutShell, SetTimer, Constants
<1>6. PendingState'
  BY DEF SettleInv, Types, PendingState, TimeoutShell, SetTimer
<1>7. TimerState'
  BY DEF SettleInv, Types, TimerState, TimeoutShell, SetTimer
<1>8. LoopState'
  BY Zenon DEF SettleInv, Types, LoopState, TimeoutShell, SetTimer
<1>9. AgentAnswered'
  BY Zenon DEF SettleInv, Types, AgentAnswered, TimeoutShell, SetTimer
<1>10. ShellState'
  BY DEF SettleInv, Types, ShellState, TimerState, TimeoutShell, SetTimer, CompleteShell,
     Constants
<1> QED
  BY Zenon, <1>1, <1>2, <1>3, <1>4, <1>5, <1>6, <1>7, <1>8, <1>9, <1>10 DEF SettleInv

LEMMA TimeoutRowKeeps ==
  ASSUME Constants, SettleInv, NEW p \in Commands, TimeoutRow(p)
  PROVE  SettleInv'
<1>1. Types'
  BY ZenonT(30) DEF SettleInv, Types, TimeoutRow, SetTimer, UpdateRow, Answer, Constants
<1>2. RowGuards'
  BY DEF SettleInv, Types, RowGuards, Concerns, TimeoutRow, SetTimer, UpdateRow, Answer, Constants
<1>3. OneConcern'
  BY DEF SettleInv, Types, OneConcern, Concerns, TimeoutRow, SetTimer, Answer, Constants
<1>4. AnswersToWritten'
  BY DEF SettleInv, Types, AnswersToWritten, Concerns, TimeoutRow, SetTimer, Answer, Constants
<1>5. EarlyState'
  BY DEF SettleInv, Types, EarlyState, TimerState, TimeoutRow, SetTimer, Answer
<1>6. PendingState'
  BY DEF SettleInv, Types, PendingState, TimerState, TimeoutRow, SetTimer, Answer, Constants
<1>7. TimerState'
  BY DEF SettleInv, Types, TimerState, TimeoutRow, SetTimer, Answer, Constants
<1>8. LoopState'
  BY DEF SettleInv, Types, LoopState, TimerState, TimeoutRow, SetTimer, Answer
<1>9. AgentAnswered'
  BY DEF SettleInv, Types, AgentAnswered, TimerState, TimeoutRow, SetTimer, Answer
<1>10. ShellState'
  BY DEF SettleInv, Types, ShellState, TimerState, TimeoutRow, SetTimer, Answer, Constants
<1> QED
  BY Zenon, <1>1, <1>2, <1>3, <1>4, <1>5, <1>6, <1>7, <1>8, <1>9, <1>10 DEF SettleInv

LEMMA AgentAnswersKeeps ==
  ASSUME Constants, SettleInv, NEW p \in Commands, NEW ok \in BOOLEAN, AgentAnswers(p, ok)
  PROVE  SettleInv'
<1>1. Types'
  <2>1. cmd[p].id \in Requests
    BY Zenon DEF SettleInv, Types, AgentAnswers, RowGuards, Concerns
  <2>2. toAgent' \subseteq Commands /\ toCloud' \subseteq [id : Requests, ok : BOOLEAN]
    BY <2>1 DEF SettleInv, Types, AgentAnswers
  <2> QED
    BY Zenon, <2>2 DEF SettleInv, Types, AgentAnswers
<1>2. RowGuards'
  BY DEF SettleInv, Types, RowGuards, Concerns, AgentAnswers
<1>3. OneConcern'
  BY DEF SettleInv, Types, OneConcern, Concerns, AgentAnswers
<1>4. AnswersToWritten'
  BY SMTT(30) DEF SettleInv, Types, AnswersToWritten, Concerns, OneConcern, AgentAnswers
<1>5. EarlyState'
  BY Zenon DEF SettleInv, Types, EarlyState, AgentAnswers
<1>6. PendingState'
  BY DEF SettleInv, Types, PendingState, AgentAnswers, Constants
<1>7. TimerState'
  BY Zenon DEF SettleInv, Types, TimerState, AgentAnswers
<1>8. LoopState'
  BY Zenon DEF SettleInv, Types, LoopState, AgentAnswers
<1>9. AgentAnswered'
  BY Zenon DEF SettleInv, Types, AgentAnswered, AgentAnswers
<1>10. ShellState'
  BY DEF SettleInv, Types, ShellState, AgentAnswers, Constants
<1> QED
  BY Zenon, <1>1, <1>2, <1>3, <1>4, <1>5, <1>6, <1>7, <1>8, <1>9, <1>10 DEF SettleInv

LEMMA LinkBreaksKeeps ==
  ASSUME Constants, SettleInv, LinkBreaks
  PROVE  SettleInv'
<1>1. Types'
  BY Zenon DEF SettleInv, Types, LinkBreaks
<1>2. RowGuards'
  BY Zenon DEF SettleInv, Types, RowGuards, Concerns, LinkBreaks
<1>3. OneConcern'
  BY DEF SettleInv, Types, OneConcern, Concerns, LinkBreaks, Constants
<1>4. AnswersToWritten'
  BY Zenon DEF SettleInv, Types, AnswersToWritten, Concerns, LinkBreaks, Constants
<1>5. EarlyState'
  BY Zenon DEF SettleInv, Types, EarlyState, LinkBreaks, Constants
<1>6. PendingState'
  BY DEF SettleInv, Types, PendingState, LinkBreaks, Constants
<1>7. TimerState'
  BY Zenon DEF SettleInv, Types, TimerState, LinkBreaks, Constants
<1>8. LoopState'
  BY Zenon DEF SettleInv, Types, LoopState, LinkBreaks, Constants
<1>9. AgentAnswered'
  BY Zenon DEF SettleInv, Types, AgentAnswered, LinkBreaks, Constants
<1>10. ShellState'
  BY DEF SettleInv, Types, ShellState, LinkBreaks, Constants
<1> QED
  BY Zenon, <1>1, <1>2, <1>3, <1>4, <1>5, <1>6, <1>7, <1>8, <1>9, <1>10 DEF SettleInv

LEMMA ResponseResolveKeeps ==
  ASSUME Constants, SettleInv, NEW m \in toCloud, ResponseResolve(m)
  PROVE  SettleInv'
<1>1. Types'
  <2>0. UNCHANGED <<stage, cmd, victim, row, shells, toAgent, answers>> /\ toCloud' = toCloud \ {m}
        /\ m.id \in Requests /\ loop.of = None
    BY Zenon DEF SettleInv, Types, ResponseResolve, Idle
  <2>1. CASE pendingByID[m.id] = None
    <3>1. UNCHANGED <<pendingByID, timer, inFlight, loop>>
      BY Zenon, <2>1 DEF ResponseResolve
    <3> QED
      BY Zenon, <2>0, <3>1 DEF SettleInv, Types
  <2>2. CASE pendingByID[m.id] # None

    <3>1. ResolvePending(m.id) /\ pendingByID[m.id] \in Commands
          /\ loop' = [at |-> "shell", of |-> pendingByID[m.id], ok |-> m.ok]
      BY <2>0, <2>2 DEF ResponseResolve, SettleInv, Types
    <3>2. /\ inFlight' \in [Apps -> Nat] /\ timer' \in [Commands -> Timers]
          /\ pendingByID' \in [Requests -> Commands \cup {None}]
      BY Zenon, <2>0, <2>2, <3>1, ResolveTypes
    <3>3. m.ok \in BOOLEAN /\ toCloud' \subseteq [id : Requests, ok : BOOLEAN]
      BY Zenon, <2>0 DEF SettleInv, Types
    <3>4. loop' \in [at : {"idle", "shell", "row"}, of : Commands \cup {None}, ok : BOOLEAN]
          /\ loop'.at # "idle" /\ loop'.of # None
      BY Zenon, <3>1, <3>3 DEF Constants
    <3> QED
      BY Zenon, <2>0, <3>2, <3>3, <3>4 DEF SettleInv, Types
  <2> QED
    BY Zenon, <2>1, <2>2
<1>2. RowGuards'
  <2>0. UNCHANGED <<stage, cmd, victim, row, shells, toAgent, answers>> /\ toCloud' = toCloud \ {m}
        /\ m.id \in Requests /\ loop.of = None
    BY Zenon DEF SettleInv, Types, ResponseResolve, Idle
  <2>1. CASE pendingByID[m.id] = None
    <3>1. UNCHANGED <<pendingByID, timer, inFlight, loop>>
      BY Zenon, <2>1 DEF ResponseResolve
    <3> QED
      BY Zenon, <2>0, <3>1 DEF SettleInv, RowGuards, Concerns
  <2>2. CASE pendingByID[m.id] # None

    <3> DEFINE q == pendingByID[m.id]
    <3>1. q \in Commands /\ loop'.of = q /\ cmd[q].id = m.id /\ timer[q] \in {"armed", "fired"}
          /\ stage[q] \in {"inserted", "broken", "resolving", "written", "done"} /\ answers[q] = {}
      BY <2>0, <2>2 DEF ResponseResolve, SettleInv, Types, PendingState
    <3>2. \A x \in Commands : timer'[x] \in TimerOn => timer[x] \in TimerOn
      BY DEF SettleInv, Types, ResponseResolve, ResolvePending
    <3>3. Concerns(q) /\ \A x \in Commands : Concerns(x)' => Concerns(x)
      BY Zenon, <2>0, <3>1, <3>2 DEF Concerns

    <3> QED
      BY Zenon, <2>0, <3>1, <3>3 DEF SettleInv, RowGuards, Types
  <2> QED
    BY Zenon, <2>1, <2>2
<1>3. OneConcern'
  <2>0. UNCHANGED <<stage, cmd, victim, row, shells, toAgent, answers>> /\ toCloud' = toCloud \ {m}
        /\ m.id \in Requests /\ loop.of = None
    BY Zenon DEF SettleInv, Types, ResponseResolve, Idle
  <2>1. CASE pendingByID[m.id] = None
    <3>1. UNCHANGED <<pendingByID, timer, inFlight, loop>>
      BY Zenon, <2>1 DEF ResponseResolve
    <3> QED
      BY <2>0, <3>1 DEF SettleInv, OneConcern, Concerns
  <2>2. CASE pendingByID[m.id] # None

    <3> DEFINE q == pendingByID[m.id]
    <3>1. q \in Commands /\ loop'.of = q /\ cmd[q].id = m.id /\ timer[q] \in {"armed", "fired"}
          /\ stage[q] \in {"inserted", "broken", "resolving", "written", "done"} /\ answers[q] = {}
      BY <2>0, <2>2 DEF ResponseResolve, SettleInv, Types, PendingState
    <3>2. \A x \in Commands : timer'[x] \in TimerOn => timer[x] \in TimerOn
      BY ZenonT(30) DEF SettleInv, Types, ResponseResolve, ResolvePending
    <3>3. Concerns(q) /\ \A x \in Commands : Concerns(x)' => Concerns(x)
      BY Zenon, <2>0, <3>1, <3>2 DEF Concerns

    <3> QED
      BY Zenon, <2>0, <3>1, <3>3 DEF SettleInv, OneConcern
  <2> QED
    BY Zenon, <2>1, <2>2
<1>4. AnswersToWritten'
  <2>0. UNCHANGED <<stage, cmd, victim, row, shells, toAgent, answers>> /\ toCloud' = toCloud \ {m}
        /\ m.id \in Requests /\ loop.of = None
    BY Zenon DEF SettleInv, Types, ResponseResolve, Idle
  <2>1. CASE pendingByID[m.id] = None
    <3>1. UNCHANGED <<pendingByID, timer, inFlight, loop>>
      BY Zenon, <2>1 DEF ResponseResolve
    <3> QED
      BY <2>0, <3>1 DEF SettleInv, AnswersToWritten, Concerns, Types
  <2>2. CASE pendingByID[m.id] # None

    <3> DEFINE q == pendingByID[m.id]
    <3>1. q \in Commands /\ loop'.of = q /\ cmd[q].id = m.id /\ timer[q] \in {"armed", "fired"}
          /\ stage[q] \in {"inserted", "broken", "resolving", "written", "done"} /\ answers[q] = {}
      BY <2>0, <2>2 DEF ResponseResolve, SettleInv, Types, PendingState
    <3>2. \A x \in Commands : timer'[x] \in TimerOn => timer[x] \in TimerOn
      BY DEF SettleInv, Types, ResponseResolve, ResolvePending
    <3>3. Concerns(q) /\ \A x \in Commands : Concerns(x)' => Concerns(x)
      BY Zenon, <2>0, <3>1, <3>2 DEF Concerns

    <3> QED
      BY <2>0, <3>1, <3>3 DEF SettleInv, AnswersToWritten, Types
  <2> QED
    BY Zenon, <2>1, <2>2
<1>5. EarlyState'
  BY DEF SettleInv, Types, EarlyState, ResponseResolve, ResolvePending, Constants
<1>6. PendingState'
  <2>0. UNCHANGED <<stage, cmd, victim, row, shells, toAgent, answers>> /\ toCloud' = toCloud \ {m}
        /\ m.id \in Requests /\ loop.of = None
    BY Zenon DEF SettleInv, Types, ResponseResolve, Idle
  <2>1. CASE pendingByID[m.id] = None
    <3>1. UNCHANGED <<pendingByID, timer, inFlight, loop>>
      BY Zenon, <2>1 DEF ResponseResolve
    <3> QED
      BY ZenonT(60), <2>0, <3>1 DEF SettleInv, PendingState
  <2>2. CASE pendingByID[m.id] # None

    <3> DEFINE q == pendingByID[m.id]
    <3>1. q \in Commands /\ loop'.of = q /\ cmd[q].id = m.id
          /\ pendingByID' = [pendingByID EXCEPT ![m.id] = None]
      BY SMTT(30), <2>0, <2>2 DEF ResponseResolve, ResolvePending, SettleInv, Types, PendingState
    <3>2. \A x \in Commands : x # q => timer'[x] = timer[x]
      BY SMTT(30), <2>2, <3>1 DEF SettleInv, Types, ResponseResolve, ResolvePending
    <3>3. \A r \in Requests, x \in Commands : pendingByID'[r] = x => r # m.id /\ pendingByID[r] = x
      BY Zenon, <2>0, <3>1 DEF SettleInv, Types, Constants
    <3>4. \A r \in Requests, x \in Commands : pendingByID[r] = x => cmd[x].id = r
      BY Zenon DEF SettleInv, PendingState
    <3>5. \A r \in Requests, x \in Commands : pendingByID'[r] = x => x # q
      BY <3>1, <3>3, <3>4
    <3> QED
      BY SMTT(30), <2>0, <3>1, <3>2, <3>3, <3>5 DEF SettleInv, PendingState
  <2> QED
    BY Zenon, <2>1, <2>2
<1>7. TimerState'
  BY SMTT(30) DEF SettleInv, Types, TimerState, PendingState, EarlyState, ResponseResolve, ResolvePending,
     Constants
<1>8. LoopState'
  <2>0. UNCHANGED <<stage, cmd, victim, row, shells, toAgent, answers>> /\ toCloud' = toCloud \ {m}
        /\ m.id \in Requests /\ loop.of = None
    BY Zenon DEF SettleInv, Types, ResponseResolve, Idle
  <2>1. CASE pendingByID[m.id] = None
    <3>1. UNCHANGED <<pendingByID, timer, inFlight, loop>>
      BY Zenon, <2>1 DEF ResponseResolve
    <3> QED
      BY Zenon, <2>0, <3>1 DEF SettleInv, LoopState
  <2>2. CASE pendingByID[m.id] # None

    <3> DEFINE q == pendingByID[m.id]
    <3>1. q \in Commands /\ loop'.of = q /\ cmd[q].id = m.id /\ timer[q] \in {"armed", "fired"}
          /\ stage[q] \in {"inserted", "broken", "resolving", "written", "done"} /\ answers[q] = {}
      BY <2>0, <2>2 DEF ResponseResolve, SettleInv, Types, PendingState
    <3>2. \A x \in Commands : timer'[x] \in TimerOn => timer[x] \in TimerOn
      BY Zenon DEF SettleInv, Types, ResponseResolve, ResolvePending
    <3>3. Concerns(q) /\ \A x \in Commands : Concerns(x)' => Concerns(x)
      BY Zenon, <2>0, <3>1, <3>2 DEF Concerns

    <3>4. stage[q] \in {"written", "done"}
      BY Zenon, <3>1, <3>3 DEF SettleInv, AnswersToWritten
    <3> QED
      BY Zenon, <2>0, <3>1, <3>4 DEF LoopState
  <2> QED
    BY Zenon, <2>1, <2>2
<1>9. AgentAnswered'
  BY Zenon DEF SettleInv, Types, AgentAnswered, LoopState, TimerState, EarlyState, ResponseResolve,
     Constants
<1>10. ShellState'
  BY SMTT(30) DEF SettleInv, Types, ShellState, EarlyState, TimerState, LoopState, ResponseResolve,
     ResolvePending, Constants
<1> QED
  BY Zenon, <1>1, <1>2, <1>3, <1>4, <1>5, <1>6, <1>7, <1>8, <1>9, <1>10 DEF SettleInv

LEMMA ResponseShellKeeps ==
  ASSUME Constants, SettleInv, ResponseShell
  PROVE  SettleInv'
<1>1. Types'
  BY Zenon DEF SettleInv, Types, ResponseShell, CompleteShell, Constants
<1>2. RowGuards'
  BY Zenon DEF SettleInv, Types, RowGuards, Concerns, ResponseShell
<1>3. OneConcern'
  BY DEF SettleInv, Types, OneConcern, Concerns, ResponseShell
<1>4. AnswersToWritten'
  BY DEF SettleInv, Types, AnswersToWritten, Concerns, ResponseShell
<1>5. EarlyState'
  BY Zenon DEF SettleInv, Types, EarlyState, ResponseShell
<1>6. PendingState'
  BY DEF SettleInv, Types, PendingState, ResponseShell
<1>7. TimerState'
  BY Zenon DEF SettleInv, Types, TimerState, ResponseShell
<1>8. LoopState'
  BY DEF SettleInv, LoopState, ResponseShell
<1>9. AgentAnswered'
  BY Zenon DEF SettleInv, AgentAnswered, ResponseShell
<1>10. ShellState'
  <2>1. UNCHANGED <<stage, cmd, timer, answers>> /\ loop.at = "shell" /\ loop.of \in Commands
        /\ loop'.of = loop.of /\ loop'.ok = loop.ok
    BY Zenon DEF SettleInv, Types, ResponseShell
  <2>2. \A s \in Shells, p \in Commands : shells'[s] = p => shells[s] = p
    BY DEF SettleInv, Types, ResponseShell, CompleteShell, Constants
  <2>3. ASSUME NEW s \in Shells, shells'[s] = loop.of PROVE loop.ok
    <3>1. cmd[loop.of].op = "open" /\ cmd[loop.of].shell = s
      BY <2>1, <2>2, <2>3 DEF SettleInv, ShellState
    <3>2. CASE ~loop.ok
      <4>1. shells' = [shells EXCEPT ![s] = None]
        BY Zenon, <3>1, <3>2 DEF ResponseShell, CompleteShell
      <4> QED
        BY Zenon, <2>1, <2>3, <4>1 DEF SettleInv, Types
    <3> QED
      BY Zenon, <3>2
  <2>4. ASSUME NEW s \in Shells, NEW p \in Commands, shells'[s] = p
        PROVE  ShellState!(s, p)'
    <3>1. ShellState!(s, p) /\ shells[s] = p
      BY <2>2, <2>4 DEF SettleInv, ShellState
    <3>2. loop'.of = p => loop'.ok
      BY Zenon, <2>1, <2>3, <2>4
    <3> QED
      BY Zenon, <2>1, <3>1, <3>2
  <2> QED
    BY Zenon, <2>4 DEF ShellState
<1> QED
  BY Zenon, <1>1, <1>2, <1>3, <1>4, <1>5, <1>6, <1>7, <1>8, <1>9, <1>10 DEF SettleInv

LEMMA ResponseRowKeeps ==
  ASSUME Constants, SettleInv, ResponseRow
  PROVE  SettleInv'
<1>1. Types'
  BY SMTT(30) DEF SettleInv, Types, ResponseRow, UpdateRow, Answer, Idle, Constants
<1>2. RowGuards'
  BY SMTT(30) DEF SettleInv, Types, RowGuards, Concerns, ResponseRow, UpdateRow, Answer, Idle, Constants
<1>3. OneConcern'
  BY SMTT(30) DEF SettleInv, Types, OneConcern, Concerns, ResponseRow, Answer, Idle, Constants
<1>4. AnswersToWritten'
  BY SMTT(30) DEF SettleInv, Types, AnswersToWritten, Concerns, ResponseRow, Answer, Idle, Constants
<1>5. EarlyState'
  BY DEF SettleInv, Types, EarlyState, LoopState, ResponseRow, Answer, Constants
<1>6. PendingState'
  BY SMTT(30) DEF SettleInv, Types, PendingState, TimerState, ResponseRow, Answer, Idle, Constants
<1>7. TimerState'
  BY SMTT(30) DEF SettleInv, Types, TimerState, PendingState, ResponseRow, Answer, Idle, Constants
<1>8. LoopState'
  BY SMTT(30) DEF SettleInv, Types, LoopState, ResponseRow, Answer, Idle, Constants
<1>9. AgentAnswered'
  BY SMTT(30) DEF SettleInv, Types, AgentAnswered, LoopState, TimerState, ResponseRow, UpdateRow, Answer,
     Constants
<1>10. ShellState'
  BY SMTT(30) DEF SettleInv, Types, ShellState, TimerState, LoopState, ResponseRow, Answer, Idle, Constants
<1> QED
  BY Zenon, <1>1, <1>2, <1>3, <1>4, <1>5, <1>6, <1>7, <1>8, <1>9, <1>10 DEF SettleInv

LEMMA PruneShellKeeps ==
  ASSUME Constants, SettleInv, NEW s \in Shells, PruneShell(s)
  PROVE  SettleInv'
<1>1. Types'
  BY Zenon DEF SettleInv, Types, PruneShell, Constants
<1>2. RowGuards'
  BY Zenon DEF SettleInv, Types, RowGuards, Concerns, PruneShell, Constants
<1>3. OneConcern'
  BY SMTT(30) DEF SettleInv, Types, OneConcern, Concerns, PruneShell, Constants
<1>4. AnswersToWritten'
  BY SMTT(30) DEF SettleInv, Types, AnswersToWritten, Concerns, PruneShell, Constants
<1>5. EarlyState'
  BY Zenon DEF SettleInv, Types, EarlyState, PruneShell
<1>6. PendingState'
  BY SMTT(30) DEF SettleInv, Types, PendingState, TimerState, PruneShell
<1>7. TimerState'
  BY Zenon DEF SettleInv, Types, TimerState, PruneShell
<1>8. LoopState'
  BY Zenon DEF SettleInv, Types, LoopState, PruneShell
<1>9. AgentAnswered'
  BY Zenon DEF SettleInv, Types, AgentAnswered, LoopState, TimerState, PruneShell
<1>10. ShellState'
  BY SMTT(30) DEF SettleInv, Types, ShellState, TimerState, LoopState, PruneShell, Constants
<1> QED
  BY Zenon, <1>1, <1>2, <1>3, <1>4, <1>5, <1>6, <1>7, <1>8, <1>9, <1>10 DEF SettleInv

LEMMA RelayRestartsKeeps ==
  ASSUME Constants, SettleInv, RelayRestarts
  PROVE  SettleInv'
<1>1. Types'
  BY SMTT(30) DEF SettleInv, Types, RelayRestarts, Idle, Constants
<1>2. RowGuards'
  BY SMTT(60) DEF SettleInv, Types, RowGuards, Concerns, RelayRestarts, Idle, Constants
<1>3. OneConcern'
  BY SMTT(30) DEF SettleInv, Types, OneConcern, Concerns, RelayRestarts, Idle, Constants
<1>4. AnswersToWritten'
  BY Zenon DEF SettleInv, Types, AnswersToWritten, Concerns, RowGuards, RelayRestarts, Idle,
     Constants
<1>5. EarlyState'
  BY Zenon DEF SettleInv, Types, EarlyState, RelayRestarts, Constants
<1>6. PendingState'
  BY SMTT(30) DEF SettleInv, Types, PendingState, TimerState, RelayRestarts, Constants
<1>7. TimerState'
  BY Zenon DEF SettleInv, Types, TimerState, RelayRestarts, Idle, Constants
<1>8. LoopState'
  BY SMTT(30) DEF SettleInv, Types, LoopState, RelayRestarts, Idle, Constants
<1>9. AgentAnswered'
  BY Zenon DEF SettleInv, Types, AgentAnswered, LoopState, TimerState, EarlyState, RelayRestarts,
     Idle, Constants
<1>10. ShellState'
  BY SMTT(30) DEF SettleInv, Types, ShellState, EarlyState, TimerState, LoopState, RelayRestarts, Idle,
     Constants
<1> QED
  BY Zenon, <1>1, <1>2, <1>3, <1>4, <1>5, <1>6, <1>7, <1>8, <1>9, <1>10 DEF SettleInv

LEMMA PruneRowKeeps ==
  ASSUME Constants, SettleInv, NEW r \in Requests, PruneRow(r)
  PROVE  SettleInv'
<1>1. Types'
  BY Zenon DEF SettleInv, Types, PruneRow, Constants
<1>2. RowGuards'
  BY SMTT(30) DEF SettleInv, Types, RowGuards, Concerns, PruneRow, Settled, Left, Constants
<1>3. OneConcern'
  BY SMTT(30) DEF SettleInv, Types, OneConcern, Concerns, PruneRow, Constants
<1>4. AnswersToWritten'
  BY DEF SettleInv, Types, AnswersToWritten, Concerns, PruneRow, Constants
<1>5. EarlyState'
  BY Zenon DEF SettleInv, Types, EarlyState, PruneRow
<1>6. PendingState'
  BY SMTT(30) DEF SettleInv, Types, PendingState, TimerState, LoopState, PruneRow, Constants
<1>7. TimerState'
  BY Zenon DEF SettleInv, Types, TimerState, PruneRow, Constants
<1>8. LoopState'
  BY Zenon DEF SettleInv, Types, LoopState, PruneRow, Constants
<1>9. AgentAnswered'
  BY Zenon DEF SettleInv, Types, AgentAnswered, PruneRow, Constants
<1>10. ShellState'
  BY SMTT(30) DEF SettleInv, Types, ShellState, TimerState, PruneRow, Constants
<1> QED
  BY Zenon, <1>1, <1>2, <1>3, <1>4, <1>5, <1>6, <1>7, <1>8, <1>9, <1>10 DEF SettleInv

LEMMA SettleInit == ASSUME Constants, RelayInit PROVE SettleInv
<1>1. Types
  BY Zenon DEF RelayInit, Types, NoCmd, Idle
<1>2. \A p \in Commands : stage[p] = "unused" /\ timer[p] = "none" /\ loop.of # p /\ p \notin toAgent
  BY Zenon DEF RelayInit, Idle, Constants
<1>3. RowGuards /\ OneConcern /\ AnswersToWritten
  BY Zenon, <1>2 DEF RelayInit, RowGuards, OneConcern, AnswersToWritten, Concerns
<1>4. EarlyState /\ PendingState /\ TimerState /\ LoopState /\ AgentAnswered /\ ShellState
  BY Zenon, <1>2 DEF RelayInit, EarlyState, PendingState, TimerState, LoopState, AgentAnswered,
     ShellState, Constants
<1> QED
  BY Zenon, <1>1, <1>3, <1>4 DEF SettleInv

LEMMA SettleNext == ASSUME Constants, SettleInv, [RelayNext]_relayVars PROVE SettleInv'
<1>1. CASE UNCHANGED relayVars
  <2>1. Types'
    BY Zenon, <1>1 DEF relayVars, SettleInv, Types
  <2>2. RowGuards' /\ OneConcern' /\ AnswersToWritten'
    BY ZenonT(60), <1>1 DEF relayVars, SettleInv, RowGuards, OneConcern, AnswersToWritten, Concerns
  <2>3. EarlyState'
    BY Zenon, <1>1 DEF relayVars, SettleInv, EarlyState
  <2>4. TimerState' /\ LoopState'
    BY Zenon, <1>1 DEF relayVars, SettleInv, TimerState, LoopState
  <2>5. AgentAnswered'
    BY Zenon, <1>1 DEF relayVars, SettleInv, AgentAnswered
  <2>6. ShellState'
    <3>1. /\ shells' = shells /\ cmd' = cmd /\ stage' = stage
          /\ timer' = timer /\ loop' = loop /\ answers' = answers
      BY Zenon, <1>1 DEF relayVars
    <3> QED
      BY SMTT(30), <3>1 DEF SettleInv, ShellState
  <2>7. PendingState'
    BY ZenonT(30), <1>1 DEF relayVars, SettleInv, PendingState
  <2> QED
    BY Zenon, <2>1, <2>2, <2>3, <2>4, <2>5, <2>6, <2>7 DEF SettleInv
<1>2. ASSUME NEW p \in Commands, Handle(p) PROVE SettleInv'
  BY Zenon, <1>2, CreateRelayRequestKeeps, RefuseKeeps, AcquireKeeps, InsertKeeps, RejectKeeps,
     WriteToAgentKeeps, WriteFailsKeeps, WriteFailedShellKeeps, WriteFailedResolveKeeps,
     FailRelayRequestKeeps, MarkSentKeeps DEF Handle
<1>3. ASSUME NEW p \in Commands, RunTimer(p) PROVE SettleInv'
  BY Zenon, <1>3, TimerFiresKeeps, TimerClaimsKeeps, TimerReleasesKeeps, TimeoutShellKeeps,
     TimeoutRowKeeps DEF RunTimer
<1>4. CASE Respond
  BY Zenon, <1>4, ResponseResolveKeeps, ResponseShellKeeps, ResponseRowKeeps DEF Respond
<1> QED
  BY Zenon, <1>1, <1>2, <1>3, <1>4, ReceiveKeeps, AgentAnswersKeeps, LinkBreaksKeeps,
     PruneShellKeeps, RelayRestartsKeeps, PruneRowKeeps DEF RelayNext

-----------------------------------------------------------------------------
(***************************************************************************)
(* The slots.  Under the invariant a holder is told by its own state.      *)
(***************************************************************************)
Holds(p) ==
  \/ stage[p] = "acquired"
  \/ cmd[p].id \in Requests /\ pendingByID[cmd[p].id] = p
  \/ timer[p] = "claimed"

LEMMA HoldersHold ==
  SettleInv => \A a : SlotHolders(a) = {p \in Commands : cmd[p].app = a /\ Holds(p)}
<1> SUFFICES ASSUME SettleInv, NEW a
             PROVE  SlotHolders(a) = {p \in Commands : cmd[p].app = a /\ Holds(p)}
  OBVIOUS
<1>1. \A r \in Requests, p \in Commands : pendingByID[r] = p => cmd[p].id = r
  BY Zenon DEF SettleInv, PendingState
<1>2. \A p, q \in Commands : timer[q] = "claimed" => (victim[q] = p <=> q = p)
  BY Zenon DEF SettleInv, TimerState
<1> QED
  BY <1>1, <1>2 DEF SlotHolders, Holds

LEMMA HoldersHoldNext ==
  SettleInv' => \A a : SlotHolders(a)' = {p \in Commands : cmd'[p].app = a /\ Holds(p)'}
<1> SUFFICES ASSUME SettleInv', NEW a
             PROVE  SlotHolders(a)' = {p \in Commands : cmd'[p].app = a /\ Holds(p)'}
  OBVIOUS
<1>1. \A r \in Requests, p \in Commands : pendingByID'[r] = p => cmd'[p].id = r
  BY Zenon DEF SettleInv, PendingState
<1>2. \A p, q \in Commands : timer'[q] = "claimed" => (victim'[q] = p <=> q = p)
  BY Zenon DEF SettleInv, TimerState
<1> QED
  BY SMTT(30), <1>1, <1>2 DEF SlotHolders, Holds

INSTANCE FiniteSetTheorems

LEMMA FiniteHolders ==
  ASSUME Constants, NEW a
  PROVE  IsFiniteSet(SlotHolders(a)) /\ Cardinality(SlotHolders(a)) \in Nat
<1>1. IsFiniteSet(SlotHolders(a))
  BY Zenon, FS_Subset DEF Constants, SlotHolders
<1> QED
  BY Zenon, <1>1, FS_CardinalityType

\* Nobody's hold changes.
LEMMA SlotsKept ==
  ASSUME SettleInv, SettleInv', InFlightExact, UNCHANGED inFlight,
         \A p \in Commands : (Holds(p)' <=> Holds(p)) /\ (Holds(p) => cmd'[p].app = cmd[p].app)
  PROVE  InFlightExact'
<1>1. ASSUME NEW a \in Apps PROVE SlotHolders(a)' = SlotHolders(a)
  <2>1. SlotHolders(a) = {p \in Commands : cmd[p].app = a /\ Holds(p)}
    BY Zenon, HoldersHold
  <2>2. SlotHolders(a)' = {p \in Commands : cmd'[p].app = a /\ Holds(p)'}
    BY Zenon, HoldersHoldNext
  <2> QED
    BY Zenon, <2>1, <2>2
<1> QED
  BY Zenon, <1>1 DEF InFlightExact

\* One command gets a slot.
LEMMA SlotTaken ==
  ASSUME Constants, SettleInv, SettleInv', InFlightExact, UNCHANGED cmd,
         NEW p \in Commands, ~Holds(p), Holds(p)', cmd[p].app \in Apps,
         \A q \in Commands : q # p => (Holds(q)' <=> Holds(q)),
         inFlight' = [inFlight EXCEPT ![cmd[p].app] = @ + 1]
  PROVE  InFlightExact'
<1> DEFINE b == cmd[p].app
<1>1. p \notin SlotHolders(b) /\ SlotHolders(b)' = SlotHolders(b) \cup {p}
  BY HoldersHold, HoldersHoldNext
<1>2. ASSUME NEW a \in Apps, a # b PROVE SlotHolders(a)' = SlotHolders(a)
  <2>1. SlotHolders(a) = {q \in Commands : cmd[q].app = a /\ Holds(q)}
    BY Zenon, HoldersHold
  <2>2. SlotHolders(a)' = {q \in Commands : cmd[q].app = a /\ Holds(q)'}
    BY Zenon, HoldersHoldNext
  <2> QED
    BY Zenon, <1>2, <2>1, <2>2
<1>3. Cardinality(SlotHolders(b)') = Cardinality(SlotHolders(b)) + 1
  BY Zenon, <1>1, FiniteHolders, FS_AddElement
<1>4. inFlight \in [Apps -> Nat]
  BY Zenon DEF SettleInv, Types
<1> QED
  BY Zenon, <1>2, <1>3, <1>4 DEF InFlightExact

\* One command gives its slot back.
LEMMA SlotFreed ==
  ASSUME Constants, SettleInv, SettleInv', InFlightExact, UNCHANGED cmd,
         NEW p \in Commands, Holds(p), ~Holds(p)', cmd[p].app \in Apps,
         \A q \in Commands : q # p => (Holds(q)' <=> Holds(q)),
         inFlight' = Release(cmd[p].app)
  PROVE  InFlightExact'
<1> DEFINE b == cmd[p].app
<1>1. p \in SlotHolders(b) /\ SlotHolders(b)' = SlotHolders(b) \ {p}
  BY HoldersHold, HoldersHoldNext
<1>2. ASSUME NEW a \in Apps, a # b PROVE SlotHolders(a)' = SlotHolders(a)
  <2>1. SlotHolders(a) = {q \in Commands : cmd[q].app = a /\ Holds(q)}
    BY Zenon, HoldersHold
  <2>2. SlotHolders(a)' = {q \in Commands : cmd[q].app = a /\ Holds(q)'}
    BY Zenon, HoldersHoldNext
  <2> QED
    BY Zenon, <1>2, <2>1, <2>2
<1>3. Cardinality(SlotHolders(b)') = Cardinality(SlotHolders(b)) - 1
  BY ZenonT(60), <1>1, FiniteHolders, FS_RemoveElement
<1>4. IsFiniteSet(SlotHolders(b)) /\ Cardinality(SlotHolders(b)) \in Nat /\ Cardinality(SlotHolders(b)) # 0
  BY Zenon, <1>1, FiniteHolders, FS_EmptySet
<1>5. inFlight \in [Apps -> Nat]
  BY Zenon DEF SettleInv, Types
<1>6. inFlight'[b] = Cardinality(SlotHolders(b)')
  BY <1>3, <1>4, <1>5 DEF InFlightExact, Release
<1>7. \A a \in Apps : a # b => inFlight'[a] = inFlight[a]
  BY Zenon, <1>5 DEF Release
<1> QED
  BY Zenon, <1>2, <1>6, <1>7 DEF InFlightExact

\* Whoever is taken off the map gives its slot back.
LEMMA ResolveFrees ==
  ASSUME Constants, SettleInv, SettleInv', InFlightExact, UNCHANGED cmd,
         NEW r \in Requests, pendingByID[r] # None, ResolvePending(r),
         \A q \in Commands : stage'[q] = "acquired" <=> stage[q] = "acquired"
  PROVE  InFlightExact'
<1>p. PICK p \in Commands : p = pendingByID[r]
  BY SMTT(30) DEF SettleInv, Types
<1>a. /\ cmd[p].id = r /\ timer[p] \in {"armed", "fired"}
      /\ stage[p] \in {"inserted", "broken", "resolving", "written", "done"}
  BY Zenon, <1>p DEF SettleInv, PendingState
<1>1. cmd[p].id = r /\ cmd[p].app \in Apps /\ stage[p] # "acquired" /\ timer[p] \in {"armed", "fired"}
  BY Zenon, <1>a DEF SettleInv, Types
<1>2. pendingByID' = [pendingByID EXCEPT ![r] = None] /\ pendingByID \in [Requests -> Commands \cup {None}]
  BY Zenon DEF ResolvePending, SettleInv, Types
<1>3. \A q \in Commands : timer'[q] = "claimed" <=> timer[q] = "claimed"
  BY SMTT(30), <1>p, <1>1 DEF ResolvePending, SettleInv, Types
<1>4. Holds(p) /\ ~Holds(p)'
  BY Zenon, <1>p, <1>1, <1>2, <1>3 DEF Holds
<1>5. \A q \in Commands : q # p => (Holds(q)' <=> Holds(q))
  BY Zenon, <1>p, <1>1, <1>2, <1>3 DEF Holds, Constants
<1>6. inFlight' = Release(cmd[p].app)
  BY Zenon, <1>p DEF ResolvePending
<1> QED
  BY Zenon, <1>1, <1>4, <1>5, <1>6, SlotFreed

LEMMA SlotsInit == ASSUME Constants, RelayInit PROVE InFlightExact
<1>1. \A a \in Apps : SlotHolders(a) = {}
  BY Zenon DEF RelayInit, SlotHolders, Constants
<1> QED
  BY Zenon, <1>1, FS_EmptySet DEF RelayInit, InFlightExact

LEMMA SlotsNext ==
  ASSUME Constants, SettleInv, SettleInv', InFlightExact, [RelayNext]_relayVars
  PROVE  InFlightExact'
<1> USE DEF Holds
<1>a. /\ stage \in [Commands -> Stages] /\ timer \in [Commands -> Timers]
      /\ pendingByID \in [Requests -> Commands \cup {None}]
  BY Zenon DEF SettleInv, Types
<1>1. CASE UNCHANGED relayVars
  BY Zenon, <1>1, SlotsKept DEF relayVars
<1>2. ASSUME NEW p \in Commands, NEW a \in Apps, NEW r \in Requests, NEW op \in Ops,
             NEW s \in Shells \cup {None}, Receive(p, a, r, op, s)
      PROVE  InFlightExact'
  <2>1. ~Holds(p)
    BY Zenon, <1>2 DEF Receive, SettleInv, EarlyState, PendingState
  <2>2. stage' = [stage EXCEPT ![p] = "authorized"] /\ UNCHANGED <<pendingByID, timer, inFlight>>
    BY Zenon, <1>2 DEF Receive, MoveTo
  <2>3. cmd' = [cmd EXCEPT ![p] = [app |-> a, id |-> r, op |-> op, shell |-> s]] /\ DOMAIN cmd = Commands
    BY Zenon, <1>2 DEF Receive, SettleInv, Types
  <2>4. ~Holds(p)'
    <3>1. pendingByID[r] # p
      BY Zenon, <1>2 DEF Receive, SettleInv, PendingState
    <3>2. stage'[p] = "authorized" /\ timer'[p] = timer[p] /\ cmd'[p].id = r
      BY Zenon, <1>a, <2>2, <2>3
    <3> QED
      BY Zenon, <2>1, <2>2, <3>1, <3>2
  <2>5. \A q \in Commands : q # p => cmd'[q] = cmd[q] /\ (Holds(q)' <=> Holds(q))
    BY Zenon, <1>a, <2>2, <2>3
  <2> QED
    BY Zenon, <2>1, <2>2, <2>4, <2>5, SlotsKept
<1>3. ASSUME NEW p \in Commands, Acquire(p) PROVE InFlightExact'
  <2>1. UNCHANGED <<cmd, pendingByID, timer>> /\ stage[p] = "created" /\ cmd[p].app \in Apps
    BY Zenon, <1>3 DEF Acquire, SettleInv, Types
  <2>2. CASE stage' = [stage EXCEPT ![p] = "rejecting"] /\ UNCHANGED inFlight
    BY Zenon, <1>a, <2>1, <2>2, SlotsKept
  <2>3. CASE stage' = [stage EXCEPT ![p] = "acquired"] /\ inFlight' = [inFlight EXCEPT ![cmd[p].app] = @ + 1]
    <3>1. ~Holds(p)
      BY Zenon, <2>1 DEF SettleInv, EarlyState, PendingState
    <3>2. Holds(p)' /\ \A q \in Commands : q # p => (Holds(q)' <=> Holds(q))
      BY Zenon, <1>a, <2>1, <2>3
    <3>3. UNCHANGED cmd /\ cmd[p].app \in Apps
      BY Zenon, <2>1
    <3> HIDE DEF Holds
    <3> QED
      BY Zenon, <2>3, <3>1, <3>2, <3>3, SlotTaken
  <2> QED
    BY Zenon, <1>3, <2>2, <2>3 DEF Acquire, MoveTo
<1>4. ASSUME NEW p \in Commands, Insert(p) PROVE InFlightExact'
  <2>1. /\ UNCHANGED cmd /\ stage[p] = "acquired" /\ cmd[p].id \in Requests /\ cmd[p].app \in Apps
        /\ timer[p] = "none"
    BY Zenon, <1>4 DEF Insert, SettleInv, Types, EarlyState
  <2>2. CASE pendingByID[cmd[p].id] # None
    <3>1. /\ stage' = [stage EXCEPT ![p] = "rejecting"] /\ UNCHANGED <<pendingByID, timer>>
          /\ inFlight' = Release(cmd[p].app)
      BY Zenon, <1>4, <2>2 DEF Insert, MoveTo
    <3>2. pendingByID[cmd[p].id] # p
      BY Zenon, <2>1 DEF SettleInv, PendingState
    <3>3. Holds(p) /\ ~Holds(p)' /\ \A q \in Commands : q # p => (Holds(q)' <=> Holds(q))
      BY Zenon, <1>a, <2>1, <3>1, <3>2
    <3>4. UNCHANGED cmd /\ cmd[p].app \in Apps
      BY Zenon, <2>1
    <3> HIDE DEF Holds
    <3> QED
      BY Zenon, <3>1, <3>3, <3>4, SlotFreed
  <2>3. CASE pendingByID[cmd[p].id] = None
    <3>1. /\ stage' = [stage EXCEPT ![p] = "inserted"] /\ UNCHANGED inFlight
          /\ pendingByID' = [pendingByID EXCEPT ![cmd[p].id] = p]
          /\ timer' = [timer EXCEPT ![p] = "armed"]
      BY Zenon, <1>4, <2>3 DEF Insert, MoveTo, SetTimer
    <3>2. Holds(p) /\ Holds(p)'
      BY Zenon, <1>a, <2>1, <3>1
    <3>3. \A q \in Commands : q # p => (Holds(q)' <=> Holds(q))
      BY Zenon, <1>a, <2>1, <2>3, <3>1 DEF Constants
    <3> QED
      BY Zenon, <2>1, <3>1, <3>2, <3>3, SlotsKept
  <2> QED
    BY Zenon, <2>2, <2>3
<1>5. ASSUME NEW p \in Commands, WriteFailedResolve(p) PROVE InFlightExact'
  <2>1. /\ stage' = [stage EXCEPT ![p] = "failing"] /\ stage[p] = "resolving" /\ UNCHANGED cmd
        /\ cmd[p].id \in Requests
    BY Zenon, <1>5 DEF WriteFailedResolve, MoveTo, SettleInv, Types
  <2>2. \A q \in Commands : stage'[q] = "acquired" <=> stage[q] = "acquired"
    BY Zenon, <1>a, <2>1
  <2>3. CASE pendingByID[cmd[p].id] # None
    BY Zenon, <1>5, <2>1, <2>2, <2>3, ResolveFrees DEF WriteFailedResolve
  <2>4. CASE pendingByID[cmd[p].id] = None
    BY Zenon, <1>5, <2>1, <2>2, <2>4, SlotsKept DEF WriteFailedResolve
  <2> QED
    BY Zenon, <2>3, <2>4
<1>6. ASSUME NEW p \in Commands,
             Handle(p), ~Acquire(p), ~Insert(p), ~WriteFailedResolve(p)
      PROVE  InFlightExact'
  <2>1. /\ UNCHANGED <<cmd, pendingByID, timer, inFlight>> /\ stage[p] # "acquired"
        /\ \E at \in Stages \ {"acquired"} : stage' = [stage EXCEPT ![p] = at]
    BY Zenon, <1>6 DEF Handle, CreateRelayRequest, Refuse, Reject, WriteToAgent, WriteFails,
       WriteFailedShell, FailRelayRequest, MarkSent, MoveTo
  <2> QED
    BY Zenon, <1>a, <2>1, SlotsKept
<1>7. ASSUME NEW p \in Commands, TimerClaims(p) PROVE InFlightExact'
  <2>1. /\ UNCHANGED <<stage, cmd, inFlight>> /\ timer[p] = "fired"
        /\ victim' = [victim EXCEPT ![p] = pendingByID[cmd[p].id]]
        /\ pendingByID' = [pendingByID EXCEPT ![cmd[p].id] = None]
        /\ timer' = [timer EXCEPT ![p] = IF pendingByID[cmd[p].id] = None THEN "over" ELSE "claimed"]
    BY Zenon, <1>7 DEF TimerClaims, SetTimer
  <2>2. cmd[p].id \in Requests /\ DOMAIN victim = Commands /\ stage[p] # "acquired"
    BY Zenon, <2>1 DEF SettleInv, Types, RowGuards, Concerns, EarlyState
  <2>3. pendingByID[cmd[p].id] \in {None, p}
    <3>1. victim'[p] \in {None, p}
      BY Zenon DEF SettleInv, TimerState
    <3> QED
      BY Zenon, <2>1, <2>2, <3>1
  <2>4. Holds(p)' <=> Holds(p)
    BY Zenon, <1>a, <2>1, <2>2, <2>3 DEF Constants
  <2>5. \A q \in Commands : q # p => (Holds(q)' <=> Holds(q))
    BY Zenon, <1>a, <2>1, <2>2, <2>3 DEF Constants
  <2> QED
    BY Zenon, <2>1, <2>4, <2>5, SlotsKept
<1>8. ASSUME NEW p \in Commands, TimerReleases(p) PROVE InFlightExact'
  <2>1. victim[p] = p /\ timer[p] = "claimed"
    BY Zenon, <1>8 DEF TimerReleases, SettleInv, TimerState
  <2>2. /\ UNCHANGED <<stage, cmd, pendingByID>> /\ timer' = [timer EXCEPT ![p] = "released"]
        /\ inFlight' = Release(cmd[p].app)
    BY Zenon, <1>8, <2>1 DEF TimerReleases, SetTimer
  <2>3. cmd[p].app \in Apps /\ stage[p] # "acquired"
    BY Zenon, <2>1 DEF SettleInv, Types, RowGuards, Concerns, EarlyState
  <2>4. \A r \in Requests : pendingByID[r] # p
    BY Zenon, <2>1 DEF SettleInv, PendingState
  <2>5. Holds(p) /\ ~Holds(p)' /\ \A q \in Commands : q # p => (Holds(q)' <=> Holds(q))
    BY Zenon, <1>a, <2>1, <2>2, <2>3, <2>4
  <2>6. UNCHANGED cmd
    BY Zenon, <2>2
  <2> HIDE DEF Holds
  <2> QED
    BY Zenon, <2>2, <2>3, <2>5, <2>6, SlotFreed
<1>9. ASSUME NEW p \in Commands, TimerFires(p) \/ TimeoutShell(p) \/ TimeoutRow(p) PROVE InFlightExact'
  <2>1. /\ UNCHANGED <<stage, cmd, pendingByID, inFlight>> /\ timer[p] # "claimed"
        /\ \E to \in Timers \ {"claimed"} : timer' = [timer EXCEPT ![p] = to]
    BY Zenon, <1>9 DEF TimerFires, TimeoutShell, TimeoutRow, SetTimer
  <2> QED
    BY Zenon, <1>a, <2>1, SlotsKept
<1>10. ASSUME NEW m \in toCloud, ResponseResolve(m) PROVE InFlightExact'
  <2>1. m.id \in Requests /\ UNCHANGED <<stage, cmd>>
    BY Zenon, <1>10 DEF ResponseResolve, SettleInv, Types
  <2>2. CASE pendingByID[m.id] = None
    BY Zenon, <1>10, <2>1, <2>2, SlotsKept DEF ResponseResolve
  <2>3. CASE pendingByID[m.id] # None
    BY Zenon, <1>10, <2>1, <2>3, ResolveFrees DEF ResponseResolve
  <2> QED
    BY Zenon, <2>2, <2>3
<1>11. CASE RelayRestarts
  <2>1. \A p \in Commands : ~Holds(p)'
    BY Zenon, <1>11 DEF RelayRestarts, Constants
  <2>2. \A a \in Apps : SlotHolders(a)' = {}
    BY Zenon, <2>1, HoldersHoldNext
  <2>3. \A a \in Apps : inFlight'[a] = 0
    BY Zenon, <1>11 DEF RelayRestarts
  <2> QED
    BY Zenon, <2>2, <2>3, FS_EmptySet DEF InFlightExact
<1>12. ASSUME UNCHANGED <<stage, cmd, pendingByID, timer, inFlight>> PROVE InFlightExact'
  BY Zenon, <1>12, SlotsKept
<1>13. ASSUME NEW p \in Commands, NEW ok \in BOOLEAN, AgentAnswers(p, ok) PROVE InFlightExact'
  BY Zenon, <1>12, <1>13 DEF AgentAnswers
<1>14. CASE LinkBreaks \/ ResponseShell \/ ResponseRow
  BY Zenon, <1>12, <1>14 DEF LinkBreaks, ResponseShell, ResponseRow
<1>15. ASSUME NEW s \in Shells, PruneShell(s) PROVE InFlightExact'
  BY Zenon, <1>12, <1>15 DEF PruneShell
<1>16. ASSUME NEW r \in Requests, PruneRow(r) PROVE InFlightExact'
  BY Zenon, <1>12, <1>16 DEF PruneRow
<1>17. ASSUME NEW p \in Commands, Handle(p) \/ RunTimer(p) PROVE InFlightExact'
  BY Zenon, <1>3, <1>4, <1>5, <1>6, <1>7, <1>8, <1>9, <1>17 DEF RunTimer
<1> QED
  BY Zenon, <1>1, <1>2, <1>10, <1>11, <1>13, <1>14, <1>15, <1>16, <1>17 DEF RelayNext, Respond

-----------------------------------------------------------------------------
\* A command holds one of its app's slots from acquire to release and no
\* longer; an agent's answer is its only answer; a timer expires its own
\* command; a failed open keeps no session (router.go AddPending,
\* ResolvePending, the timer; server.go handleAgentResponse and
\* handlePendingTimeout).
THEOREM SettledOnce == RelaySpec => []CommandsSettleOnce
<1>0. Constants
  BY Zenon, CommandsAssumption DEF Constants
<1>1. RelayInit => SettleInv /\ InFlightExact
  BY Zenon, <1>0, SettleInit, SlotsInit
<1>2. SettleInv /\ InFlightExact /\ [RelayNext]_relayVars => (SettleInv /\ InFlightExact)'
  BY Zenon, <1>0, SettleNext, SlotsNext
<1>3. SettleInv /\ InFlightExact => CommandsSettleOnce
  <2> SUFFICES ASSUME SettleInv, InFlightExact PROVE CommandsSettleOnce
    OBVIOUS
  <2>1. AgentAnswerIsFinal
    BY ZenonT(60), FS_Singleton DEF SettleInv, AgentAnswered, AgentAnswerIsFinal
  <2>2. TimerExpiresItsOwn
    BY Zenon DEF SettleInv, TimerState, TimerExpiresItsOwn
  <2>3. FailedOpenHoldsNoShell
    BY DEF SettleInv, ShellState, FailedOpenHoldsNoShell
  <2> QED
    BY Zenon, <2>1, <2>2, <2>3 DEF CommandsSettleOnce
<1> QED
  BY <1>1, <1>2, <1>3, PTL DEF RelaySpec
=============================================================================

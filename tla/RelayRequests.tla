--------------------------- MODULE RelayRequests ---------------------------
(***************************************************************************)
(* The life of an app command that the cloud relays to the home's agent:   *)
(* the read loop of the app's socket admits it (handleAppWebSocket), the   *)
(* agent's answer (handleAgentResponse) or a timer (AddPending's AfterFunc *)
(* and handlePendingTimeout) settles it.  The three run in goroutines of   *)
(* their own and share the router's pending map, the app connection's      *)
(* in-flight count, the shell session registry and the durable row in      *)
(* relay_requests.                                                         *)
(*                                                                         *)
(* One action is one critical section or one statement of the store; the   *)
(* reply to the app goes with the last one before it.  The permission      *)
(* checks before the relay change no state and are left out, as are the    *)
(* file jobs (FileMoveJobs).  All app connections belong to one user, so   *)
(* the user and agent limits on shell sessions are one limit, MaxShells.   *)
(***************************************************************************)
EXTENDS Naturals, FiniteSets

CONSTANTS Commands,     \* app.command envelopes read by the cloud, each once
          Apps,         \* app connections
          Requests,     \* request IDs; the app chooses them
          Shells,       \* shell session IDs; the app chooses them
          MaxInFlight,  \* 32 in appConnection.acquire
          MaxShells,
          MaxRestarts,  \* bound on the restarts explored
          None

ASSUME LimitAssumption == MaxInFlight \in Nat /\ MaxShells \in Nat /\ MaxRestarts \in Nat
ASSUME CommandsAssumption == IsFiniteSet(Commands) /\ None \notin Commands \cup Shells

VARIABLES
  stage,       \* stage[p]: where the app's read loop stands with command p
  cmd,         \* cmd[p]: connection, request ID, shell operation and session
  pendingByID, \* the router: request ID -> command
  timer,       \* timer[p]: the timer armed for p, and its goroutine
  victim,      \* victim[p]: the command that p's timer took off the map
  inFlight,    \* appConnection.inFlight
  row,         \* relay_requests.status
  completedAt, \* the rows whose completed_at is set
  shells,      \* shellSessionRegistry: session ID -> the command that opened it
  toAgent,     \* commands written to the agent, not handled yet
  toCloud,     \* answers on their way back: [id |-> request ID, ok |-> ...]
  loop,        \* the read loop of the agent's socket
  answers,     \* answers[p]: what the app was told about p
  restarts     \* how often the cloud process was restarted

relayVars == <<stage, cmd, pendingByID, timer, victim, inFlight, row,
               completedAt, shells, toAgent, toCloud, loop, answers, restarts>>

Ops == {"plain", "open", "close"}
NoCmd == [app |-> None, id |-> None, op |-> "plain", shell |-> None]
\* The read loop is through with a command, or the process ended before the
\* app was told anything of it.
Left == {"unused", "done", "cut"}
Idle == [at |-> "idle", of |-> None, ok |-> FALSE]

RelayInit ==
  /\ stage = [p \in Commands |-> "unused"]
  /\ cmd = [p \in Commands |-> NoCmd]
  /\ pendingByID = [r \in Requests |-> None]
  /\ timer = [p \in Commands |-> "none"]
  /\ victim = [p \in Commands |-> None]
  /\ inFlight = [a \in Apps |-> 0]
  /\ row = [r \in Requests |-> "none"]
  /\ completedAt = {}
  /\ shells = [s \in Shells |-> None]
  /\ toAgent = {}
  /\ toCloud = {}
  /\ loop = Idle
  /\ answers = [p \in Commands |-> {}]
  /\ restarts = 0

MoveTo(p, s) == stage' = [stage EXCEPT ![p] = s]
SetTimer(p, t) == timer' = [timer EXCEPT ![p] = t]
Answer(p, kind) == answers' = [answers EXCEPT ![p] = @ \cup {kind}]

\* An UPDATE of a row that was never inserted, or pruned, does nothing.
\* Every status but "sent" comes with completed_at.
UpdateRow(r, s) ==
  IF row[r] = "none" THEN UNCHANGED <<row, completedAt>>
  ELSE /\ row' = [row EXCEPT ![r] = s]
       /\ completedAt' = IF s = "sent" THEN completedAt
                         ELSE completedAt \cup {r}

\* The read loop of an app's socket handles one command at a time.
Reading(a) ==
  \A p \in Commands : cmd[p].app = a => stage[p] \in Left

OpenShells == {s \in Shells : shells[s] # None}

-----------------------------------------------------------------------------
(* shell_sessions.go *)

\* authorizeShellSessionCommand: open takes a slot, every other operation
\* needs the session.
ShellAllowed(op, s) ==
  \/ op = "plain" /\ s = None
  \/ op = "open" /\ s # None /\ shells[s] = None
       /\ Cardinality(OpenShells) < MaxShells
  \/ op = "close" /\ s # None /\ shells[s] # None

\* complete: a failed open and a successful close give the slot back.
CompleteShell(p, success) ==
  IF cmd[p].op = (IF success THEN "close" ELSE "open")
  THEN shells' = [shells EXCEPT ![cmd[p].shell] = None]
  ELSE UNCHANGED shells

\* pruneLocked drops a session nobody touched for the grace period, which is
\* longer than any request takes.
PruneShell(s) ==
  /\ shells[s] # None
  /\ \A p \in Commands : cmd[p].shell = s =>
       /\ stage[p] \in Left
       /\ timer[p] \in {"none", "stopped", "over"}
       /\ loop.of # p
  /\ shells' = [shells EXCEPT ![s] = None]
  /\ UNCHANGED <<stage, cmd, pendingByID, timer, victim, inFlight, row,
                 completedAt, toAgent, toCloud, loop, answers, restarts>>

-----------------------------------------------------------------------------
(* router.go *)

Release(a) == [inFlight EXCEPT ![a] = IF @ > 0 THEN @ - 1 ELSE 0]

\* Mutant: the slot is not given back.
ResolvePendingKeepsSlot(r) ==
  /\ pendingByID' = [pendingByID EXCEPT ![r] = None]
  /\ timer' = IF timer[pendingByID[r]] = "armed"
              THEN [timer EXCEPT ![pendingByID[r]] = "stopped"] ELSE timer
  /\ UNCHANGED inFlight

\* ResolvePending, which holds the router's lock throughout: the entry goes,
\* its timer is stopped (too late if it has fired), the app's slot is free.
ResolvePending(r) ==
  /\ pendingByID' = [pendingByID EXCEPT ![r] = None]
  /\ timer' = IF timer[pendingByID[r]] = "armed"
              THEN [timer EXCEPT ![pendingByID[r]] = "stopped"] ELSE timer
  /\ inFlight' = Release(cmd[pendingByID[r]].app)

-----------------------------------------------------------------------------
(* The app's read loop: handleAppWebSocket. *)

\* A command that passed every check and found the agent connected; a shell
\* open has taken its slot.
Receive(p, a, r, op, s) ==
  /\ stage[p] = "unused" /\ Reading(a)
  /\ ShellAllowed(op, s)
  /\ cmd' = [cmd EXCEPT ![p] = [app |-> a, id |-> r, op |-> op, shell |-> s]]
  /\ shells' = IF op = "open" THEN [shells EXCEPT ![s] = p] ELSE shells
  /\ MoveTo(p, "authorized")
  /\ UNCHANGED <<pendingByID, timer, victim, inFlight, row, completedAt,
                 toAgent, toCloud, loop, answers, restarts>>

\* Mutant: ON CONFLICT DO UPDATE.
CreateRelayRequestUpserts(p) ==
  /\ stage[p] = "authorized"
  /\ row' = [row EXCEPT ![cmd[p].id] = "pending"]
  /\ MoveTo(p, "created")
  /\ UNCHANGED <<cmd, pendingByID, timer, victim, inFlight, completedAt, shells,
                 toAgent, toCloud, loop, answers, restarts>>

\* The INSERT may fail, and does if request_id, the primary key, is there.
CreateRelayRequest(p) ==
  /\ stage[p] = "authorized"
  /\ \/ /\ row[cmd[p].id] = "none"
        /\ row' = [row EXCEPT ![cmd[p].id] = "pending"]
        /\ MoveTo(p, "created")
     \/ UNCHANGED row /\ MoveTo(p, "refused")
  /\ UNCHANGED <<cmd, pendingByID, timer, victim, inFlight, completedAt, shells,
                 toAgent, toCloud, loop, answers, restarts>>

Refuse(p) ==
  /\ stage[p] = "refused"
  /\ CompleteShell(p, FALSE)
  /\ Answer(p, "error")
  /\ MoveTo(p, "done")
  /\ UNCHANGED <<cmd, pendingByID, timer, victim, inFlight, row, completedAt,
                 toAgent, toCloud, loop, restarts>>

\* AddPending, first part: acquire takes one of the app's slots.
Acquire(p) ==
  /\ stage[p] = "created"
  /\ IF inFlight[cmd[p].app] >= MaxInFlight
     THEN MoveTo(p, "rejecting") /\ UNCHANGED inFlight
     ELSE /\ inFlight' = [inFlight EXCEPT ![cmd[p].app] = @ + 1]
          /\ MoveTo(p, "acquired")
  /\ UNCHANGED <<cmd, pendingByID, timer, victim, row, completedAt, shells,
                 toAgent, toCloud, loop, answers, restarts>>

\* Mutant: the timer is never started.
InsertWithoutTimer(p) ==
  /\ stage[p] = "acquired"
  /\ IF pendingByID[cmd[p].id] # None
     THEN /\ inFlight' = Release(cmd[p].app)
          /\ MoveTo(p, "rejecting")
          /\ UNCHANGED pendingByID
     ELSE /\ pendingByID' = [pendingByID EXCEPT ![cmd[p].id] = p]
          /\ MoveTo(p, "inserted")
          /\ UNCHANGED inFlight
  /\ UNCHANGED <<cmd, timer, victim, row, completedAt, shells, toAgent,
                 toCloud, loop, answers, restarts>>

\* AddPending, second part, under the router's lock.
Insert(p) ==
  /\ stage[p] = "acquired"
  /\ IF pendingByID[cmd[p].id] # None
     THEN /\ inFlight' = Release(cmd[p].app)
          /\ MoveTo(p, "rejecting")
          /\ UNCHANGED <<pendingByID, timer>>
     ELSE /\ pendingByID' = [pendingByID EXCEPT ![cmd[p].id] = p]
          /\ SetTimer(p, "armed")
          /\ MoveTo(p, "inserted")
          /\ UNCHANGED inFlight
  /\ UNCHANGED <<cmd, victim, row, completedAt, shells, toAgent, toCloud,
                 loop, answers, restarts>>

\* Mutant: the rejection path forgets the shell slot.
RejectKeepsShell(p) ==
  /\ stage[p] = "rejecting"
  /\ MoveTo(p, "failing")
  /\ UNCHANGED <<cmd, pendingByID, timer, victim, inFlight, row, completedAt,
                 shells, toAgent, toCloud, loop, answers, restarts>>

\* AddPending returned an error: the shell slot goes back, then the row.
Reject(p) ==
  /\ stage[p] = "rejecting"
  /\ CompleteShell(p, FALSE)
  /\ MoveTo(p, "failing")
  /\ UNCHANGED <<cmd, pendingByID, timer, victim, inFlight, row, completedAt,
                 toAgent, toCloud, loop, answers, restarts>>

WriteToAgent(p) ==
  /\ stage[p] = "inserted"
  /\ toAgent' = toAgent \cup {p}
  /\ MoveTo(p, "written")
  /\ UNCHANGED <<cmd, pendingByID, timer, victim, inFlight, row, completedAt,
                 shells, toCloud, loop, answers, restarts>>

\* The socket is gone: shell slot, pending entry, row, in this order.
WriteFails(p) ==
  /\ stage[p] = "inserted"
  /\ MoveTo(p, "broken")
  /\ UNCHANGED <<cmd, pendingByID, timer, victim, inFlight, row, completedAt,
                 shells, toAgent, toCloud, loop, answers, restarts>>

WriteFailedShell(p) ==
  /\ stage[p] = "broken"
  /\ CompleteShell(p, FALSE)
  /\ MoveTo(p, "resolving")
  /\ UNCHANGED <<cmd, pendingByID, timer, victim, inFlight, row, completedAt,
                 toAgent, toCloud, loop, answers, restarts>>

WriteFailedResolve(p) ==
  /\ stage[p] = "resolving"
  /\ IF pendingByID[cmd[p].id] # None
     THEN ResolvePending(cmd[p].id)
     ELSE UNCHANGED <<pendingByID, timer, inFlight>>
  /\ MoveTo(p, "failing")
  /\ UNCHANGED <<cmd, victim, row, completedAt, shells, toAgent, toCloud,
                 loop, answers, restarts>>

\* FailRelayRequest and the error to the app, for Reject and WriteFails.
FailRelayRequest(p) ==
  /\ stage[p] = "failing"
  /\ UpdateRow(cmd[p].id, "failed")
  /\ Answer(p, "error")
  /\ MoveTo(p, "done")
  /\ UNCHANGED <<cmd, pendingByID, timer, victim, inFlight, shells, toAgent,
                 toCloud, loop, restarts>>

\* MarkRelayRequestSent does not look at the status it overwrites.
MarkSent(p) ==
  /\ stage[p] = "written"
  /\ UpdateRow(cmd[p].id, "sent")
  /\ MoveTo(p, "done")
  /\ UNCHANGED <<cmd, pendingByID, timer, victim, inFlight, shells, toAgent,
                 toCloud, loop, answers, restarts>>

-----------------------------------------------------------------------------
(* The timer of a pending request. *)

TimerFires(p) ==
  /\ timer[p] = "armed"
  /\ SetTimer(p, "fired")
  /\ UNCHANGED <<stage, cmd, pendingByID, victim, inFlight, row, completedAt,
                 shells, toAgent, toCloud, loop, answers, restarts>>

\* Mutant: onTimeout runs although the entry is gone.
TimerClaimsAnyway(p) ==
  /\ timer[p] = "fired"
  /\ victim' = [victim EXCEPT ![p] = p]
  /\ SetTimer(p, IF pendingByID[cmd[p].id] = None THEN "released" ELSE "claimed")
  /\ pendingByID' = [pendingByID EXCEPT ![cmd[p].id] = None]
  /\ UNCHANGED <<stage, cmd, inFlight, row, completedAt, shells, toAgent,
                 toCloud, loop, answers, restarts>>

\* The timer's goroutine looks its request up by ID under the router's lock
\* and takes off the map whatever it finds.
TimerClaims(p) ==
  /\ timer[p] = "fired"
  /\ victim' = [victim EXCEPT ![p] = pendingByID[cmd[p].id]]
  /\ SetTimer(p, IF pendingByID[cmd[p].id] = None THEN "over" ELSE "claimed")
  /\ pendingByID' = [pendingByID EXCEPT ![cmd[p].id] = None]
  /\ UNCHANGED <<stage, cmd, inFlight, row, completedAt, shells, toAgent,
                 toCloud, loop, answers, restarts>>

TimerReleases(p) ==
  /\ timer[p] = "claimed"
  /\ inFlight' = Release(cmd[victim[p]].app)
  /\ SetTimer(p, "released")
  /\ UNCHANGED <<stage, cmd, pendingByID, victim, row, completedAt, shells,
                 toAgent, toCloud, loop, answers, restarts>>

\* handlePendingTimeout: the shell slot, then the row and the app's error.
TimeoutShell(p) ==
  /\ timer[p] = "released"
  /\ CompleteShell(victim[p], FALSE)
  /\ SetTimer(p, "expiring")
  /\ UNCHANGED <<stage, cmd, pendingByID, victim, inFlight, row, completedAt,
                 toAgent, toCloud, loop, answers, restarts>>

TimeoutRow(p) ==
  /\ timer[p] = "expiring"
  /\ UpdateRow(cmd[victim[p]].id, "timed_out")
  /\ Answer(victim[p], "timeout")
  /\ SetTimer(p, "over")
  /\ UNCHANGED <<stage, cmd, pendingByID, victim, inFlight, shells, toAgent,
                 toCloud, loop, restarts>>

-----------------------------------------------------------------------------
(* The agent, and the read loop of its socket: handleAgentResponse. *)

\* The agent answers a command once, with a result or an error.
AgentAnswers(p, ok) ==
  /\ p \in toAgent
  /\ toAgent' = toAgent \ {p}
  /\ toCloud' = toCloud \cup {[id |-> cmd[p].id, ok |-> ok]}
  /\ UNCHANGED <<stage, cmd, pendingByID, timer, victim, inFlight, row,
                 completedAt, shells, loop, answers, restarts>>

\* The connection breaks: what is on it is lost, in both directions.
LinkBreaks ==
  /\ toAgent # {} \/ toCloud # {}
  /\ toAgent' = {} /\ toCloud' = {}
  /\ UNCHANGED <<stage, cmd, pendingByID, timer, victim, inFlight, row,
                 completedAt, shells, loop, answers, restarts>>

\* An answer nobody waits for any more is dropped.
ResponseResolve(m) ==
  /\ loop = Idle /\ m \in toCloud
  /\ toCloud' = toCloud \ {m}
  /\ IF pendingByID[m.id] = None
     THEN UNCHANGED <<pendingByID, timer, inFlight, loop>>
     ELSE /\ ResolvePending(m.id)
          /\ loop' = [at |-> "shell", of |-> pendingByID[m.id], ok |-> m.ok]
  /\ UNCHANGED <<stage, cmd, victim, row, completedAt, shells, toAgent,
                 answers, restarts>>

ResponseShell ==
  /\ loop.at = "shell"
  /\ CompleteShell(loop.of, loop.ok)
  /\ loop' = [loop EXCEPT !.at = "row"]
  /\ UNCHANGED <<stage, cmd, pendingByID, timer, victim, inFlight, row,
                 completedAt, toAgent, toCloud, answers, restarts>>

\* CompleteRelayRequest or FailRelayRequest, and the answer to the app.
ResponseRow ==
  /\ loop.at = "row"
  /\ UpdateRow(cmd[loop.of].id, IF loop.ok THEN "completed" ELSE "failed")
  /\ Answer(loop.of, IF loop.ok THEN "result" ELSE "agent_error")
  /\ loop' = Idle
  /\ UNCHANGED <<stage, cmd, pendingByID, timer, victim, inFlight, shells,
                 toAgent, toCloud, restarts>>

-----------------------------------------------------------------------------
(* The end of the process, and the retention job. *)

\* Every goroutine, timer and registry is gone.  ExpireRelayRequests, at
\* startup and only then, settles the open rows past their deadline.
RelayRestarts ==
  /\ restarts < MaxRestarts
  /\ restarts' = restarts + 1
  /\ stage' = [p \in Commands |->
                 IF stage[p] = "unused" THEN "unused"
                 ELSE IF answers[p] = {} THEN "cut" ELSE "done"]
  /\ timer' = [p \in Commands |-> IF timer[p] = "none" THEN "none" ELSE "over"]
  /\ pendingByID' = [r \in Requests |-> None]
  /\ inFlight' = [a \in Apps |-> 0]
  /\ shells' = [s \in Shells |-> None]
  /\ toAgent' = {} /\ toCloud' = {} /\ loop' = Idle
  /\ \E expired \in SUBSET {r \in Requests : row[r] \in {"pending", "sent"}} :
       /\ row' = [r \in Requests |->
                    IF r \in expired THEN "timed_out" ELSE row[r]]
       /\ completedAt' = completedAt \cup expired
  /\ UNCHANGED <<cmd, victim, answers>>

\* No goroutine, timer or message concerns request ID r any more.
Settled(r) ==
  /\ \A p \in Commands : cmd[p].id = r =>
       /\ stage[p] \in Left
       /\ timer[p] \in {"none", "stopped", "over"}
       /\ p \notin toAgent /\ loop.of # p
  /\ \A m \in toCloud : m.id # r

\* PruneLifecycle deletes rows completed days ago: the retention is far
\* longer than anything above takes.
PruneRow(r) ==
  /\ r \in completedAt /\ Settled(r)
  /\ row' = [row EXCEPT ![r] = "none"]
  /\ completedAt' = completedAt \ {r}
  /\ UNCHANGED <<stage, cmd, pendingByID, timer, victim, inFlight, shells,
                 toAgent, toCloud, loop, answers, restarts>>

-----------------------------------------------------------------------------
Handle(p) ==
  \/ CreateRelayRequest(p) \/ Refuse(p) \/ Acquire(p) \/ Insert(p)
  \/ Reject(p) \/ WriteToAgent(p) \/ WriteFails(p) \/ WriteFailedShell(p)
  \/ WriteFailedResolve(p) \/ FailRelayRequest(p) \/ MarkSent(p)

RunTimer(p) ==
  \/ TimerFires(p) \/ TimerClaims(p) \/ TimerReleases(p)
  \/ TimeoutShell(p) \/ TimeoutRow(p)

Respond ==
  \/ \E m \in toCloud : ResponseResolve(m)
  \/ ResponseShell \/ ResponseRow

RelayNext ==
  \/ \E p \in Commands, a \in Apps, r \in Requests, op \in Ops,
        s \in Shells \cup {None} : Receive(p, a, r, op, s)
  \/ \E p \in Commands : Handle(p) \/ RunTimer(p)
  \/ \E p \in Commands, ok \in BOOLEAN : AgentAnswers(p, ok)
  \/ LinkBreaks \/ Respond
  \/ \E s \in Shells : PruneShell(s)
  \/ RelayRestarts
  \/ \E r \in Requests : PruneRow(r)

RelaySpec == RelayInit /\ [][RelayNext]_relayVars

\* Goroutines run on and timers fire; nothing is assumed of the agent, the
\* link or the apps.
RelayFairness ==
  /\ \A p \in Commands : WF_relayVars(Handle(p)) /\ WF_relayVars(RunTimer(p))
  /\ WF_relayVars(Respond)

-----------------------------------------------------------------------------
\* The commands that own one of app a's in-flight slots.
SlotHolders(a) ==
  {p \in Commands :
     /\ cmd[p].app = a
     /\ \/ stage[p] = "acquired"
        \/ \E r \in Requests : pendingByID[r] = p
        \/ \E q \in Commands : timer[q] = "claimed" /\ victim[q] = p}

\* appConnection.inFlight counts exactly the commands between acquire and
\* release: no path (answer, timeout, failed write, rejection) leaks a slot,
\* which would lock the app out for good, or frees one twice, which would
\* lift its limit.
InFlightExact ==
  \A a \in Apps : inFlight[a] = Cardinality(SlotHolders(a))

\* A timer's goroutine finds its request by ID.  A timer that fired and lost
\* the race against the answer never expires a later command that reuses the
\* ID: the row, kept until long after, keeps the ID from being admitted.
TimerExpiresItsOwn ==
  \A p \in Commands : victim[p] \in {None, p}

\* What the agent said of a command is the only thing its app is told: no
\* timeout, no routing error before or after it.
AgentAnswerIsFinal ==
  \A p \in Commands :
    answers[p] \cap {"result", "agent_error"} # {} =>
      Cardinality(answers[p]) = 1

\* An app that was told its shell.session.open failed no longer holds the
\* session slot, whichever of the four failure paths told it.
FailedOpenHoldsNoShell ==
  \A p \in Commands, s \in Shells :
    answers[p] # {} /\ answers[p] # {"result"} => shells[s] # p

\* A relayed command is settled once: its slot is given back once, the
\* agent's answer is the only one its app is told, a timer expires its own
\* command and a failed open holds no session (router.go AddPending and
\* ResolvePending, server.go handleAgentResponse and handlePendingTimeout).
CommandsSettleOnce ==
  InFlightExact /\ AgentAnswerIsFinal /\ TimerExpiresItsOwn /\ FailedOpenHoldsNoShell

\* Every command the cloud has taken on is answered in the end - by the
\* agent, the timer or a failure - unless the process is restarted first.
EveryCommandAnswered ==
  <>[](\A p \in Commands : stage[p] \in {"unused", "cut"} \/ answers[p] # {})

=============================================================================

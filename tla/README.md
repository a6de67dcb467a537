# TLA+ model of Hank Remote

Hank Remote lets the apps and the dashboard of a household reach the machines
at home.  A **cloud** service (`src/internal/cloud`, PostgreSQL behind
`src/internal/store`) accepts WebSockets from **agents** (`src/internal/agent`)
and from **apps**, relays commands between them, moves files and remote desktops
over the agents' sockets, keeps notes and an assistant, and decides who may do
what.  A separate **storage worker** (`src/internal/storageops`,
`src/cmd/hank-db-ops`) backs the database up.

The cloud is concurrent throughout: every HTTP request, every socket and every
timer is a goroutine; they meet in a few maps under a mutex, in bounded
channels, and in rows of the database that are usually read and written in
separate statements.  The agent runs a goroutine per move and per download, and
after a reconnect a second read loop beside the first.  The storage worker
shares only files with the cloud.  The modules here model these goroutines one
critical section, one channel operation, one file operation or one SQL
transaction per action.

## Parts and modules

| Part | Modules | What must hold |
|---|---|---|
| Agent sockets, router | `AgentRouting`, `HomeProofs` | routes point to served sockets, the stored status ends up right |
| Command relay, shell registry | `RelayRequests`, `RelayRequestsProofs` | slots exact, one final answer, a late timer harms nobody, every command answered |
| Managed file moves | `FileMoveJobs`, `FileEndsProofs` | no copy is lost, "completed" means moved, attempts end |
| File transfers | `TransferSession`, `FileUpload`, `FileDownload`, `FileUploadProofs`, `FileEndsProofs` | the file is a prefix, completed is whole, the lease is freed, nobody waits for ever |
| Desktop sessions and relay | `DesktopRelay`, `DesktopSessions`, `DesktopPipe`, `DesktopSessionsProofs` | the right sockets are paired, credentials work once, frames in order within the budget, the agent is given back |
| Desktop trust and enrollment | `DesktopTrust`, `DesktopEnrollment`, `DesktopTrustProofs` | revoked keys stay out, sessions follow the trust |
| Storage worker, event log | `StorageWorker`, `IntentQueue`, `StorageEvents`, `StorageWorkerProofs` | a request is executed until it ended once, the stack comes back, events are kept and published |
| Notes, attachments, home sync | `CloudNotes`, `NoteAttachments`, `HomeSync`, `NotesProofs` | an edit counts once, notebooks stay whole, attachments have files, both sides agree |
| Assistant and its index | `AssistantIndex`, `AssistantRuns` | no approval acts after an answered one, the index follows its sources |
| Installed apps | `AppPackages`, `AgentApps`, `HomeApps` | disk, memory and the cloud's rows agree, accepted packages install |
| Accounts, invitations, agents of the home | `HomeAccounts`, `HomeAccess`, `HomeProofs` | members come by invitation, provisioning is all or nothing, removed agents stay out |

`PROJECT.json` lists every component with its status, maps every definition to
the lines it models, and lists each hazard at the line where it bites.

`TransferSession`, `DesktopTrust`, `HomeAccounts` and `AppPackages` hold the
operators (store transactions, methods, checks) that the module after them in
the table makes steps of; `Tables` has what a table of rows needs, `IntentQueue`
is an abstract specification; the other modules are state machines.  An `MC`
module puts components together for TLC and adds what only TLC needs.
`AccessScenarios`, `TrustScenarios` and `AssistantScenarios` hold what may
happen in a behaviour.

### AgentRouting, RelayRequests (MCAgents)

`handleAgentWebSocket` of one socket is `handler[c]`: `accepted` after the
token check, `upserted` and `routed` inside a registration, `live` in the read
loop, `closing`, `unregistered`, `rowClosed`, `closed` through the deferred
cleanup, `lost` if the process died.  `agentsByHomeID` and
`primaryAgentByHomeID` are the router's maps (one home: the deployment has
one), `status`, `enrolled` and `connRow` the store, `dialed` the agent's own
view.  `registered` says whether the goroutine knows its connection ID, which
decides what its cleanup may remove.  The cleanup drops the errors of its two
writes (`SetOfflineFails`); a socket may stay `live` and silent for ever, since
the code neither pings nor sets a read deadline.

In `RelayRequests` `stage[p]` is the app's read loop working on command `p`,
`timer[p]` the timer `AddPending` armed and the goroutine it becomes, `loop` the
agent socket's read loop in `handleAgentResponse`.  Shared: `pendingByID`,
`inFlight`, `shells`, `row` and `completedAt`.  `AddPending` is two actions
because `acquire` and the insertion take different locks.  A command the process
dropped when it ended is `cut`.

### FileMoveJobs, TransferSession, FileUpload, FileDownload (MCFileMoveJobs, MCFileUpload, MCFileEnds)

One job, one file.  On the cloud `submit` (the app's read loop), `pending` and
`expiring` (the relay's timer), `loop` (the agent socket's read loop, which
reads the row and writes it in two statements) and `op[h]` (cancel, retry and
rollback requests) all write `status`.  On the agent `attempt[k]` is a move
goroutine, `moves` the registration by job ID, `slot` the single move slot.
`source` and `dest` are the file at both ends.  An attempt keeps the connection
it was started on: its events are lost once that connection is gone.

`FileUpload` is the PUT side: handlers `pc[h]`, the registry with its session
`objects` (a restored session is a new object), the row and the job, the
attempts' channels, the socket in both directions, the reader goroutine of each
connection, the agent's `handles` and `file`.  When a connection is lost the
agent does not wait for its read loop: `late` are the messages such loops are
still handling, each of which cuts or writes the file at any later time, and
`raced` says that an upload was opened while one of them did.  Chunks are
numbered, so a file with a hole or a misplaced chunk is a different sequence.
The size limit is read per request, as the policy may change between requests.
`FileDownload` is the GET side and the previews, with the capacities of `DataCh`
and of the link, because there everything turns on who waits for whom.

### DesktopPipe, DesktopRelay, DesktopSessions (MCDesktop, MCHome)

`DesktopPipe` is one direction of a paired session: `reader` is `readPump` with
`enqueue` in it, `writer` is `writePump` with `next` and `complete`; the two
channels of capacity one are the Booleans `available` and `space`.

`DesktopRelay` is the registry: `registry` is `relay.sessions`, and an object
has a `stage`, its claim, its endpoints and its reservations.  `caught` are the
objects that `Revoke` or `failUnpaired` has looked up and will fail in a later
critical section.  The module assumes nothing of its callers.  `DesktopSessions`
extends it with them: the row (`row`, `epoch`, `window`), the credentials
`cred`, the request that creates a session, offers, the agent's event between
the reading and the writing of the row, `transport_closed` events on their way
to the store, calls of `Revoke` on their way to the relay, and `pc[h]`, the
handler of a data WebSocket.  Deadlines are flags in `passed` that the clock sets
at any time.  `DesktopSessions` implements `DesktopRelay`'s specification
(theorem `UsesRelay`).

### DesktopTrust, DesktopEnrollment (MCHome)

`DesktopTrust` has the tables - trust root, identities, pending enrollments,
challenges, sessions that refer to them - with their unique indexes and foreign
keys, and one operator per store transaction.  `DesktopEnrollment` has the
handlers, every store call a step: server-managed bootstrap and migration,
browser and endpoint enrollment, approval, revocation, rotation, reset and
recovery, the opening of a session, the end of a login and the maintenance loop.
A key is its fingerprint, a certificate the chain of the signings it contains.
`relays` are the sessions with sockets in the relay's memory: a commit does not
touch them, `revokeDesktopRelays` does.  A side of a session consumes its
credential and registers in the relay in two steps, and an end by the user
reads, commits and tells the relay in three.

### StorageWorker, IntentQueue, StorageEvents (MCStorage)

`StorageWorker` has the worker's loop step by step (scheduled jobs by their cron
fields, backup, restore test, primary restore, each command failing or not; a
failing pgBackRest may have added or expired a backup, and `backups.json` may
stay as it was), the cloud's handlers that sign intents and ask for tokens, and
crashes of the worker between any two steps.  A file that cannot be read or
verified stops the listing and with it all intents, a number of times (`stuck`),
until it is repaired.  It implements `IntentQueue` (property
`ImplementsIntentQueue`): queued are the intent files, attempted the intents an
execution has begun with, ended those an execution came to the end of, finished
those consumed.  `StorageEvents` is the log that two processes append to (or
fail to), prune through one temporary file and clear without a lock, the
forwarder that publishes what it has not seen, and the fold into the status
page.

### CloudNotes, NoteAttachments, HomeSync, AssistantIndex, AssistantRuns (MCRecords)

`CloudNotes` has `user_notes` with its constraints and triggers, shares,
recorded operations, the notes service behind HTTP and WebSocket, and the hub;
`handlers[h]` holds what a request has read when it goes on to write.  A body is
the sequence of the marks that edits left in it, a revision what is hashed.
`NoteAttachments` adds files, the transactions of upload and delete, and the
pruning job, whose walk any error ends together with the maintenance loop
(`maintenanceEnds`); `HomeSync` the one reconciliation run per home, which works
from a manifest and rows read at its start while requests and local edits go on.
A pull saves the note as the owner of the home (under a free name when they do
not see it), then reads it back, shares it with the members one by one and writes
the agent's text, each in a step of its own.

`AssistantIndex` has the job table in the order of `updated_at`, the worker and
the index; `AssistantRuns` the conversations, the runs that wait for a
confirmation or for a tool of the device, staged attachments and the memory of
conversations.  What a prompt's words match is part of the request.  The tools
that act, ask for a confirmation or show cards that a later prompt may pick are
modelled up to their answer; those that only read answer in words.  A request
ends at any of its steps when a statement, the client or the agent's answer
fails (`RequestFails`).  Statements of the index queue fail while a condition
lasts (`Unreliable`), and a source may refuse to be indexed for good (`Broken`).

### AppPackages, AgentApps, HomeApps (MCApps, MCHome)

`AppPackages` is what `PreviewArchive` and `ValidateManifest` accept and what an
installation writes, on paths as sequences of names.  `AgentApps` is the app
manager of the agent: one file operation per step, which the disk may refuse
(`DiskFails`), the configuration and the declared secrets, the runner with its
deadline, stops of the agent between any two steps and in the middle of a write
of a state file.  `Load` reads the directories in order and stops at the first
that it cannot read.  `HomeApps` is `/v1/home/apps` and the rows the cloud keeps,
or fails to store (`PersistFails`).

### HomeAccounts, HomeAccess (MCHome)

`HomeAccounts` has accounts, Entra identities, the home with members,
invitations and permissions, login sessions, tickets, backoff, agents and
tokens, an operator per store call; `HomeAccess` the requests, a step per store
call that another request can disturb.

## Runs

| Run | Instance | Properties |
|---|---|---|
| `agents` | two sockets of one or two primary agents; or two commands, one app with one slot, one shell, one restart | `OfflineOnceAllClosed`, `UnrouteHasCause`, `LiveAgentBecomesOnline`, `CommandsSettleOnce`, `EveryCommandAnswered` |
| `file_move` | a move by copy with two of cancel, retry, rollback, break, crash, restart; or a rename with one | `CopySurvives`, `CompletedMeansMoved` |
| `upload` | two PUTs, two chunks, no limit or one chunk, one break, one restart, failing disk | `UploadIsFaithful`, `GrowthWithinLimit` |
| `file_ends` | a GET and a preview, two chunks, capacities one, one break; or a move with one request, one break or crash, one restart | `DownloadIsExact`, `RequestsEnd`, `AttemptsEnd` |
| `desktop` | one agent, two sessions, two sockets, two epochs, a restart, in three combinations | `PairedByClaim`, `JoinedOnce`, `EndedStaysEnded`, `AgentGivenBack` |
| `storage` | up to two intents, four minutes, one crash, four configurations; or up to three events | `OperationsAreAsked`, `ImplementsIntentQueue`, `StackComesBack`, `EventsAreKept`, `EventsArePublished` |
| `home` | scenarios of access, trust and apps; or four frames | `ProvisionedAccountsAreScoped`, `EnrollmentIsExact`, `MembersJoinByInvitation`; `RevokedTrustStaysOut`, `SessionsFollowTrust`; `AgentAppsConsistent`, `RowsFollowAgent`, `AgentIsFreeAgain`; `FramesAreAccounted`, `FramesArriveOrEnd` |
| `records` | scenarios of notes, attachments, sync and assistant | `EditingIsShared`, `NotebookHierarchy`; `LiveAttachmentsHaveFiles`, `NotesSettle`; `QuietSyncAgrees`; `RunsActOnce`, `IndexFollowsSources`, `JobsSettle` |
| `agent_unregistered_cleanup`, `file_move_rollback`, `upload_restore`, `download_reader` | violations | see *Disagreements* |

A property that names several facts is a conjunction of the components'
invariants; its comment in the MC module names them.  Where the code does not
keep a promise in some case, the property names the case and holds in all
others:

* `UploadIsFaithful`: one attempt at a time and no chunk in a wrong place, always;
  the file is a prefix and a completed one is whole until an upload was opened
  while a read loop of a lost connection was still handling a message.
* `OperationsAreAsked`: `backups.json` may be out of date after a failed run or
  a failed write; the archive of the attachments is named after the newest
  backup of the repository all the same.
* `EventsAreKept`: an event may be missing only if it was appended while another
  call was between its reading of the log and its rename, and what was cleared
  stays away unless such a call was at work; a cloud process publishes an event
  no more often than it found it new, and handled it.
* `SessionsFollowTrust`: a relay belongs to a session in force, except for those
  that the migration ended and those where a side registered after the end.
* `EditingIsShared`: an operation takes effect in one batch only, and no more
  often than that batch holds it.
* `NotesSettle`: no file without an attachment stays, unless an error of the walk
  has ended the maintenance loop.
* `QuietSyncAgrees`: the winner is in the note itself, or under another name when
  the owner of the home does not see the note.
* `RunsActOnce`: no approval executes after one was answered; approvals that
  overlap, or repeat one whose request failed, may each execute.
* `IndexFollowsSources`: what is completed has the text of its source, except for
  writes that enqueue nothing, or whose request was overtaken or not stored.
* `JobsSettle`: a job ends unless its source cannot be indexed for good (then it
  is retried for ever) or the write of its result failed (then it stays as it is
  until a restart).
* `AgentAppsConsistent`: memory and disk agree except for an app whose last write
  the disk refused, one that `Load` did not come to, and overlapping commands.
* `RowsFollowAgent`: a row is what the app was at some moment since the last
  undisturbed list was stored.
* `AgentIsFreeAgain`: the agent's commands end, except for a download that stalls
  and an app that left a child holding its output.

**One run for several components.**  `MCAgents`, `MCFileEnds`, `MCStorage`,
`MCHome` and `MCRecords` put components side by side that do not look at each
other's state.  A behaviour is of one of them: a variable (`about`, `focus`) or
the scenario chooses it at the start and the others stay as they are.  The set
of reachable states is the union of the components' own, not their product, so
nothing is lost or gained by it.

**Scenarios.**  The state of accounts, trust, notes, apps and the assistant is
too rich for "all requests at any time".  A behaviour starts with a scenario, a
start state the program can be in and a small set of requests and events; they
begin in any order and at any step of each other, or never.  The scenarios are
chosen so that every handler meets the handlers that write the same rows.
Together they fire every action and every disjunct.

**Why the bounds are enough.**  Two sockets of one agent are what a reconnect
needs, and the same two sockets can belong to two primaries.  Two commands
cover the reuse of a request ID; on one app's only slot they cover every
release.  Two of cancel, retry and rollback give two overlapping attempts; a
third repeats one of them (the constraint `TwoIncidents` counts breaks, crashes
and restarts among them).  Two chunks distinguish a prefix from a hole and fill
a channel of capacity one; the code's 16 frames behave the same with a longer
file.  `upload` runs under the constraint `OneRestore` (one session object
between two restarts): it excludes the race
that `upload_restore` exhibits, so that the run shows what else a restart can
do.  The frame sizes of `home` are below the queue's budget, above it and above
the frame limit.  A behaviour of `desktop` has two sockets in one epoch
(pairing, repeated joins, a credential used twice), or one socket with two
epochs, two windows and a restart (everything that comes late for an old epoch),
or two sessions without sockets (who gets the agent); its safety properties are
proved without these bounds.  In `storage` two minutes separate a scheduled job
from its repetition, one crash separates each step from the next, and the event
log holds two entries, so that three events, or two long ones, make it prune
while another append is under way, and a pass over it reads two, so that it may
miss one.

No run checks for deadlock: these systems may come to rest, when every socket,
command or request of the instance has been used.

## Fairness

Weak fairness is assumed of goroutines and tickers only: a goroutine that can
take its next step does (Go's scheduler guarantees it), an armed timer fires, an
agent sends its heartbeat (15 s) on the socket it is using.  A socket the agent
has left, or whose link died without a close, sends none, and no end of it is
assumed.  Nothing is assumed of users, apps, links, crashes, or of the agent
answering a command.

* Transfers: the agent's streams and its read loop are goroutines as well.
* `DesktopPipe`: a write returns once its context is cancelled; a peer may hold
  it up until then.
* `DesktopSessions`: the clock reaches every deadline, the relay's timers fire
  and the ticker of `StartRuntime` expires rows (10 s).  The goroutines that
  revoke or record a loss get none: the deadlines must do without them.
* `StorageWorker`: the worker goes on, is started again after a crash (the
  compose file's restart policy), its tick fires and time passes.  The commands
  it runs end; the code sets them no timeout, so this is an assumption about
  docker and pgBackRest.  A file that stops the listing is repaired in the end.
  `StorageEvents`: the forwarder's ticker.
* `HomeApps`: the agent is started again, its commands and the cloud's handlers
  go on; an app's process may hang for ever, and the runner's deadline ends it
  unless a child of the app keeps the output open.  A download has no deadline
  and is not assumed to end.
* `HomeSync`: the goroutine of a run goes on.  `NoteAttachments`: the pruning
  job runs again and again unless an error has ended its loop.  Strong fairness
  is assumed of one thing, the age of a file: the model lets ages pass only
  between two runs of the job, and there the grace period is over in the end.
* `AssistantIndex`: the worker goes on, a retry's time comes, and a handler of
  the user that has written a note asks for its index job (and may fail to).

## Refinement

* `StorageWorker` implements `IntentQueue`: every step of the worker, of a
  handler or a crash is a step of the queue or leaves it alone (theorem
  `DirectoryIsAQueue`), and every request leaves the queue in the end (checked by
  TLC in `storage` with the rest of `ImplementsIntentQueue`).
* `DesktopSessions` implements `RelaySpec` of `DesktopRelay` (theorem
  `UsesRelay`), so what is proved of the relay for any callers holds for these.

## Proofs

The theorems hold for every value of the constants that satisfies the named
assumptions of the modules: any number of sockets, requests, rows, breaks,
restarts.  Each rests on an inductive invariant, whose step lemma goes
action by action.

`HomeProofs` is about the home.  *Routing* (`RoutingSpec`, the safety part of
`AgentRouting`): `TypeOK`, `PrimaryIsRouted`, `RoutedSocketServed`,
and `OfflineOnceAllClosed` are invariants and
`UnrouteHasCause` is an action property (`RoutesGoForCause`).  It is assumed
that the primaries are agents and the null values no members of the sets.  The
last two invariants are not inductive: `RoutingInv` adds that a goroutine
knows its agent (`OwnerKnown`), that a routed or live goroutine and an open row
belong to a registered socket (`RegisteredOnceRouted`), and that an online
status is owed to a goroutine that still has to write "offline", failed to, or
was lost with the process (`OnlineIsOwed`: without it nothing connects the
status to the handlers).  *Access* (`HomeAccess`):
`ProvisionedAccountsAreScoped`, `EnrollmentIsExact` and the action property
`MembersJoinByInvitation`, from any set of scenarios whose start states are
`Startable`.  `HomeInv` says that nobody acts for a home that is not set up;
`AgentInv` that a token is named after the request that issues it and no two
requests have one name, so that a token that is gone never comes back.

`RelayRequestsProofs` proves `CommandsSettleOnce` (`SettledOnce`); the commands
are finitely many and the null value is neither a command nor a session.
`SettleInv` rests on the row of the request: as long as a goroutine, a timer or
a message concerns a command the row is there (`RowGuards`), so the primary key
lets no second command in under its ID (`OneConcern`).  From it follow that what
a timer or an answer finds under an ID is the command it was meant for
(`PendingState`, `TimerState`), that only a command that was written is
answered (`AnswersToWritten`), and who may still answer it (`EarlyState`,
`LoopState`, `AgentAnswered`, `ShellState`).  With these the holder of a slot is
told by its own state, and each step takes one slot, gives one back or leaves
all of them alone.

`FileEndsProofs` proves `DownloadIsExact` (`DownloadsAreExact`), `CopySurvives`
(`NoCopyLost`) and `CompletedMeansMoved` (`CompletedIsMoved`).  `DownloadInv`
follows the chunks of a download through the agent's stream, the link, the
reader and `DataCh`.  `CopyInv` says that a goroutine past the wait for the slot
holds it (`SlotHeld`), that the source is there while a copy of it is written
(`WritesFromSource`), and that what was verified stays whole until the source
is deleted unless a rollback, which takes no slot, removes it
(`VerifiedStays`).  `CompletedInv` follows the word "completed" from the
goroutine's result through its event, the socket's queue and the read loop to
the row.  The requests that write the job's row are finitely many.

`FileUploadProofs` proves two theorems about uploads of any size.
`UploadsStayWithinLimit`: whatever happens, `GrowthWithinLimit`; `ChunkInv` says
that a chunk on its way, or still in the hands of a late read loop, lies within
the limit of its request.
`UploadsAreFaithful`: `UploadIsFaithful` as long as `OneRestore` holds, that is,
as long as no two requests restore the session after a restart.  The condition
is needed: without it two attempts run, which `upload_restore` shows.  The file
alone says too little to be inductive.  `UploadInv` adds that an attempt keeps
the session active (`SessionState`), that a lost connection carries nothing and
messages belong to the connection they were sent on (`OnItsWay`), that no
open message is ahead of a chunk or a complete message and these are all of one
request (`InOrder`), that a request that
writes has the connection for itself and, until a race, its handle at the end of
the file (`Writers`, `AtEnd`), that nothing is on its way to a file that is
complete (`Results`, `Whole`), and what a message of a lost connection may still
do to the file (`LateState`, `Prefixed`).

`DesktopSessionsProofs` proves first, for any callers of the relay, that
`RegisteredIffOpen` and `PairedByClaim` are invariants of `RelaySpec`
(`RelaySafe`).  `RelayInv` adds what ties a Join to its object: an open object
has a claim, an endpoint that is set is a Join that was let in with that claim
on that side, a paired object has both.  `UsesRelay` shows that every step of
`DesktopSessions` is a step of the relay or leaves it alone, so that `RelayInv`
carries over (`RegistryExact`, `PairsMatch`).  `AgentExclusive` rests on the
limits, `CredentialsCurrent` and `EndIsFinal` on one lemma per transaction of
the store.  `SingleUse` (`JoinedOnce`) is not inductive: between the consumption
of a credential and `Join` nothing in the relay shows that a handler holds it.
`SocketInv` adds that a handler past the consumption has a claim whose
credential is consumed, and that no two handlers hold, or have joined with, the
same one.  Claims are the triples of session, epoch and window, sessions are
finitely many, and `MaxSessionsPerAgent` is 1, which
`desktopRelayLimits.Validate` demands.

`DesktopTrustProofs` proves `RevokedTrustStaysOut` and `SessionsFollowTrust`
from any set of scenarios whose start states are `Startable`.  A request is
interrupted between its store calls, so the tables alone are no invariant: what
a request has read may be stale when it goes on.  `Fits` says for every step
what a waiting request relies on and which of that still holds; `TablesInv` is
what the tables promise (unique keys, banned keys only in revoked rows, nothing
of an old generation in force but what a dead chain approved).

`StorageWorkerProofs` proves, for any set of limits, that the intent directory
implements the safety of `IntentQueue` (`DirectoryIsAQueue`), that no intent is
run more often than once plus the crashes and the failed completions
(`RunsAreExplained`), and `OperationsAreAsked` (`OnlyWhatWasAsked`).
`StorageInv` says that identifiers are handed out once, so that a rename never
brings back a request that has left (`IdsAreFresh`), that the worker's batch and
job are on disk and a completion follows the end of its job (`HoldsQueued`),
that only what is being run has one run more than there are excuses
(`QueuedExplained`), and that no intent asks for a job of the schedule
(`ScheduledJobs`).  `AskedInv` adds the label of the backup under way
(`ArchiveGoesWithBackup`), the order of ticks and starts, by which what has run
in the minute of a tick has run in this process (`TimeInv`, `CronInv`), and the
count of tokens (`GrantInv`). Assumed of the limits: no scheduled job falls in
the last minute (`LastMinuteAssumption`), where the model's clock stops.

`NotesProofs` puts the notes, their attachments and the home sync together
(`RecordsSpec`) and proves `NotebookHierarchy`, `LiveAttachmentsHaveFiles` and
that the hub holds open connections only.  `NotesInv` says that what a request
or the sync run has in hand carries the key and the owner of the row it will be
written over, whatever happened to that row since.  `FilesInv` says that an
attachment's identifier is in one hand (a request still to come, one upload or a
row), that no upload has an old file, and that what the pruning run may still
remove is not live.  Assumed of the start: rows are well formed, keys unique,
the hierarchy intact (`StartsAssumption`), batches consist of the operations of
the protocol (`OperationsAssumption`), identifiers are not the null value
(`IdsAssumption`) and no two uploads get one identifier (`UploadsAssumption`).

`PrimaryIsRouted`, `RoutedSocketServed`, `RegisteredIffOpen`,
`OneSessionPerAgent`, `FreshIsCurrent` and the types are proved and in no run:
the theorems say more.

**Only model-checked.**

* Liveness, because fairness and `ENABLED` are beyond the prover:
  `LiveAgentBecomesOnline`, `EveryCommandAnswered`, `RequestsEnd`,
  `AttemptsEnd`, `AgentGivenBack`, `StackComesBack`, `EventsArePublished`,
  `AgentIsFreeAgain`, `FramesArriveOrEnd`, `NotesSettle`, `QuietSyncAgrees`,
  `JobsSettle`, and that every request leaves the queue (the second half of
  `ImplementsIntentQueue`).
* Facts about what a fold over a sequence computes, which need induction over
  data: that operations are applied once (`EditingIsShared`), what a prune keeps
  and the status shows (`EventsAreKept`), the bytes of the frames in a queue
  (`FramesAreAccounted`).
* The assistant (`RunsActOnce`, `IndexFollowsSources`) and the installed apps
  (`AgentAppsConsistent`, `RowsFollowAgent`): no obstacle of principle, no proof
  yet.

## Disagreements between the code and what is said about it

* `agent_unregistered_cleanup`: the cleanup of a socket that closed before it
  registered passes an empty connection ID, which `UnregisterAgent` takes to
  match any connection; it removes the route of the socket that replaced it.
* `file_move_rollback`: a restart of the cloud (or the relay's timeout) marks a
  running move `rollback_required` while the agent finishes it; a rollback then
  deletes the only copy.
* `upload_restore`: two requests that restore a session after a restart get an
  object each, and both attempts run; the files they write interfere.
* `download_reader`: the reader of an agent's socket blocks for good in a send
  to a full `DataCh` of a request that has ended.  The same holds for a second
  error of one upload attempt and `ReadyCh`.

`PROJECT.json` quotes the statements.

Other behaviours that a reader might not expect are in the models as they are in
the code, and the properties are stated so that they allow them:

* Agents and files: a removed agent is re-created by a socket accepted before
  the removal; a relay row is marked sent over completed; a row stays open after
  a restart; a delayed `markFileJobRunning` leaves a job running; an upload handle
  of the agent is never closed; a cancellation misses the newest move attempt;
  the read loop of a lost connection writes or truncates a file that the next
  attempt has opened.
* Desktop sessions: a socket whose credential was consumed before makes a relay
  object for a session that has ended; a refused credential keeps a reservation
  until the join timeout; an agent's `disconnected` opens no window.
  `AgentGivenBack` shows that these cost time only.  In `DesktopEnrollment` the
  same relays are the `orphans` of `RelaysFollowSessions`.
* Desktop trust: the insert that `replaceDesktopTrust` uses has one placeholder
  fewer than arguments, so rotation and reset of the trust fail and leave
  the old trust in force; a prune statement that fails ends the maintenance loop.
* Accounts: accepting an invitation gives an existing member, the last admin
  included, the invited role; two demotions that cross leave no admin; a
  registration that loses first setup leaves an account without a home; a login
  that has read the old password creates its session after a reset.
* Notes: a pull of the home sync clears `mcp_excluded`; a request to sync that
  comes while a run is in flight is dropped, not repeated; a batch that holds an
  operation twice applies it twice; a note of one guest that is shared only with
  another is pulled under a new name while the old one keeps its text; an error
  of the pruning walk ends the maintenance loop until the next start; a `Chmod`
  that fails after the rename leaves a file for the pruning job.
* Assistant: completing an index job overwrites a request that re-enqueued it
  meanwhile; edits over the WebSocket, pulls of the home sync and writes of other
  users to a shared note enqueue none; a job that keeps failing is retried for
  ever, since its next attempt is always less than 30 minutes away; an approved
  effect is repeated by a second approval when the server stops, a statement or
  the client fails before the run is updated; a device's result without a tool's
  name completes a run that waits for a confirmation.
* Apps: a stop between the removal of the old directory and the rename of the
  new one loses the app and its state file; a list that the agent answers
  without an access mode resets it to `admins_only`; a write of a state file that
  the disk refuses leaves memory changed, and the cloud's row behind it.
* Storage: an intent whose execution ended and whose file could not be removed,
  or that a crash overtook, is executed again; one file that cannot be read or
  verified keeps every intent waiting; two prunes share one temporary file, and
  an event appended between the reading and the rename of either is lost; a cloud
  process that starts publishes the events it finds again.

## Not modelled

* Failures of the disk in a few places: writes of `active-task.json` are taken to
  succeed, and the writing of a temporary file is one step.  A commit that
  succeeded and reported an error is left out: `storeUploadedNoteAttachment`
  would remove the file of a row that is there, which `LiveAttachmentsHaveFiles`
  excludes.
* The WebSocket library: a write whose context is cancelled closes the
  connection there; here a lost link is an event of its own that may happen at
  any time.
* Contents of commands, audit rows, metrics, tokens and cookies, texts of errors
  and messages, rate limiters: they change none of the state modelled.
* Desktop sessions: readiness, retention (`PruneDesktopState` removes rows that
  ended long ago), pressure messages.  `ExpireDesktopSessions` is one step per
  row.
* Words and scores: what a prompt matches, how documents are ranked, what a
  model provider answers.  Each is a choice of the request.
* OAuth for MCP and ChatGPT, MCP tools, notifications, quick links, search,
  dashboard pages, the agent's configuration manager, shells and SMB access:
  single-row writes, external services or process and file I/O, with the reason
  beside each component in `PROJECT.json`.
* End-to-end encryption of desktops, migrations, configuration, the web
  dashboard's own code, deployment.

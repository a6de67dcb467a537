---------------------------- MODULE StorageWorker ----------------------------
(***************************************************************************)
(* The database worker (cmd/hank-db-ops, internal/storageops) and the      *)
(* cloud handlers that give it work.  The two processes share only files:   *)
(* the signed intents of an administrator's request, the settings, the list *)
(* of backups and active-task.json.  The worker is one loop: at a tick of   *)
(* its minute ticker it runs the scheduled jobs that are due and then the   *)
(* intents on disk, oldest first, each to its end, and consumes the intent  *)
(* file only after that.  A primary restore stops the cloud server and the  *)
(* database and starts them again, so a worker that dies half way leaves    *)
(* them down.                                                               *)
(*                                                                         *)
(* The events a step appends to the log are left to StorageEvents.         *)
(*                                                                         *)
(* Time is counted in minutes; the last minute of a behaviour stands for   *)
(* every later one, and no scheduled job falls in it.                       *)
(***************************************************************************)
EXTENDS Naturals, Sequences, FiniteSetsExt

CONSTANTS
    Limits,         \* the bounds a behaviour may have, and the settings in it
    TokenMinutes    \* validity of an admin action token

VARIABLES
    clock,          \* the current minute
    ticker,         \* the tick buffered in the worker's ticker, or Never
    config,         \* storage-config.json
    intents,        \* intents/*.json
    tokens,         \* outstanding admin action tokens of the cloud process
    request,        \* the cloud handler that is creating an intent, or Idle
    worker,         \* the worker's control state
    lastCronRuns,   \* minute in which each scheduled job last ran
    activeTask,     \* active-task.json
    repo,           \* labels of the backups in the pgBackRest repository
    backupSets,     \* backups.json
    archives,       \* labels with an archive of the note attachments
    services,       \* containers of the stack that are up
    bounds,         \* the bounds of this behaviour, from Limits
    hist            \* history, for the properties

timeVars == <<clock, ticker>>
cloudVars == <<config, intents, tokens, request>>
workerVars == <<worker, lastCronRuns, activeTask>>
repoVars == <<repo, backupSets, archives>>
storageVars == <<timeVars, cloudVars, workerVars, repoVars, services, hist>>

\* The greatest bound of a kind: requests, minutes, backups and tokens are
\* numbered up to it.
Most(field) == Max({l[field] : l \in Limits})

ASSUME LimitsAssumption ==
    /\ Most("intents") \in Nat /\ \A l \in Limits : l.intents \in 0 .. Most("intents")
    /\ Most("minutes") \in Nat /\ \A l \in Limits : l.minutes \in 1 .. Most("minutes")
    /\ \A l \in Limits : l.stored \in Nat  \* backups of an earlier time

Never == 0
Minutes == 1 .. Most("minutes")
Ids == 1 .. Most("intents")
Labels == 1 .. Most("backups")
NoLabel == 0
CronKeys == {"backup-full", "backup-diff", "amcheck", "restore-verification"}
CronOrder == [k \in CronKeys |-> CASE k = "backup-full" -> 1 [] k = "backup-diff" -> 2
                                    [] k = "amcheck" -> 3 [] k = "restore-verification" -> 4]
IntentTypes == {"backup", "restore-test", "restore-primary"}
Cloud == "cloud"
Postgres == "postgres"
Stack == {Cloud, Postgres}
NoIntent == [id |-> 0, type |-> "none", label |-> NoLabel]
NoTask == [id |-> 0, type |-> "none", status |-> "none"]
NoJob == [id |-> 0, type |-> "none", label |-> NoLabel, key |-> "none", step |-> "none"]
Idle == [pc |-> "idle", intent |-> NoIntent]
-----------------------------------------------------------------------------
(***************************************************************************)
(* Schedules.  A cron field is a set of parts: "*" or "a-b", with a step,   *)
(* or a single value, whose step the code ignores.                          *)
(***************************************************************************)
validPart(part, lo, hi) ==
    /\ part.step > 0
    /\ \/ part.kind = "any"
       \/ part.kind = "range" /\ lo <= part.from /\ part.from <= part.to /\ part.to <= hi
       \/ part.kind = "value" /\ lo <= part.from /\ part.from <= hi

FieldRanges == <<<<0, 59>>, <<0, 23>>, <<1, 31>>, <<1, 12>>, <<0, 7>>>>

ValidateCronSpec(spec) ==
    /\ Len(spec) = 5
    /\ \A f \in 1 .. 5 : /\ spec[f] # {}
                         /\ \A part \in spec[f] : validPart(part, FieldRanges[f][1], FieldRanges[f][2])

cronPartMatches(part, value) ==
    CASE part.kind = "any"   -> value % part.step = 0
      [] part.kind = "range" -> /\ part.from <= value /\ value <= part.to
                                /\ (value - part.from) % part.step = 0
      [] part.kind = "value" -> value = part.from

cronFieldMatches(field, value) == \E part \in field : cronPartMatches(part, value)

CronMatches(spec, at) ==
    /\ Len(spec) = 5
    /\ \A f \in 1 .. 5 : \/ cronFieldMatches(spec[f], at[f])
                         \/ f = 5 /\ at[f] = 0 /\ cronFieldMatches(spec[f], 7)

\* Minute m of a Sunday at midnight.
At(m) == <<m, 0, 1, 1, 0>>

Validate(cfg) ==
    /\ \A k \in CronKeys : ValidateCronSpec(cfg.cron[k])
    /\ cfg.retention \in 1 .. 30

Due(key, now) ==
    /\ CronMatches(config.cron[key], At(now))
    /\ key = "restore-verification" => config.verify

\* No scheduled job falls in the last minute.
ASSUME LastMinuteAssumption ==
    \A l \in Limits : \A c \in l.configs, k \in CronKeys : ~CronMatches(c.cron[k], At(l.minutes))
-----------------------------------------------------------------------------
StorageInit ==
    /\ bounds \in Limits
    /\ clock = 1 /\ ticker = Never
    /\ config \in {c \in bounds.configs : Validate(c)}
    /\ intents = {} /\ tokens = {} /\ request = Idle
    /\ worker = [pc |-> "idle", job |-> NoJob, batch |-> {}, due |-> {}, now |-> Never,
                 startedAt |-> 1]
    /\ lastCronRuns = [k \in CronKeys |-> Never]
    /\ activeTask = NoTask
    /\ repo = [n \in 1 .. bounds.stored |-> n] /\ backupSets = repo /\ archives = {}
    /\ services = Stack
    /\ hist = [ids |-> 0, labels |-> bounds.stored, tokens |-> 0, granted |-> 0, crashes |-> 0, stuck |-> 0, unread |-> 0,
               runs |-> [i \in Ids |-> 0], ended |-> {}, finished |-> {},
               cron |-> [k \in CronKeys |-> [m \in Minutes |-> 0]]]
-----------------------------------------------------------------------------
(***************************************************************************)
(* Time.                                                                    *)
(***************************************************************************)
MinutePasses ==
    /\ clock < bounds.minutes
    /\ clock' = clock + 1
    /\ UNCHANGED <<ticker, cloudVars, workerVars, repoVars, services, hist>>

\* The ticker fires a minute after the worker started at the earliest.  Its
\* channel holds one tick: what fires while the worker is busy is dropped.
\* The delivered time may fall in the minute of the tick before.
TickFires ==
    /\ worker.pc # "down" /\ ticker = Never
    /\ clock > worker.startedAt \/ clock = bounds.minutes
    /\ ticker' = clock
    /\ UNCHANGED <<clock, cloudVars, workerVars, repoVars, services, hist>>
-----------------------------------------------------------------------------
(***************************************************************************)
(* The cloud handlers.  A stopped cloud container answers nothing.          *)
(***************************************************************************)
SaveConfig(cfg) ==
    /\ Cloud \in services
    /\ Validate(cfg)
    /\ config' = cfg
    /\ UNCHANGED <<timeVars, intents, tokens, request, workerVars, repoVars, services, hist>>

IssueToken ==
    /\ Cloud \in services
    /\ hist.tokens < bounds.tokens
    /\ tokens' = tokens \cup {[id |-> hist.tokens + 1, expires |-> clock + TokenMinutes]}
    /\ hist' = [hist EXCEPT !.tokens = @ + 1]
    /\ UNCHANGED <<timeVars, config, intents, request, workerVars, repoVars, services>>

\* Mutant: a token may be used again until it expires.
ConsumeTokenKeeps(token) == UNCHANGED tokens

\* Consume removes the token before it looks whether it is still valid.
ConsumeToken(token) == tokens' = tokens \ {token}

\* createIntent stamps the intent and writes its temporary file.
Stamp(type, label) ==
    /\ Cloud \in services /\ request = Idle
    /\ hist.ids < bounds.intents
    /\ request' = [pc |-> "stamped",
                   intent |-> [id |-> hist.ids + 1, type |-> type, label |-> label]]
    /\ UNCHANGED <<timeVars, config, intents, workerVars, repoVars, services>>

RequestBackup ==
    /\ Stamp("backup", NoLabel)
    /\ hist' = [hist EXCEPT !.ids = @ + 1]
    /\ UNCHANGED tokens

RequestRestoreTest(label) ==
    /\ Stamp("restore-test", label)
    /\ hist' = [hist EXCEPT !.ids = @ + 1]
    /\ UNCHANGED tokens

\* The confirmation phrase is among the inputs of the request: confirmed says
\* whether it matched.
RequestPrimaryRestore(label, token, confirmed) ==
    /\ Cloud \in services /\ request = Idle
    /\ ConsumeToken(token)
    /\ IF clock <= token.expires /\ config.primary /\ label # NoLabel /\ confirmed
       THEN /\ Stamp("restore-primary", label)
            /\ hist' = [hist EXCEPT !.ids = @ + 1, !.granted = @ + 1]
       ELSE UNCHANGED <<timeVars, config, intents, request, workerVars, repoVars, services, hist>>

\* The rename makes the intent visible to the worker.
RenameIntent ==
    /\ request.pc = "stamped"
    /\ intents' = intents \cup {request.intent}
    /\ request' = [request EXCEPT !.pc = "renamed"]
    /\ UNCHANGED <<timeVars, config, tokens, workerVars, repoVars, services, hist>>

\* The file mode is checked once more after the rename, then the handler
\* answers; when the worker has consumed the file already the check fails and
\* so does the request.
AnswerRequest ==
    /\ request.pc = "renamed"
    /\ request' = Idle
    /\ UNCHANGED <<timeVars, config, intents, tokens, workerVars, repoVars, services, hist>>
-----------------------------------------------------------------------------
(***************************************************************************)
(* The worker's loop.                                                       *)
(***************************************************************************)
StartWorker ==
    /\ worker.pc = "down"
    /\ worker' = [pc |-> "idle", job |-> NoJob, batch |-> {}, due |-> {}, now |-> Never,
                  startedAt |-> clock]
    /\ ticker' = Never
    /\ lastCronRuns' = [k \in CronKeys |-> Never]
    /\ UNCHANGED <<clock, cloudVars, activeTask, repoVars, services, hist>>

\* The container dies: what the worker had in memory is gone, active-task.json
\* still says what it was doing.
CrashWorker ==
    /\ worker.pc # "down" /\ hist.crashes < bounds.crashes
    /\ worker' = [worker EXCEPT !.pc = "down", !.job = NoJob, !.batch = {}, !.due = {}]
    /\ ticker' = Never
    /\ hist' = [hist EXCEPT !.crashes = @ + 1]
    /\ UNCHANGED <<clock, cloudVars, lastCronRuns, activeTask, repoVars, services>>

\* runDueCron reads the settings once, for all four jobs; settings that cannot
\* be read leave this tick without any.
runDueCron ==
    /\ worker.pc = "idle" /\ ticker # Never
    /\ ticker' = Never
    /\ \E due \in {{k \in CronKeys : Due(k, ticker)}, {}} :
         worker' = [worker EXCEPT !.pc = "cron", !.now = ticker, !.due = due]
    /\ UNCHANGED <<clock, cloudVars, lastCronRuns, activeTask, repoVars, services, hist>>

FirstStep(type) ==
    CASE type = "amcheck" -> "check"
      [] type = "restore-verification" -> "select"
      [] OTHER -> "prepare"

JobOfKey(key) == IF key \in {"backup-full", "backup-diff"} THEN "backup" ELSE key

\* The job of this tick that comes first.
FirstDue(k) == k \in worker.due /\ \A j \in worker.due : CronOrder[k] <= CronOrder[j]

\* Mutant: the minute of the last run is stored and not looked at.
runCronJobUnchecked ==
    /\ worker.pc = "cron"
    /\ \E key \in CronKeys :
       LET type == JobOfKey(key)
           job == [id |-> 0, type |-> type, label |-> NoLabel, key |-> key, step |-> FirstStep(type)]
       IN  /\ FirstDue(key)
           /\ worker' = [worker EXCEPT !.pc = "run", !.due = @ \ {key}, !.job = job]
           /\ lastCronRuns' = [lastCronRuns EXCEPT ![key] = worker.now]
           /\ hist' = [hist EXCEPT !.cron[key][worker.now] = @ + 1]
    /\ UNCHANGED <<timeVars, cloudVars, activeTask, repoVars, services>>

\* The scheduled job of this tick that comes first, unless it has run in this
\* minute already; and the end of runDueCron.
runCronJob ==
    /\ worker.pc = "cron"
    /\ \E key \in CronKeys :
       LET type == JobOfKey(key)
           job == [id |-> 0, type |-> type, label |-> NoLabel, key |-> key, step |-> FirstStep(type)]
       IN  /\ FirstDue(key)
           /\ IF lastCronRuns[key] = worker.now
              THEN /\ worker' = [worker EXCEPT !.due = @ \ {key}]
                   /\ UNCHANGED <<lastCronRuns, activeTask, hist>>
              ELSE /\ worker' = [worker EXCEPT !.pc = "run", !.due = @ \ {key}, !.job = job]
                   /\ lastCronRuns' = [lastCronRuns EXCEPT ![key] = worker.now]
                   /\ hist' = [hist EXCEPT !.cron[key][worker.now] = @ + 1]
                   /\ IF type = "backup"
                      THEN activeTask' = [id |-> 0, type |-> type, status |-> "running"]
                      ELSE UNCHANGED activeTask
    /\ UNCHANGED <<timeVars, cloudVars, repoVars, services>>

CronDone ==
    /\ worker.pc = "cron" /\ worker.due = {}
    /\ worker' = [worker EXCEPT !.pc = "list"]
    /\ UNCHANGED <<timeVars, cloudVars, lastCronRuns, activeTask, repoVars, services, hist>>

\* Mutant: an intent that was begun with is taken for one in progress.
ListIntentsUntried ==
    /\ worker.pc = "list"
    /\ worker' = [worker EXCEPT !.pc = "batch", !.batch = {i \in intents : hist.runs[i.id] = 0}]
    /\ UNCHANGED <<timeVars, cloudVars, lastCronRuns, activeTask, repoVars, services, hist>>

\* The files that are there when the directory is read.  One that cannot be read
\* or verified ends the tick for all of them.
ListIntents ==
    /\ worker.pc = "list"
    /\ \/ /\ worker' = [worker EXCEPT !.pc = "batch", !.batch = intents]
          /\ UNCHANGED hist
       \/ /\ intents # {} /\ hist.unread < bounds.stuck
          /\ worker' = [worker EXCEPT !.pc = "idle"]
          /\ hist' = [hist EXCEPT !.unread = @ + 1]
    /\ UNCHANGED <<timeVars, cloudVars, lastCronRuns, activeTask, repoVars, services>>

\* The identifiers are times of creation, so the smallest is the oldest.
Oldest(i) == i \in worker.batch /\ \A j \in worker.batch : i.id <= j.id

JobOfIntent(i) == [id |-> i.id, type |-> i.type, label |-> i.label, key |-> "none", step |-> "prepare"]

\* Mutant: the intent is consumed before it is run.
processIntentsConsumesFirst ==
    /\ worker.pc = "batch"
    /\ \/ /\ worker.batch = {}
          /\ worker' = [worker EXCEPT !.pc = "idle"]
          /\ UNCHANGED <<intents, activeTask, hist>>
       \/ \E i \in worker.batch :
            /\ Oldest(i)
            /\ worker' = [worker EXCEPT !.pc = "run", !.job = JobOfIntent(i)]
            /\ intents' = intents \ {i}
            /\ activeTask' = [id |-> i.id, type |-> i.type, status |-> "running"]
            /\ hist' = [hist EXCEPT !.runs[i.id] = @ + 1, !.finished = @ \cup {i.id}]
    /\ UNCHANGED <<timeVars, config, tokens, request, lastCronRuns, repoVars, services>>

\* The oldest intent of the batch is run; without one the worker waits for the
\* next tick.
processIntents ==
    /\ worker.pc = "batch"
    /\ \/ /\ worker.batch = {}
          /\ worker' = [worker EXCEPT !.pc = "idle"]
          /\ UNCHANGED <<activeTask, hist>>
       \/ \E i \in worker.batch :
            /\ Oldest(i)
            /\ worker' = [worker EXCEPT !.pc = "run", !.job = JobOfIntent(i)]
            /\ activeTask' = [id |-> i.id, type |-> i.type, status |-> "running"]
            /\ hist' = [hist EXCEPT !.runs[i.id] = @ + 1, !.ended = @ \ {i.id}]
    /\ UNCHANGED <<timeVars, cloudVars, lastCronRuns, repoVars, services>>

Rest == {i \in worker.batch : i.id # worker.job.id}

\* Mutant: only the archive directory's copy is written and the intent stays.
CompleteIntentKeeps ==
    /\ worker.pc = "complete"
    /\ worker' = [worker EXCEPT !.pc = "batch", !.batch = Rest, !.job = NoJob]
    /\ UNCHANGED <<timeVars, cloudVars, lastCronRuns, activeTask, repoVars, services, hist>>

\* The intent file is archived, or removed when it cannot be archived; when
\* neither is possible the rest of the batch waits for the next tick.
CompleteIntent ==
    /\ worker.pc = "complete"
    /\ \/ /\ intents' = {i \in intents : i.id # worker.job.id}
          /\ worker' = [worker EXCEPT !.pc = "batch", !.batch = Rest, !.job = NoJob]
          /\ hist' = [hist EXCEPT !.ended = @ \ {worker.job.id},
                                  !.finished = @ \cup {worker.job.id}]
       \/ /\ hist.stuck < bounds.stuck
          /\ worker' = [worker EXCEPT !.pc = "idle", !.batch = {}, !.job = NoJob]
          /\ hist' = [hist EXCEPT !.stuck = @ + 1]
          /\ UNCHANGED intents
    /\ UNCHANGED <<timeVars, config, tokens, request, lastCronRuns, activeTask, repoVars, services>>
-----------------------------------------------------------------------------
(***************************************************************************)
(* The jobs.  Every command may fail; a failed job ends like a successful   *)
(* one, with its task marked failed.                                        *)
(***************************************************************************)
AtStep(types, step) == worker.pc = "run" /\ worker.job.type \in types /\ worker.job.step = step

GoTo(step) ==
    /\ worker' = [worker EXCEPT !.job.step = step]
    /\ UNCHANGED <<activeTask, hist>>

\* finishTask and the return to the caller: to processIntents for an intent, to
\* runDueCron for a scheduled job.
finishTaskAs(status, history) ==
    /\ activeTask' = [activeTask EXCEPT !.status = status]
    /\ IF worker.job.id = 0
       THEN /\ worker' = [worker EXCEPT !.pc = "cron", !.job = NoJob]
            /\ hist' = history
       ELSE /\ worker' = [worker EXCEPT !.pc = "complete"]
            /\ hist' = [history EXCEPT !.ended = @ \cup {worker.job.id}]

finishTask(status) == finishTaskAs(status, hist)

\* The settings of the encrypted repository, its folders, stanza and check; the
\* cleared restore-test directory.
prepare ==
    /\ AtStep(IntentTypes, "prepare")
    /\ \/ GoTo(CASE worker.job.type = "backup" -> "backup"
                 [] worker.job.type = "restore-test" -> "restore"
                 [] worker.job.type = "restore-primary" -> "stop")
       \/ finishTask("failed")
    /\ UNCHANGED <<timeVars, cloudVars, lastCronRuns, repoVars, services>>

\* pgBackRest adds a backup to the repository and expires the oldest ones; a run
\* that reports a failure may have done either.
pgBackRestBackup ==
    /\ AtStep({"backup"}, "backup")
    /\ \E keep \in 0 .. Len(repo), added \in BOOLEAN :
         LET kept == SubSeq(repo, Len(repo) - keep + 1, Len(repo)) IN
         /\ added => Postgres \in services /\ hist.labels < bounds.backups
         /\ repo' = IF added THEN Append(kept, hist.labels + 1) ELSE kept
         /\ LET labels == IF added THEN hist.labels + 1 ELSE hist.labels IN
            \/ /\ added
               /\ worker' = [worker EXCEPT !.job.step = "info"]
               /\ hist' = [hist EXCEPT !.labels = labels]
               /\ UNCHANGED activeTask
            \/ finishTaskAs("failed", [hist EXCEPT !.labels = labels])
    /\ UNCHANGED <<timeVars, cloudVars, lastCronRuns, backupSets, archives, services>>

\* The list has the newest backup last.
latestBackupLabel(backups) == IF backups = <<>> THEN NoLabel ELSE backups[Len(backups)]

\* Mutant: the label is looked up in the stored list.
SaveBackupSetsRereads ==
    /\ AtStep({"backup"}, "info")
    /\ \E listed \in {repo, <<>>}, stored \in BOOLEAN :
         /\ backupSets' = IF stored THEN listed ELSE backupSets
         /\ IF backupSets' = <<>>
            THEN finishTask("success")
            ELSE /\ worker' = [worker EXCEPT !.job.step = "attach",
                                             !.job.label = latestBackupLabel(backupSets')]
                 /\ UNCHANGED <<activeTask, hist>>
    /\ UNCHANGED <<timeVars, cloudVars, lastCronRuns, repo, archives, services>>

\* backups.json is replaced by what pgBackRest lists, by nothing when it
\* cannot be asked; whether the file could be written is not looked at.  The
\* label of the backup is the last one of what was listed.
SaveBackupSets ==
    /\ AtStep({"backup"}, "info")
    /\ \E listed \in {repo, <<>>}, stored \in BOOLEAN :
         /\ backupSets' = IF stored THEN listed ELSE backupSets
         /\ IF listed = <<>>
            THEN finishTask("success")
            ELSE /\ worker' = [worker EXCEPT !.job.step = "attach",
                                             !.job.label = latestBackupLabel(listed)]
                 /\ UNCHANGED <<activeTask, hist>>
    /\ UNCHANGED <<timeVars, cloudVars, lastCronRuns, repo, archives, services>>

\* The archive of the note attachments goes with the label of the backup; there
\* is none when there is no attachment directory.
runAttachmentBackup ==
    /\ AtStep({"backup"}, "attach")
    /\ \/ \E written \in {{worker.job.label}, {}} :
            archives' = archives \cup written /\ finishTask("success")
       \/ finishTask("failed") /\ UNCHANGED archives
    /\ UNCHANGED <<timeVars, cloudVars, lastCronRuns, repo, backupSets, services>>

runAMCheck ==
    /\ AtStep({"amcheck"}, "check")
    /\ worker' = [worker EXCEPT !.pc = "cron", !.job = NoJob]
    /\ UNCHANGED <<timeVars, cloudVars, lastCronRuns, activeTask, repoVars, services, hist>>

\* The settings are read again; the latest label comes from backups.json, and
\* from the repository when that lists none.
RunScheduledRestoreVerification ==
    /\ AtStep({"restore-verification"}, "select")
    /\ \E listed \in IF backupSets # <<>> THEN {backupSets} ELSE {repo, <<>>}, stored \in BOOLEAN :
         IF ~config.verify
         THEN /\ worker' = [worker EXCEPT !.pc = "cron", !.job = NoJob]
              /\ UNCHANGED <<activeTask, backupSets>>
         ELSE /\ backupSets' = IF stored THEN listed ELSE backupSets
              /\ IF listed = <<>>
                 THEN /\ worker' = [worker EXCEPT !.pc = "cron", !.job = NoJob]
                      /\ UNCHANGED activeTask
                 ELSE /\ worker' = [worker EXCEPT !.job.type = "restore-test", !.job.step = "prepare",
                                                  !.job.label = latestBackupLabel(listed)]
                      /\ activeTask' = [id |-> 0, type |-> "restore-test", status |-> "running"]
    /\ UNCHANGED <<timeVars, cloudVars, lastCronRuns, repo, archives, services, hist>>

\* A label that the repository has expired cannot be restored.
Restorable(label) == repo # <<>> /\ (label = NoLabel \/ label \in Range(repo))

restoreIntoTestDatabase ==
    /\ AtStep({"restore-test"}, "restore")
    /\ \/ Restorable(worker.job.label) /\ GoTo("validate")
       \/ finishTask("failed")
    /\ UNCHANGED <<timeVars, cloudVars, lastCronRuns, repoVars, services>>

\* The restored database is compared with the main one, which must be up.
validateRestoredDatabase ==
    /\ AtStep({"restore-test"}, "validate")
    /\ \/ Postgres \in services /\ GoTo("attachments")
       \/ finishTask("failed")
    /\ UNCHANGED <<timeVars, cloudVars, lastCronRuns, repoVars, services>>

\* The archive must exist when the restored database has attachment rows; a
\* test without a label takes the one of the latest listed backup.
validateAttachmentBackupRestore ==
    /\ AtStep({"restore-test"}, "attachments")
    /\ \E rows \in BOOLEAN :
         LET label == IF worker.job.label # NoLabel THEN worker.job.label
                      ELSE latestBackupLabel(backupSets)
         IN  \/ (rows => label \in archives) /\ finishTask("success")
             \/ rows /\ finishTask("failed")
    /\ UNCHANGED <<timeVars, cloudVars, lastCronRuns, repoVars, services>>

\* A cloud process that stops takes its tokens and its request with it.
ComposeStop(stopped) ==
    /\ services' = services \ stopped
    /\ IF Cloud \in stopped THEN tokens' = {} /\ request' = Idle ELSE UNCHANGED <<tokens, request>>

stopStack ==
    /\ AtStep({"restore-primary"}, "stop")
    /\ \/ ComposeStop(Stack) /\ GoTo("restore")
       \/ \E some \in SUBSET Stack : ComposeStop(some) /\ finishTask("failed")
    /\ UNCHANGED <<timeVars, config, intents, lastCronRuns, repoVars>>

\* A restore that fails starts the stack again, without looking at the result.
restorePrimary ==
    /\ AtStep({"restore-primary"}, "restore")
    /\ \/ Restorable(worker.job.label) /\ GoTo("startdb") /\ UNCHANGED services
       \/ \E some \in SUBSET Stack : services' = services \cup some /\ finishTask("failed")
    /\ UNCHANGED <<timeVars, cloudVars, lastCronRuns, repoVars>>

\* Mutant: the restore is over when the database is up.
startPostgresOnly ==
    /\ AtStep({"restore-primary"}, "startdb")
    /\ \/ services' = services \cup {Postgres} /\ finishTask("success")
       \/ finishTask("failed") /\ UNCHANGED services
    /\ UNCHANGED <<timeVars, cloudVars, lastCronRuns, repoVars>>

startPostgres ==
    /\ AtStep({"restore-primary"}, "startdb")
    /\ \/ services' = services \cup {Postgres} /\ GoTo("startcloud")
       \/ finishTask("failed") /\ UNCHANGED services
    /\ UNCHANGED <<timeVars, cloudVars, lastCronRuns, repoVars>>

startCloud ==
    /\ AtStep({"restore-primary"}, "startcloud")
    /\ \/ services' = services \cup {Cloud} /\ finishTask("success")
       \/ finishTask("failed") /\ UNCHANGED services
    /\ UNCHANGED <<timeVars, cloudVars, lastCronRuns, repoVars>>
-----------------------------------------------------------------------------
WorkerStep ==
    \/ runDueCron \/ runCronJob \/ CronDone \/ ListIntents \/ processIntents \/ CompleteIntent
    \/ prepare \/ pgBackRestBackup \/ SaveBackupSets \/ runAttachmentBackup \/ runAMCheck
    \/ RunScheduledRestoreVerification \/ restoreIntoTestDatabase \/ validateRestoredDatabase
    \/ validateAttachmentBackupRestore
    \/ stopStack \/ restorePrimary \/ startPostgres \/ startCloud

CloudStep ==
    \/ \E cfg \in bounds.configs : SaveConfig(cfg)
    \/ IssueToken
    \/ RequestBackup
    \/ \E label \in {NoLabel} \cup Labels : RequestRestoreTest(label)
    \/ \E label \in {NoLabel} \cup Labels, token \in tokens, confirmed \in BOOLEAN :
         RequestPrimaryRestore(label, token, confirmed)
    \/ RenameIntent \/ AnswerRequest

StorageNext ==
    /\ MinutePasses \/ TickFires \/ CloudStep \/ StartWorker \/ CrashWorker \/ WorkerStep
    /\ UNCHANGED bounds

\* The worker's goroutine is scheduled and the commands it runs come to an end
\* (ExecRunner.Run gives them no deadline), its container is restarted (restart:
\* unless-stopped in the compose file), time passes and the ticker ticks.
StorageFairness ==
    /\ WF_storageVars(WorkerStep)
    /\ WF_storageVars(StartWorker)
    /\ WF_storageVars(TickFires)
    /\ WF_storageVars(MinutePasses)

StorageSpec == StorageInit /\ [][StorageNext]_<<storageVars, bounds>> /\ StorageFairness
-----------------------------------------------------------------------------
(***************************************************************************)
(* Properties.                                                              *)
(***************************************************************************)
Queue == INSTANCE IntentQueue WITH
    Requests <- Ids,
    queued <- {i.id : i \in intents},
    attempted <- {i \in Ids : hist.runs[i] > 0},
    ended <- hist.ended,
    finished <- hist.finished

\* The intent directory, its listing at every tick and CompleteIntent implement
\* the queue: no request is lost by a crash, none leaves before a run of it
\* ended, none is run after it left, and every one leaves in the end.
ImplementsIntentQueue == Queue!QueueSpec

\* An intent is run once, plus once for every crash of the worker and for every
\* completion that could neither archive nor remove the file; a restore of the
\* primary database is not repeated for any other reason.
RunsExplained == \A i \in Ids : hist.runs[i] <= 1 + hist.crashes + hist.stuck

\* Every primary restore was preceded by a token of its own: tokens are
\* one-time, and a stopped cloud process forgets those it has issued.
RestoresAreGranted ==
    /\ hist.granted <= hist.tokens
    /\ hist.granted + Cardinality(tokens) <= hist.tokens
    /\ Cardinality({i \in intents : i.type = "restore-primary"}) <= hist.granted

\* A scheduled job runs at most once in the minute it is due, however often the
\* ticker fires in it and even when the worker crashes and is started again.
CronOncePerMinute == \A k \in CronKeys, m \in Minutes : hist.cron[k][m] <= 1

\* The archive of the attachments is named after the newest backup of the
\* repository, also when an earlier run failed after it had added or expired a
\* backup and when backups.json could not be written.
ArchiveGoesWithBackup ==
    worker.job.type = "backup" /\ worker.job.step = "attach" =>
        repo # <<>> /\ worker.job.label = repo[Len(repo)]

\* The worker does what it was asked to: an intent is run again only after a
\* crash or a completion that could not take it away, a primary restore has a
\* token of its own, a scheduled job runs once in its minute, and the
\* attachments are archived under the backup they belong to.
OperationsAreAsked ==
    RunsExplained /\ RestoresAreGranted /\ CronOncePerMinute /\ ArchiveGoesWithBackup

\* A stack that a primary restore stopped comes up again, or the restore is
\* reported failed: a worker that dies in between finds the intent again.
StackComesBack ==
    (worker.job.type = "restore-primary" /\ services # Stack)
        ~> \/ services = Stack
           \/ activeTask.type = "restore-primary" /\ activeTask.status = "failed"
==============================================================================

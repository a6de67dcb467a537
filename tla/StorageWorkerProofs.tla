------------------------- MODULE StorageWorkerProofs -------------------------
(***************************************************************************)
(* For every set of limits: the intent directory and the worker's loop     *)
(* implement the safety of IntentQueue, and the worker does only what it    *)
(* was asked to: the runs of an intent, the primary restores, the scheduled *)
(* jobs and the archives of the attachments.                                *)
(***************************************************************************)
EXTENDS StorageWorker, FiniteSetTheorems, TLAPS

queueVars == <<{i.id : i \in intents}, {i \in Ids : hist.runs[i] > 0}, hist.ended, hist.finished>>
Queued == {i.id : i \in intents}
Excuses == hist.crashes + hist.stuck

HistShape(h) ==
    h = [ids |-> h.ids, labels |-> h.labels, tokens |-> h.tokens, granted |-> h.granted,
         crashes |-> h.crashes, stuck |-> h.stuck, unread |-> h.unread, runs |-> h.runs,
         ended |-> h.ended, finished |-> h.finished, cron |-> h.cron]

\* The records have the fields the steps change.
Shapes ==
    /\ worker = [pc |-> worker.pc, job |-> worker.job, batch |-> worker.batch, due |-> worker.due,
                 now |-> worker.now, startedAt |-> worker.startedAt]
    /\ worker.job = [id |-> worker.job.id, type |-> worker.job.type, label |-> worker.job.label,
                     key |-> worker.job.key, step |-> worker.job.step]
    /\ request = [pc |-> request.pc, intent |-> request.intent]
    /\ HistShape(hist)

Counts ==
    /\ bounds \in Limits
    /\ hist.ids \in 0 .. bounds.intents
    /\ hist.crashes \in Nat /\ hist.stuck \in Nat
    /\ hist.runs \in [Ids -> Nat]

\* Identifiers are handed out once: what is on disk or was consumed has one
\* that was handed out, and the intent being written has a new one.
IdsAreFresh ==
    /\ Queued \subseteq 1 .. hist.ids
    /\ hist.finished \subseteq 1 .. hist.ids
    /\ request.pc = "stamped" => /\ request.intent.id \in 1 .. hist.ids
                                 /\ request.intent.id \notin Queued \cup hist.finished

\* The worker holds only intents that are on disk, and completes only what it
\* has run to its end.
HoldsQueued ==
    /\ worker.batch \subseteq intents
    /\ worker.pc \in {"run", "complete"} /\ worker.job.id # 0 =>
         worker.job.id \in Queued /\ hist.runs[worker.job.id] > 0
    /\ worker.pc = "complete" => worker.job.id # 0 /\ worker.job.id \in hist.ended

\* What is queued and not being run has been run once per crash or failed
\* completion at most.
QueuedExplained ==
    /\ \A i \in Ids : hist.runs[i] <= 1 + Excuses
    /\ \A i \in Queued :
         ~(worker.pc \in {"run", "complete"} /\ worker.job.id = i) => hist.runs[i] <= Excuses
    /\ request.pc = "stamped" => hist.runs[request.intent.id] = 0
    /\ \A i \in Ids : i > hist.ids => hist.runs[i] = 0

\* No intent asks for one of the jobs that only the schedule starts.
ScheduledJobs ==
    /\ \A i \in intents : i.type \in IntentTypes
    /\ request.pc = "stamped" => request.intent.type \in IntentTypes
    /\ worker.pc = "run" /\ worker.job.type \notin IntentTypes => worker.job.id = 0

StorageInv == Shapes /\ Counts /\ IdsAreFresh /\ HoldsQueued /\ QueuedExplained /\ ScheduledJobs

\* A step that leaves the queue alone.
Quiet ==
    /\ UNCHANGED <<intents, bounds>>
    /\ hist'.runs = hist.runs /\ hist'.ended = hist.ended /\ hist'.finished = hist.finished
    /\ hist'.ids = hist.ids /\ hist'.stuck = hist.stuck
    /\ hist'.crashes = hist.crashes
    /\ request'.pc = "stamped" => request.pc = "stamped" /\ request'.intent = request.intent
    /\ worker'.batch \subseteq intents
    /\ \/ worker'.pc = worker.pc /\ worker'.job.id = worker.job.id
       \/ /\ worker'.pc \in {"run", "complete"} => worker'.pc = "run" /\ worker'.job.id = 0
          /\ worker.pc \in {"run", "complete"} => worker.job.id = 0
    /\ worker'.pc = "run" /\ worker'.job.type \notin IntentTypes => worker'.job.id = 0

LEMMA QuietKeeps ==
    ASSUME StorageInv, Quiet, Shapes'
    PROVE  StorageInv' /\ UNCHANGED queueVars
<1>1. UNCHANGED <<intents, bounds>> /\ Queued' = Queued /\ Excuses' = Excuses
  BY Zenon DEF Quiet, Queued, Excuses
<1>2. UNCHANGED queueVars
  BY Zenon, <1>1 DEF queueVars, Quiet, Queued
<1>3. Counts' /\ IdsAreFresh'
  BY Zenon, <1>1 DEF StorageInv, Counts, IdsAreFresh, Quiet
<1>4. HoldsQueued'
  BY Zenon, <1>1 DEF StorageInv, HoldsQueued, Quiet
<1>5. QueuedExplained'
  <2>1. ASSUME NEW i \in Queued', ~(worker'.pc \in {"run", "complete"} /\ worker'.job.id = i)
        PROVE  hist'.runs[i] <= Excuses'
    <3>1. i \in Queued /\ i # 0
      BY <1>1 DEF StorageInv, IdsAreFresh, Counts
    <3>2. ~(worker.pc \in {"run", "complete"} /\ worker.job.id = i)
      BY Zenon, <2>1, <3>1 DEF Quiet
    <3> QED
      BY Zenon, <1>1, <3>1, <3>2 DEF StorageInv, QueuedExplained, Quiet
  <2> QED
    BY Zenon, <1>1, <2>1 DEF StorageInv, QueuedExplained, Quiet
<1>6. ScheduledJobs'
  BY Zenon, <1>1 DEF StorageInv, ScheduledJobs, Quiet
<1> QED
  BY Zenon, <1>2, <1>3, <1>4, <1>5, <1>6 DEF StorageInv

-----------------------------------------------------------------------------
LEMMA InitInv == StorageInit => StorageInv /\ Queue!QueueInit
<1> SUFFICES ASSUME StorageInit PROVE StorageInv /\ Queue!QueueInit
  OBVIOUS
<1>1. Shapes
  BY Zenon DEF StorageInit, Shapes, HistShape, Idle, NoJob
<1>2. Queued = {} /\ hist.finished = {} /\ hist.ended = {} /\ hist.ids = 0
      /\ hist.runs = [i \in Ids |-> 0] /\ hist.crashes = 0 /\ hist.stuck = 0
      /\ worker.pc = "idle" /\ request.pc = "idle" /\ worker.batch = {}
  BY Zenon DEF StorageInit, Queued, Idle
<1>3. Counts
  BY <1>2, LimitsAssumption DEF StorageInit, Counts
<1>4. IdsAreFresh /\ HoldsQueued
  BY Zenon, <1>2 DEF IdsAreFresh, HoldsQueued
<1>5. QueuedExplained
  BY <1>2 DEF QueuedExplained, Excuses
<1>6. Queue!QueueInit
  BY <1>2 DEF Queue!QueueInit, Queued
<1>7. ScheduledJobs
  BY Zenon, <1>2 DEF ScheduledJobs, StorageInit
<1> QED
  BY Zenon, <1>1, <1>3, <1>4, <1>5, <1>6, <1>7 DEF StorageInv

-----------------------------------------------------------------------------
LEMMA UpTo ==
    ASSUME bounds \in Limits, NEW n \in 0 .. bounds.intents
    PROVE  n \in Nat /\ 1 .. n \subseteq Ids
<1>1. PICK m \in Nat : m = Most("intents")
  BY Zenon, LimitsAssumption
<1>2. bounds.intents \in 0 .. m
  BY Zenon, <1>1, LimitsAssumption
<1>3. Ids = 1 .. m
  BY Zenon, <1>1 DEF Ids
<1> QED
  BY <1>2, <1>3

LEMMA HandedOut ==
    ASSUME Counts PROVE hist.ids \in Nat /\ 1 .. hist.ids \subseteq Ids
BY Zenon, UpTo DEF Counts

LEMMA RequestShape ==
    ASSUME Shapes, request' = request \/ request' = Idle
    PROVE  /\ request'.pc = "stamped" => request' = request
           /\ request' = [pc |-> request'.pc, intent |-> request'.intent]
BY DEF Shapes, Idle

\* The history with a backup counted, or as it is.
Relabelled(history) == history = hist \/ \E labels : history = [hist EXCEPT !.labels = labels]

LEMMA RelabelledIs ==
    ASSUME Shapes, NEW history, Relabelled(history)
    PROVE  /\ HistShape(history) /\ history.runs = hist.runs /\ history.ended = hist.ended
           /\ history.finished = hist.finished /\ history.ids = hist.ids /\ history.stuck = hist.stuck
           /\ history.crashes = hist.crashes /\ history.tokens = hist.tokens
           /\ history.granted = hist.granted /\ history.cron = hist.cron
<1>1. CASE history = hist
  BY Zenon, <1>1 DEF Shapes
<1>2. ASSUME NEW labels, history = [hist EXCEPT !.labels = labels]
      PROVE  /\ HistShape(history) /\ history.runs = hist.runs /\ history.ended = hist.ended
             /\ history.finished = hist.finished /\ history.ids = hist.ids /\ history.stuck = hist.stuck
             /\ history.crashes = hist.crashes /\ history.tokens = hist.tokens
             /\ history.granted = hist.granted /\ history.cron = hist.cron
  BY Zenon, <1>2 DEF Shapes, HistShape
<1> QED
  BY Zenon, <1>1, <1>2 DEF Relabelled

\* The ends of a job.
LEMMA FinishKeeps ==
    ASSUME StorageInv, worker.pc = "run", NEW status, NEW history, Relabelled(history),
           finishTaskAs(status, history), UNCHANGED <<intents, bounds>>,
           request' = request \/ request' = Idle
    PROVE  StorageInv' /\ [Queue!QueueNext]_(Queue!queueVars)
<1>0. Shapes /\ (request'.pc = "stamped" => request'= request) /\ request' = [pc |-> request'.pc, intent |-> request'.intent]
  BY DEF StorageInv, Shapes, Idle
<1>a. /\ HistShape(history) /\ history.runs = hist.runs /\ history.ended = hist.ended
      /\ history.finished = hist.finished /\ history.ids = hist.ids /\ history.stuck = hist.stuck
      /\ history.crashes = hist.crashes
  BY Zenon, <1>0, RelabelledIs
<1>1. CASE worker.job.id = 0
  <2>1. worker' = [worker EXCEPT !.pc = "cron", !.job = NoJob] /\ hist' = history
    BY Zenon, <1>1 DEF finishTaskAs
  <2>2. Shapes' /\ worker'.pc = "cron" /\ worker'.batch = worker.batch
    BY Zenon, <1>0, <1>a, <2>1 DEF Shapes, HistShape, NoJob
  <2>3. Quiet
    BY Zenon, <1>0, <1>1, <1>a, <2>1, <2>2 DEF Quiet, StorageInv, HoldsQueued
  <2> QED
    BY Zenon, <2>2, <2>3, QuietKeeps DEF Queue!queueVars, queueVars
<1>2. CASE worker.job.id # 0
  <2> DEFINE r == worker.job.id
  <2>1. worker' = [worker EXCEPT !.pc = "complete"] /\ hist' = [history EXCEPT !.ended = @ \cup {worker.job.id}]
    BY Zenon, <1>2 DEF finishTaskAs
  <2>2. worker'.pc = "complete" /\ worker'.batch = worker.batch /\ worker'.job = worker.job
    BY Zenon, <1>0, <2>1 DEF Shapes
  <2>3. HistShape(hist') /\ hist'.runs = hist.runs /\ hist'.ended = hist.ended \cup {r} /\ hist'.finished = hist.finished
        /\ hist'.ids = hist.ids /\ hist'.stuck = hist.stuck /\ hist'.crashes = hist.crashes
    BY Zenon, <1>a, <2>1 DEF HistShape
  <2>a. Shapes'
    BY Zenon, <1>0, <2>1, <2>3 DEF Shapes, HistShape
  <2>4. Queued' = Queued /\ Excuses' = Excuses /\ UNCHANGED <<intents, bounds>>
    BY Zenon, <2>3 DEF Queued, Excuses
  <2>5. r \in Queued /\ hist.runs[r] > 0 /\ r \in Ids
    BY Zenon, <1>2, HandedOut DEF StorageInv, HoldsQueued, IdsAreFresh
  <2>6. Counts' /\ IdsAreFresh'
    BY Zenon, <1>0, <2>3, <2>4 DEF StorageInv, Counts, IdsAreFresh
  <2>7. HoldsQueued'
    BY Zenon, <1>2, <2>2, <2>3, <2>4, <2>5 DEF StorageInv, HoldsQueued
  <2>8. QueuedExplained'
    BY Zenon, <1>0, <2>2, <2>3, <2>4 DEF StorageInv, QueuedExplained
  <2>9. Queue!EndAttempt(r)
    BY Zenon, <2>3, <2>4, <2>5 DEF Queue!EndAttempt, Queued
  <2>10. ScheduledJobs'
    BY Zenon, <1>0, <2>2, <2>4 DEF StorageInv, ScheduledJobs
  <2> QED
    BY Zenon, <2>a, <2>5, <2>6, <2>7, <2>8, <2>9, <2>10 DEF StorageInv, Queue!QueueNext
<1> QED
  BY Zenon, <1>1, <1>2

\* A step from one command of a job to the next.
LEMMA JobStepKeeps ==
    ASSUME StorageInv, worker.pc = "run", UNCHANGED <<intents, bounds>>, NEW step,
           \/ worker' = [worker EXCEPT !.job.step = step]
           \/ \E label : worker' = [worker EXCEPT !.job.step = step, !.job.label = label],
           UNCHANGED hist, request' = request \/ request' = Idle
    PROVE  StorageInv' /\ [Queue!QueueNext]_(Queue!queueVars)
<1>0. Shapes /\ (request'.pc = "stamped" => request'= request) /\ request' = [pc |-> request'.pc, intent |-> request'.intent]
  BY Zenon, RequestShape DEF StorageInv
<1>2. Shapes' /\ worker'.pc = worker.pc /\ worker'.job.id = worker.job.id /\ worker'.batch = worker.batch
      /\ worker'.job.type = worker.job.type
  <2>1. CASE worker' = [worker EXCEPT !.job.step = step]
    BY Zenon, <1>0, <2>1 DEF Shapes
  <2>2. ASSUME NEW label, worker' = [worker EXCEPT !.job.step = step, !.job.label = label]
        PROVE  Shapes' /\ worker'.pc = worker.pc /\ worker'.job.id = worker.job.id
               /\ worker'.batch = worker.batch /\ worker'.job.type = worker.job.type
    BY Zenon, <1>0, <2>2 DEF Shapes
  <2> QED
    BY Zenon, <2>1, <2>2
<1>3. Quiet
  BY Zenon, <1>0, <1>2 DEF Quiet, StorageInv, HoldsQueued, ScheduledJobs
<1> QED
  BY Zenon, <1>2, <1>3, QuietKeeps DEF Queue!queueVars, queueVars

-----------------------------------------------------------------------------
\* The cloud's side: an intent is stamped with a new identifier and renamed
\* into the directory.
LEMMA StampKeeps ==
    ASSUME StorageInv, NEW type \in IntentTypes, NEW label, Stamp(type, label), UNCHANGED bounds,
           \/ hist' = [hist EXCEPT !.ids = @ + 1]
           \/ hist' = [hist EXCEPT !.ids = @ + 1, !.granted = @ + 1]
    PROVE  StorageInv' /\ UNCHANGED Queue!queueVars
<1> DEFINE new == hist.ids + 1
<1>1. /\ hist'.ids = new /\ hist'.runs = hist.runs /\ hist'.ended = hist.ended
      /\ hist'.finished = hist.finished /\ hist'.stuck = hist.stuck /\ hist'.crashes = hist.crashes
      /\ Shapes'
  BY Zenon DEF StorageInv, Shapes, HistShape, Stamp, workerVars
<1>2. UNCHANGED <<intents, worker, bounds>> /\ request'.pc = "stamped" /\ request'.intent.id = new
      /\ request'.intent.type = type /\ hist.ids < bounds.intents
  BY Zenon DEF Stamp, workerVars
<1>3. Queued' = Queued /\ Excuses' = Excuses
  BY Zenon, <1>1, <1>2 DEF Queued, Excuses
<1>4. Counts'
  <2>1. bounds.intents \in Nat /\ hist.ids \in Nat
    BY LimitsAssumption DEF StorageInv, Counts
  <2> QED
    BY <1>1, <1>2, <2>1 DEF StorageInv, Counts
<1>5. hist.ids \in Nat /\ 1 .. hist.ids \subseteq Ids /\ 1 .. new \subseteq Ids
  <2>1. bounds \in Limits /\ hist.ids \in 0 .. bounds.intents /\ new \in 0 .. bounds.intents
    BY Zenon, <1>1, <1>2, <1>4 DEF StorageInv, Counts
  <2> QED
    BY Zenon, <2>1, UpTo
<1>6. IdsAreFresh'
  BY <1>1, <1>2, <1>3, <1>5 DEF StorageInv, IdsAreFresh
<1>7. HoldsQueued'
  BY Zenon, <1>1, <1>2, <1>3 DEF StorageInv, HoldsQueued
<1>8. QueuedExplained'
  <2>1. \A i \in Ids : i > hist.ids => hist.runs[i] = 0
    BY Zenon DEF StorageInv, QueuedExplained
  <2>2. new \in Ids /\ new > hist.ids /\ hist.runs[new] = 0
    BY <1>5, <2>1
  <2>3. \A i \in Ids : i > hist'.ids => hist'.runs[i] = 0
    BY <1>1, <1>5, <2>1 DEF Ids
  <2> QED
    BY Zenon, <1>1, <1>2, <1>3, <2>2, <2>3 DEF StorageInv, QueuedExplained
<1>9. ScheduledJobs'
  BY Zenon, <1>2 DEF StorageInv, ScheduledJobs
<1> QED
  BY Zenon, <1>1, <1>2, <1>4, <1>6, <1>7, <1>8, <1>9 DEF StorageInv, Queue!queueVars

LEMMA RenameKeeps ==
    ASSUME StorageInv, RenameIntent, UNCHANGED bounds
    PROVE  StorageInv' /\ Queue!QueueNext
<1> DEFINE r == request.intent.id
<1>1. UNCHANGED <<worker, hist, bounds>> /\ request.pc = "stamped" /\ request'.pc = "renamed"
      /\ intents' = intents \cup {request.intent} /\ Shapes'
  BY Zenon DEF StorageInv, Shapes, HistShape, RenameIntent, workerVars
<1>2. Queued' = Queued \cup {r} /\ Excuses' = Excuses
  BY Zenon, <1>1 DEF Queued, Excuses
<1>3. r \in 1 .. hist.ids /\ r \notin Queued \cup hist.finished /\ hist.runs[r] = 0 /\ r \in Ids
  BY Zenon, <1>1, HandedOut DEF StorageInv, IdsAreFresh, QueuedExplained
<1>4. Counts' /\ IdsAreFresh' /\ HoldsQueued'
  BY Zenon, <1>1, <1>2, <1>3 DEF StorageInv, Counts, IdsAreFresh, HoldsQueued
<1>5. Excuses \in Nat
  BY DEF StorageInv, Counts, Excuses
<1>6. QueuedExplained'
  BY <1>1, <1>2, <1>3, <1>5 DEF StorageInv, QueuedExplained
<1>7. Queue!Submit(r)
  BY Zenon, <1>1, <1>2, <1>3 DEF Queue!Submit, Queued
<1>8. Queue!QueueNext
  BY Zenon, <1>3, <1>7 DEF Queue!QueueNext, Queue!Submit
<1>9. ScheduledJobs'
  BY Zenon, <1>1 DEF StorageInv, ScheduledJobs
<1> QED
  BY Zenon, <1>1, <1>4, <1>6, <1>8, <1>9 DEF StorageInv

-----------------------------------------------------------------------------
\* The worker's side.  A crash and a completion that fails leave the intent on
\* disk, and are what excuses its next run.
LEMMA ExcuseKeeps ==
    ASSUME StorageInv, Shapes', UNCHANGED <<intents, request, bounds>>,
           hist'.runs = hist.runs, hist'.ended = hist.ended, hist'.finished = hist.finished,
           hist'.ids = hist.ids, hist'.crashes \in Nat, hist'.stuck \in Nat, Excuses' = Excuses + 1,
           worker'.pc \notin {"run", "complete"}, worker'.batch = {}
    PROVE  StorageInv' /\ UNCHANGED Queue!queueVars
<1>1. Queued' = Queued /\ Excuses \in Nat
  BY DEF Queued, StorageInv, Counts, Excuses
<1>2. Counts' /\ IdsAreFresh' /\ HoldsQueued'
  BY Zenon, <1>1 DEF StorageInv, Counts, IdsAreFresh, HoldsQueued
<1>3. \A i \in Ids : hist.runs[i] \in Nat
  BY Zenon DEF StorageInv, Counts
<1>4. Queued \subseteq Ids
  BY Zenon, HandedOut DEF StorageInv, IdsAreFresh
<1>5. QueuedExplained'
  BY <1>1, <1>3, <1>4 DEF StorageInv, QueuedExplained
<1>6. ScheduledJobs'
  BY Zenon DEF StorageInv, ScheduledJobs
<1> QED
  BY Zenon, <1>2, <1>5, <1>6 DEF StorageInv, Queue!queueVars

LEMMA CrashKeeps ==
    ASSUME StorageInv, CrashWorker, UNCHANGED bounds
    PROVE  StorageInv' /\ UNCHANGED Queue!queueVars
<1>1. UNCHANGED <<intents, request, bounds>>
  BY Zenon DEF CrashWorker, cloudVars
<1>2. Shapes' /\ worker'.pc = "down" /\ worker'.batch = {}
  BY Zenon DEF CrashWorker, StorageInv, Shapes, HistShape, NoJob, cloudVars
<1>3. /\ hist'.runs = hist.runs /\ hist'.ended = hist.ended /\ hist'.finished = hist.finished
      /\ hist'.ids = hist.ids /\ hist'.stuck = hist.stuck /\ hist'.crashes = hist.crashes + 1
  BY Zenon DEF CrashWorker, StorageInv, Shapes, HistShape
<1>4. hist'.crashes \in Nat /\ hist'.stuck \in Nat /\ Excuses' = Excuses + 1
  BY <1>3 DEF StorageInv, Counts, Excuses
<1> QED
  BY Zenon, <1>1, <1>2, <1>3, <1>4, ExcuseKeeps

LEMMA ProcessKeeps ==
    ASSUME StorageInv, processIntents, UNCHANGED bounds
    PROVE  StorageInv' /\ [Queue!QueueNext]_(Queue!queueVars)
<1>0. UNCHANGED <<intents, request, bounds>> /\ Shapes /\ worker.pc = "batch"
  BY Zenon DEF processIntents, cloudVars, StorageInv
<1>1. CASE worker' = [worker EXCEPT !.pc = "idle"] /\ hist' = hist
  <2>1. Shapes' /\ worker'.pc = "idle" /\ worker'.batch = worker.batch
    BY Zenon, <1>0, <1>1 DEF Shapes, HistShape
  <2>2. Quiet
    BY Zenon, <1>0, <1>1, <2>1 DEF Quiet, StorageInv, HoldsQueued
  <2> QED
    BY Zenon, <2>1, <2>2, QuietKeeps DEF Queue!queueVars, queueVars
<1>2. ASSUME NEW i \in worker.batch,
             worker' = [worker EXCEPT !.pc = "run", !.job = JobOfIntent(i)],
             hist' = [hist EXCEPT !.runs[i.id] = @ + 1, !.ended = @ \ {i.id}]
      PROVE  StorageInv' /\ [Queue!QueueNext]_(Queue!queueVars)
  <2> DEFINE r == i.id
  <2>1. i \in intents /\ r \in Queued /\ r \in Ids /\ Queued \subseteq Ids
    BY Zenon, HandedOut DEF StorageInv, HoldsQueued, IdsAreFresh, Queued
  <2>2. Shapes' /\ worker'.pc = "run" /\ worker'.batch = worker.batch /\ worker'.job.id = r
        /\ worker'.job.type = i.type
    BY Zenon, <1>0, <1>2 DEF Shapes, HistShape, JobOfIntent
  <2>3. /\ hist'.runs = [hist.runs EXCEPT ![r] = @ + 1] /\ hist'.ended = hist.ended \ {r}
        /\ hist'.finished = hist.finished /\ hist'.ids = hist.ids
        /\ hist'.stuck = hist.stuck /\ hist'.crashes = hist.crashes
    BY Zenon, <1>0, <1>2 DEF Shapes, HistShape
  <2>4. Queued' = Queued /\ Excuses' = Excuses /\ Excuses \in Nat
    BY <1>0, <2>3 DEF Queued, Excuses, StorageInv, Counts
  <2>5. hist.runs \in [Ids -> Nat] /\ hist'.runs \in [Ids -> Nat] /\ hist'.runs[r] = hist.runs[r] + 1
        /\ \A j \in Ids : j # r => hist'.runs[j] = hist.runs[j]
    BY <2>1, <2>3 DEF StorageInv, Counts
  <2>6. Counts' /\ IdsAreFresh'
    BY Zenon, <1>0, <2>3, <2>4, <2>5 DEF StorageInv, Counts, IdsAreFresh
  <2>7. HoldsQueued'
    BY <1>0, <2>1, <2>2, <2>4, <2>5 DEF StorageInv, HoldsQueued
  <2>8. QueuedExplained'
    <3>1. hist.runs[r] <= Excuses
      BY Zenon, <1>0, <2>1 DEF StorageInv, QueuedExplained
    <3>2. \A j \in Ids : hist'.runs[j] <= 1 + Excuses'
      BY <2>1, <2>4, <2>5, <3>1 DEF StorageInv, QueuedExplained
    <3>3. \A j \in Queued' : ~(worker'.pc \in {"run", "complete"} /\ worker'.job.id = j) => hist'.runs[j] <= Excuses'
      BY Zenon, <1>0, <2>1, <2>2, <2>4, <2>5 DEF StorageInv, QueuedExplained
    <3>4. r \in 1 .. hist.ids
      BY Zenon, <2>1 DEF StorageInv, IdsAreFresh
    <3>5. request.pc = "stamped" => request.intent.id # r /\ request.intent.id \in Ids
      BY Zenon, <2>1, HandedOut DEF StorageInv, IdsAreFresh
    <3>6. hist.ids \in Nat
      BY Zenon, HandedOut DEF StorageInv
    <3>7. request'.pc = "stamped" => hist'.runs[request'.intent.id] = 0
      BY Zenon, <1>0, <2>5, <3>5 DEF StorageInv, QueuedExplained
    <3>8. \A j \in Ids : j > hist'.ids => hist'.runs[j] = 0
      BY <2>3, <2>5, <3>4, <3>6 DEF StorageInv, QueuedExplained
    <3> QED
      BY Zenon, <3>2, <3>3, <3>7, <3>8 DEF QueuedExplained
  <2>9. Queue!Attempt(r)
    <3>1. {j \in Ids : hist'.runs[j] > 0} = {j \in Ids : hist.runs[j] > 0} \cup {r}
      BY <2>1, <2>5
    <3> QED
      BY Zenon, <2>1, <2>3, <2>4, <3>1 DEF Queue!Attempt, Queued
  <2>10. ScheduledJobs'
    BY Zenon, <1>0, <2>1, <2>2 DEF StorageInv, ScheduledJobs
  <2> QED
    BY Zenon, <2>1, <2>2, <2>6, <2>7, <2>8, <2>9, <2>10 DEF StorageInv, Queue!QueueNext
<1> QED
  BY Zenon, <1>1, <1>2 DEF processIntents

LEMMA CompleteKeeps ==
    ASSUME StorageInv, CompleteIntent, UNCHANGED bounds
    PROVE  StorageInv' /\ [Queue!QueueNext]_(Queue!queueVars)
<1> DEFINE r == worker.job.id
<1>0. UNCHANGED <<request, bounds>> /\ Shapes /\ worker.pc = "complete"
  BY Zenon DEF CompleteIntent, StorageInv
<1>1. ASSUME intents' = {i \in intents : i.id # worker.job.id},
             worker' = [worker EXCEPT !.pc = "batch", !.batch = Rest, !.job = NoJob],
             hist' = [hist EXCEPT !.ended = @ \ {worker.job.id}, !.finished = @ \cup {worker.job.id}]
      PROVE  StorageInv' /\ Queue!QueueNext
  <2>1. r \in Queued /\ r \in hist.ended /\ r \in Ids /\ r \in 1 .. hist.ids
    BY Zenon, <1>0, HandedOut DEF StorageInv, HoldsQueued, IdsAreFresh
  <2>2. Shapes' /\ worker'.pc = "batch" /\ worker'.batch = Rest
    BY Zenon, <1>0, <1>1 DEF Shapes, HistShape, NoJob
  <2>3. /\ hist'.runs = hist.runs /\ hist'.ended = hist.ended \ {r}
        /\ hist'.finished = hist.finished \cup {r} /\ hist'.ids = hist.ids
        /\ hist'.stuck = hist.stuck /\ hist'.crashes = hist.crashes
    BY Zenon, <1>0, <1>1 DEF Shapes, HistShape
  <2>4. Queued' = Queued \ {r} /\ Excuses' = Excuses
    BY <1>1, <2>3 DEF Queued, Excuses
  <2>5. Counts' /\ IdsAreFresh'
    BY Zenon, <1>0, <2>1, <2>3, <2>4 DEF StorageInv, Counts, IdsAreFresh
  <2>6. HoldsQueued'
    BY Zenon, <1>1, <2>2 DEF StorageInv, HoldsQueued, Rest
  <2>7. QueuedExplained'
    BY Zenon, <1>0, <2>2, <2>3, <2>4 DEF StorageInv, QueuedExplained
  <2>8. Queue!Leave(r)
    BY Zenon, <2>1, <2>3, <2>4 DEF Queue!Leave, Queued
  <2>9. Queue!QueueNext
    BY Zenon, <2>1, <2>8 DEF Queue!QueueNext, Queue!Leave
  <2>10. ScheduledJobs'
    BY Zenon, <1>0, <1>1, <2>2 DEF StorageInv, ScheduledJobs
  <2> QED
    BY Zenon, <2>2, <2>5, <2>6, <2>7, <2>9, <2>10 DEF StorageInv
<1>2. ASSUME worker' = [worker EXCEPT !.pc = "idle", !.batch = {}, !.job = NoJob],
             hist' = [hist EXCEPT !.stuck = @ + 1], UNCHANGED intents
      PROVE  StorageInv' /\ UNCHANGED Queue!queueVars
  <2>1. Shapes' /\ worker'.pc = "idle" /\ worker'.batch = {}
    BY Zenon, <1>0, <1>2 DEF Shapes, HistShape, NoJob
  <2>2. /\ hist'.runs = hist.runs /\ hist'.ended = hist.ended /\ hist'.finished = hist.finished
        /\ hist'.ids = hist.ids /\ hist'.crashes = hist.crashes /\ hist'.stuck = hist.stuck + 1
    BY Zenon, <1>0, <1>2 DEF Shapes, HistShape
  <2>3. hist'.crashes \in Nat /\ hist'.stuck \in Nat /\ Excuses' = Excuses + 1
    BY <2>2 DEF StorageInv, Counts, Excuses
  <2> QED
    BY Zenon, <1>0, <1>2, <2>1, <2>2, <2>3, ExcuseKeeps
<1> QED
  BY Zenon, <1>1, <1>2 DEF CompleteIntent

-----------------------------------------------------------------------------
\* The jobs' commands: each ends the job or goes on, and none touches the
\* directory.  A stopped cloud drops its request.
JobStep ==
    \/ prepare \/ pgBackRestBackup \/ SaveBackupSets \/ runAttachmentBackup \/ runAMCheck
    \/ RunScheduledRestoreVerification \/ restoreIntoTestDatabase \/ validateRestoredDatabase
    \/ validateAttachmentBackupRestore
    \/ stopStack \/ restorePrimary \/ startPostgres \/ startCloud

\* What a command does to the worker's record and to the history.
Ends == \E status, history : Relabelled(history) /\ finishTaskAs(status, history)
GoesOn ==
    /\ \E step, label : \/ worker' = [worker EXCEPT !.job.step = step]
                        \/ worker' = [worker EXCEPT !.job.step = step, !.job.label = label]
    /\ UNCHANGED hist

LEMMA FinishEnds == ASSUME NEW status, finishTask(status) PROVE Ends
  BY Zenon DEF finishTask, Ends, Relabelled

LEMMA CommandOutcomes ==
    ASSUME JobStep
    PROVE  /\ worker.pc = "run" /\ UNCHANGED intents
           /\ request' = request \/ request' = Idle
           /\ \/ Ends \/ GoesOn
              \/ pgBackRestBackup /\ worker' = [worker EXCEPT !.job.step = "info"]
                                  /\ Relabelled(hist')
              \/ (runAMCheck \/ RunScheduledRestoreVerification) /\ UNCHANGED <<hist, request>>
<1>1. CASE prepare
  BY Zenon, <1>1, FinishEnds DEF prepare, AtStep, cloudVars, GoesOn, GoTo
<1>2. CASE pgBackRestBackup
  <2>1. PICK labels : \/ /\ worker' = [worker EXCEPT !.job.step = "info"]
                         /\ hist' = [hist EXCEPT !.labels = labels]
                      \/ finishTaskAs("failed", [hist EXCEPT !.labels = labels])
    BY Zenon, <1>2 DEF pgBackRestBackup
  <2>2. worker.pc = "run" /\ UNCHANGED <<intents, request>>
    BY Zenon, <1>2 DEF pgBackRestBackup, AtStep, cloudVars
  <2> QED
    BY Zenon, <1>2, <2>1, <2>2 DEF Ends, Relabelled
<1>3. CASE SaveBackupSets
  <2>1. worker.pc = "run" /\ UNCHANGED <<intents, request>>
    BY Zenon, <1>3 DEF SaveBackupSets, AtStep, cloudVars
  <2>2. PICK label : \/ finishTask("success")
                     \/ /\ worker' = [worker EXCEPT !.job.step = "attach", !.job.label = label]
                        /\ UNCHANGED hist
    BY Zenon, <1>3 DEF SaveBackupSets
  <2> QED
    BY Zenon, <2>1, <2>2, FinishEnds DEF GoesOn
<1>4. CASE runAttachmentBackup
  BY Zenon, <1>4, FinishEnds DEF runAttachmentBackup, AtStep, cloudVars
<1>5. CASE runAMCheck
  BY Zenon, <1>5 DEF runAMCheck, AtStep, cloudVars
<1>6. CASE RunScheduledRestoreVerification
  BY Zenon, <1>6 DEF RunScheduledRestoreVerification, AtStep, cloudVars
<1>7. CASE restoreIntoTestDatabase
  BY Zenon, <1>7, FinishEnds DEF restoreIntoTestDatabase, AtStep, cloudVars, GoesOn, GoTo
<1>8. CASE validateRestoredDatabase
  BY Zenon, <1>8, FinishEnds DEF validateRestoredDatabase, AtStep, cloudVars, GoesOn, GoTo
<1>9. CASE validateAttachmentBackupRestore
  BY Zenon, <1>9, FinishEnds DEF validateAttachmentBackupRestore, AtStep, cloudVars
<1>10. CASE stopStack
  BY Zenon, <1>10, FinishEnds DEF stopStack, AtStep, ComposeStop, GoesOn, GoTo
<1>11. CASE restorePrimary
  BY Zenon, <1>11, FinishEnds DEF restorePrimary, AtStep, cloudVars, GoesOn, GoTo
<1>12. CASE startPostgres
  BY Zenon, <1>12, FinishEnds DEF startPostgres, AtStep, cloudVars, GoesOn, GoTo
<1>13. CASE startCloud
  BY Zenon, <1>13, FinishEnds DEF startCloud, AtStep, cloudVars
<1> QED
  BY Zenon, <1>1, <1>2, <1>3, <1>4, <1>5, <1>6, <1>7, <1>8, <1>9, <1>10, <1>11, <1>12, <1>13 DEF
     JobStep

LEMMA JobKeeps ==
    ASSUME StorageInv, JobStep, UNCHANGED bounds
    PROVE  StorageInv' /\ [Queue!QueueNext]_(Queue!queueVars)
<1>0. worker.pc = "run" /\ UNCHANGED <<intents, bounds>> /\ (request' = request \/ request' = Idle)
  BY Zenon, CommandOutcomes
<1>1. CASE Ends
  BY Zenon, <1>0, <1>1, FinishKeeps DEF Ends
<1>2. CASE GoesOn
  BY Zenon, <1>0, <1>2, JobStepKeeps DEF GoesOn
<1>3. CASE worker' = [worker EXCEPT !.job.step = "info"] /\ Relabelled(hist')
  <2>1. Shapes /\ (request'.pc = "stamped" => request'= request) /\ request' = [pc |-> request'.pc, intent |-> request'.intent]
    BY <1>0 DEF StorageInv, Shapes, HistShape, Idle
  <2>a. PICK history : history = hist' /\ Relabelled(history)
    BY Zenon, <1>3
  <2>3. /\ HistShape(hist')
        /\ hist'.runs = hist.runs /\ hist'.ended = hist.ended /\ hist'.finished = hist.finished
        /\ hist'.ids = hist.ids /\ hist'.crashes = hist.crashes /\ hist'.stuck = hist.stuck
    BY Zenon, <2>1, <2>a, RelabelledIs
  <2>2. Shapes' /\ worker'.pc = worker.pc /\ worker'.job.id = worker.job.id /\ worker'.batch = worker.batch
        /\ worker'.job.type = worker.job.type
    BY Zenon, <1>3, <2>1, <2>3 DEF Shapes, HistShape
  <2>4. Quiet
    BY Zenon, <1>0, <2>1, <2>2, <2>3 DEF Quiet, StorageInv, HoldsQueued, ScheduledJobs
  <2> QED
    BY Zenon, <2>2, <2>4, QuietKeeps DEF Queue!queueVars, queueVars
<1>4. CASE (runAMCheck \/ RunScheduledRestoreVerification) /\ UNCHANGED <<hist, request>>
  <2>1. Shapes /\ worker.job.type \notin IntentTypes /\ worker.job.id = 0
    BY Zenon, <1>0, <1>4 DEF runAMCheck, RunScheduledRestoreVerification, AtStep, StorageInv,
       ScheduledJobs, IntentTypes
  <2>2. CASE worker' = [worker EXCEPT !.pc = "cron", !.job = NoJob]
    <3>1. Shapes' /\ worker'.pc = "cron" /\ worker'.batch = worker.batch
      BY Zenon, <1>4, <2>1, <2>2 DEF Shapes, HistShape, NoJob
    <3>2. Quiet
      BY Zenon, <1>0, <1>4, <2>1, <3>1 DEF Quiet, StorageInv, HoldsQueued
    <3> QED
      BY Zenon, <3>1, <3>2, QuietKeeps DEF Queue!queueVars, queueVars
  <2>3. ASSUME NEW label,
               worker' = [worker EXCEPT !.job.type = "restore-test", !.job.step = "prepare", !.job.label = label]
        PROVE  StorageInv' /\ [Queue!QueueNext]_(Queue!queueVars)
    <3>1. Shapes' /\ worker'.pc = worker.pc /\ worker'.batch = worker.batch /\ worker'.job.id = worker.job.id
      BY Zenon, <1>4, <2>1, <2>3 DEF Shapes, HistShape
    <3>2. Quiet
      BY Zenon, <1>0, <1>4, <2>1, <3>1 DEF Quiet, StorageInv, HoldsQueued
    <3> QED
      BY Zenon, <3>1, <3>2, QuietKeeps DEF Queue!queueVars, queueVars
  <2> QED
    BY Zenon, <1>4, <2>2, <2>3 DEF runAMCheck, RunScheduledRestoreVerification
<1> QED
  BY Zenon, <1>1, <1>2, <1>3, <1>4, CommandOutcomes

-----------------------------------------------------------------------------
\* The other steps of the worker and of time.
LEMMA LoopKeeps ==
    ASSUME StorageInv, UNCHANGED bounds,
           MinutePasses \/ TickFires \/ StartWorker \/ runDueCron \/ runCronJob \/ CronDone \/ ListIntents
    PROVE  StorageInv' /\ UNCHANGED Queue!queueVars
<1> SUFFICES Quiet /\ Shapes'
  BY Zenon, QuietKeeps DEF Queue!queueVars, queueVars
<1>0. Shapes /\ worker.batch \subseteq intents
      /\ (worker.pc = "run" /\ worker.job.type \notin IntentTypes => worker.job.id = 0)
  BY Zenon DEF StorageInv, HoldsQueued, ScheduledJobs
<1>1. CASE MinutePasses \/ TickFires
  <2>1. UNCHANGED <<intents, request, worker, hist>>
    BY Zenon, <1>1 DEF MinutePasses, TickFires, cloudVars, workerVars
  <2> QED
    BY Zenon, <1>0, <2>1 DEF Quiet, Shapes, HistShape
<1>2. CASE StartWorker
  <2>1. UNCHANGED <<intents, request, hist>> /\ worker.pc = "down" /\ worker'.pc = "idle" /\ worker'.batch = {}
    BY Zenon, <1>2 DEF StartWorker, cloudVars
  <2>2. Shapes'
    BY Zenon, <1>0, <1>2, <2>1 DEF Shapes, HistShape, StartWorker, NoJob
  <2> QED
    BY Zenon, <2>1, <2>2 DEF Quiet
<1>3. CASE runDueCron
  <2>1. UNCHANGED <<intents, request, hist>> /\ worker.pc = "idle"
    BY Zenon, <1>3 DEF runDueCron, cloudVars
  <2>2. PICK due : worker' = [worker EXCEPT !.pc = "cron", !.now = ticker, !.due = due]
    BY Zenon, <1>3 DEF runDueCron
  <2>3. Shapes' /\ worker'.pc = "cron" /\ worker'.batch = worker.batch
    BY Zenon, <1>0, <2>1, <2>2 DEF Shapes, HistShape
  <2> QED
    BY Zenon, <1>0, <2>1, <2>3 DEF Quiet
<1>4. CASE runCronJob
  <2>1. UNCHANGED <<intents, request>> /\ worker.pc = "cron"
    BY Zenon, <1>4 DEF runCronJob, cloudVars
  <2>2. ASSUME NEW key, worker' = [worker EXCEPT !.due = @ \ {key}], hist' = hist
        PROVE  Quiet /\ Shapes'
    <3>1. Shapes' /\ worker'.pc = worker.pc /\ worker'.job = worker.job /\ worker'.batch = worker.batch
      BY Zenon, <1>0, <2>1, <2>2 DEF Shapes, HistShape
    <3> QED
      BY Zenon, <1>0, <2>1, <2>2, <3>1 DEF Quiet
  <2>3. ASSUME NEW key, NEW type, NEW step,
               worker' = [worker EXCEPT !.pc = "run", !.due = @ \ {key},
                                        !.job = [id |-> 0, type |-> type, label |-> NoLabel,
                                                 key |-> key, step |-> step]],
               hist' = [hist EXCEPT !.cron[key][worker.now] = @ + 1]
        PROVE  Quiet /\ Shapes'
    <3>1. worker'.pc = "run" /\ worker'.job.id = 0 /\ worker'.batch = worker.batch
      BY Zenon, <1>0, <2>3 DEF Shapes, HistShape
    <3>2. /\ hist'.runs = hist.runs /\ hist'.ended = hist.ended /\ hist'.finished = hist.finished
          /\ hist'.ids = hist.ids /\ hist'.crashes = hist.crashes /\ hist'.stuck = hist.stuck
      BY Zenon, <1>0, <2>3 DEF Shapes, HistShape
    <3>3. Shapes'
      BY Zenon, <1>0, <2>1, <2>3 DEF Shapes, HistShape
    <3> QED
      BY Zenon, <1>0, <2>1, <3>1, <3>2, <3>3 DEF Quiet
  <2>4. PICK key \in CronKeys : runCronJob!2!(key)
    BY Zenon, <1>4 DEF runCronJob
  <2>5. CASE lastCronRuns[key] = worker.now
    BY Zenon, <2>2, <2>4, <2>5
  <2>6. CASE lastCronRuns[key] # worker.now
    <3>1. /\ worker' = [worker EXCEPT !.pc = "run", !.due = @ \ {key},
                              !.job = [id |-> 0, type |-> JobOfKey(key), label |-> NoLabel,
                                       key |-> key, step |-> FirstStep(JobOfKey(key))]]
          /\ hist' = [hist EXCEPT !.cron[key][worker.now] = @ + 1]
      BY Zenon, <2>4, <2>6
    <3> QED
      BY Zenon, <2>3, <3>1
  <2> QED
    BY Zenon, <2>5, <2>6
<1>5. CASE CronDone
  <2>1. UNCHANGED <<intents, request, hist>> /\ worker.pc = "cron" /\ worker' = [worker EXCEPT !.pc = "list"]
    BY Zenon, <1>5 DEF CronDone, cloudVars
  <2>2. Shapes' /\ worker'.pc = "list" /\ worker'.batch = worker.batch
    BY Zenon, <1>0, <2>1 DEF Shapes, HistShape
  <2> QED
    BY Zenon, <1>0, <2>1, <2>2 DEF Quiet
<1>6. CASE ListIntents
  <2>1. UNCHANGED <<intents, request>> /\ worker.pc = "list"
    BY Zenon, <1>6 DEF ListIntents, cloudVars
  <2>2. CASE worker' = [worker EXCEPT !.pc = "batch", !.batch = intents] /\ UNCHANGED hist
    <3>1. Shapes' /\ worker'.pc = "batch" /\ worker'.batch = intents
      BY Zenon, <1>0, <2>1, <2>2 DEF Shapes, HistShape
    <3> QED
      BY Zenon, <2>1, <2>2, <3>1 DEF Quiet
  <2>3. CASE worker' = [worker EXCEPT !.pc = "idle"] /\ hist' = [hist EXCEPT !.unread = @ + 1]
    <3>1. worker'.pc = "idle" /\ worker'.batch = worker.batch
      BY Zenon, <1>0, <2>3 DEF Shapes
    <3>2. /\ hist'.runs = hist.runs /\ hist'.ended = hist.ended /\ hist'.finished = hist.finished
          /\ hist'.ids = hist.ids /\ hist'.crashes = hist.crashes /\ hist'.stuck = hist.stuck
      BY Zenon, <1>0, <2>3 DEF Shapes, HistShape
    <3>3. Shapes'
      BY Zenon, <1>0, <2>1, <2>3 DEF Shapes, HistShape
    <3> QED
      BY Zenon, <1>0, <2>1, <3>1, <3>2, <3>3 DEF Quiet
  <2> QED
    BY Zenon, <1>6, <2>2, <2>3 DEF ListIntents
<1> QED
  BY Zenon, <1>1, <1>2, <1>3, <1>4, <1>5, <1>6

LEMMA CloudKeeps ==
    ASSUME StorageInv, CloudStep, UNCHANGED bounds
    PROVE  StorageInv' /\ [Queue!QueueNext]_(Queue!queueVars)
<1>0. Shapes /\ worker.batch \subseteq intents
      /\ (worker.pc = "run" /\ worker.job.type \notin IntentTypes => worker.job.id = 0)
  BY Zenon DEF StorageInv, HoldsQueued, ScheduledJobs
<1>1. ASSUME UNCHANGED <<intents, worker>>, request' = request \/ request' = Idle,
             hist' = hist \/ hist' = [hist EXCEPT !.tokens = @ + 1]
      PROVE  StorageInv' /\ [Queue!QueueNext]_(Queue!queueVars)
  <2>1. Shapes' /\ (request'.pc = "stamped" => request' = request)
    BY <1>0, <1>1 DEF Shapes, HistShape, Idle, NoIntent
  <2>2. /\ hist'.runs = hist.runs /\ hist'.ended = hist.ended /\ hist'.finished = hist.finished
        /\ hist'.ids = hist.ids /\ hist'.crashes = hist.crashes /\ hist'.stuck = hist.stuck
    BY Zenon, <1>0, <1>1 DEF Shapes, HistShape
  <2>3. Quiet
    BY Zenon, <1>0, <1>1, <2>1, <2>2 DEF Quiet
  <2> QED
    BY Zenon, <2>1, <2>3, QuietKeeps DEF Queue!queueVars, queueVars
<1>2. CASE \E cfg \in bounds.configs : SaveConfig(cfg)
  BY Zenon, <1>1, <1>2 DEF SaveConfig, workerVars
<1>3. CASE IssueToken
  BY Zenon, <1>1, <1>3 DEF IssueToken, workerVars
<1>4. CASE RequestBackup
  BY Zenon, <1>4, StampKeeps DEF RequestBackup, IntentTypes
<1>5. CASE \E label \in {NoLabel} \cup Labels : RequestRestoreTest(label)
  BY Zenon, <1>5, StampKeeps DEF RequestRestoreTest, IntentTypes
<1>6. ASSUME NEW label, NEW token, NEW confirmed, RequestPrimaryRestore(label, token, confirmed)
      PROVE  StorageInv' /\ [Queue!QueueNext]_(Queue!queueVars)
  <2>1. CASE Stamp("restore-primary", label) /\ hist' = [hist EXCEPT !.ids = @ + 1, !.granted = @ + 1]
    BY Zenon, <2>1, StampKeeps DEF IntentTypes
  <2>2. CASE UNCHANGED <<intents, request, workerVars, hist>>
    BY Zenon, <1>1, <2>2 DEF workerVars
  <2> QED
    BY Zenon, <1>6, <2>1, <2>2 DEF RequestPrimaryRestore
<1>7. CASE RenameIntent
  BY Zenon, <1>7, RenameKeeps
<1>8. CASE AnswerRequest
  BY Zenon, <1>1, <1>8 DEF AnswerRequest, workerVars
<1> QED
  BY Zenon, <1>2, <1>3, <1>4, <1>5, <1>6, <1>7, <1>8 DEF CloudStep

LEMMA NextKeeps ==
    ASSUME StorageInv, [StorageNext]_<<storageVars, bounds>>
    PROVE  StorageInv' /\ [Queue!QueueNext]_(Queue!queueVars)
<1>1. CASE UNCHANGED <<storageVars, bounds>>
  <2>1. UNCHANGED <<intents, request, worker, hist, bounds>>
    BY Zenon, <1>1 DEF storageVars, cloudVars, workerVars
  <2>2. Quiet /\ Shapes'
    BY Zenon, <2>1 DEF Quiet, Shapes, HistShape, StorageInv, HoldsQueued, ScheduledJobs
  <2> QED
    BY Zenon, <2>2, QuietKeeps DEF Queue!queueVars, queueVars
<1>2. CASE StorageNext
  <2>1. UNCHANGED bounds
    BY Zenon, <1>2 DEF StorageNext
  <2>2. CASE CloudStep
    BY Zenon, <2>1, <2>2, CloudKeeps
  <2>3. CASE CrashWorker
    BY Zenon, <2>1, <2>3, CrashKeeps
  <2>4. CASE MinutePasses \/ TickFires \/ StartWorker \/ runDueCron \/ runCronJob \/ CronDone \/ ListIntents
    BY Zenon, <2>1, <2>4, LoopKeeps
  <2>5. CASE processIntents
    BY Zenon, <2>1, <2>5, ProcessKeeps
  <2>6. CASE CompleteIntent
    BY Zenon, <2>1, <2>6, CompleteKeeps
  <2>7. CASE JobStep
    BY Zenon, <2>1, <2>7, JobKeeps
  <2> QED
    BY Zenon, <1>2, <2>2, <2>3, <2>4, <2>5, <2>6, <2>7 DEF StorageNext, WorkerStep, JobStep
<1> QED
  BY Zenon, <1>1, <1>2

-----------------------------------------------------------------------------
\* The worker with its intent directory does nothing that the queue does not
\* allow: a request is in the directory once, leaves it only after a run of it
\* ended, and is not run after that, whatever crashes and failures come between
\* (createIntent, processIntents, CompleteIntent).
THEOREM DirectoryIsAQueue == StorageSpec => Queue!QueueSafety
<1>1. StorageInit => StorageInv /\ Queue!QueueInit
  BY Zenon, InitInv
<1>2. StorageInv /\ [StorageNext]_<<storageVars, bounds>> => StorageInv' /\ [Queue!QueueNext]_(Queue!queueVars)
  BY Zenon, NextKeeps
<1> QED
  BY <1>1, <1>2, PTL DEF StorageSpec, Queue!QueueSafety

LEMMA InvExplains == StorageInv => RunsExplained
<1> SUFFICES ASSUME StorageInv PROVE RunsExplained
  OBVIOUS
<1>1. hist.crashes \in Nat /\ hist.stuck \in Nat /\ hist.runs \in [Ids -> Nat]
  BY Zenon DEF StorageInv, Counts
<1>2. \A i \in Ids : hist.runs[i] <= 1 + (hist.crashes + hist.stuck)
  BY Zenon DEF StorageInv, QueuedExplained, Excuses
<1> QED
  BY <1>1, <1>2 DEF RunsExplained

\* No intent is run more often than once plus the crashes of the worker and the
\* completions that could neither archive nor remove a file.
THEOREM RunsAreExplained == StorageSpec => []RunsExplained
<1>1. StorageInit => StorageInv
  BY Zenon, InitInv
<1>2. StorageInv /\ [StorageNext]_<<storageVars, bounds>> => StorageInv'
  BY Zenon, NextKeeps
<1>3. StorageInv => RunsExplained
  BY Zenon, InvExplains
<1> QED
  BY <1>1, <1>2, <1>3, PTL DEF StorageSpec

-----------------------------------------------------------------------------
(***************************************************************************)
(* What the other properties need of a step that has nothing to do with     *)
(* time, with the schedule or with a crash.                                 *)
(***************************************************************************)
Untimed ==
    /\ UNCHANGED <<clock, ticker, lastCronRuns>>
    /\ worker'.now = worker.now /\ worker'.startedAt = worker.startedAt /\ worker'.due = worker.due
    /\ worker.pc = "down" => worker'.pc = "down"
    /\ hist'.cron = hist.cron /\ hist'.crashes = hist.crashes
    /\ config' = config \/ config' \in bounds.configs

LEMMA JobUntimed ==
    ASSUME StorageInv, JobStep PROVE Untimed
<1>0. Shapes
  BY Zenon DEF StorageInv
<1>1. UNCHANGED <<clock, ticker, config, lastCronRuns>>
  BY Zenon DEF JobStep, prepare, pgBackRestBackup, SaveBackupSets, runAttachmentBackup, runAMCheck,
     RunScheduledRestoreVerification, restoreIntoTestDatabase, validateRestoredDatabase,
     validateAttachmentBackupRestore, stopStack, restorePrimary, startPostgres, startCloud,
     timeVars, cloudVars
<1>2. worker.pc = "run"
  BY Zenon, CommandOutcomes
<1>3. ASSUME NEW status, NEW history, Relabelled(history), finishTaskAs(status, history)
      PROVE  Untimed
  <2>0. HistShape(history) /\ history.crashes = hist.crashes /\ history.cron = hist.cron
    BY Zenon, <1>0, <1>3, RelabelledIs
  <2>1. CASE worker' = [worker EXCEPT !.pc = "cron", !.job = NoJob] /\ hist' = history
    BY Zenon, <1>0, <1>1, <1>2, <2>0, <2>1 DEF Shapes, Untimed
  <2>2. CASE worker' = [worker EXCEPT !.pc = "complete"] /\ hist' = [history EXCEPT !.ended = @ \cup {worker.job.id}]
    <3>1. hist'.crashes = hist.crashes /\ hist'.cron = hist.cron
      BY Zenon, <2>0, <2>2 DEF HistShape
    <3> QED
      BY Zenon, <1>0, <1>1, <1>2, <2>2, <3>1 DEF Shapes, Untimed
  <2> QED
    BY Zenon, <1>3, <2>1, <2>2 DEF finishTaskAs
<1>4. ASSUME NEW step, NEW label,
             \/ worker' = [worker EXCEPT !.job.step = step]
             \/ worker' = [worker EXCEPT !.job.step = step, !.job.label = label],
             NEW history, hist' = history, Relabelled(history)
      PROVE  Untimed
  <2>1. hist'.crashes = hist.crashes /\ hist'.cron = hist.cron
    BY Zenon, <1>0, <1>4, RelabelledIs
  <2> QED
    BY Zenon, <1>0, <1>1, <1>2, <1>4, <2>1 DEF Shapes, Untimed
<1>5. CASE (runAMCheck \/ RunScheduledRestoreVerification) /\ UNCHANGED <<hist, request>>
  <2>1. CASE worker' = [worker EXCEPT !.pc = "cron", !.job = NoJob]
    BY Zenon, <1>0, <1>1, <1>2, <1>5, <2>1 DEF Shapes, HistShape, Untimed
  <2>2. ASSUME NEW label,
               worker' = [worker EXCEPT !.job.type = "restore-test", !.job.step = "prepare", !.job.label = label]
        PROVE  Untimed
    BY Zenon, <1>0, <1>1, <1>2, <1>5, <2>2 DEF Shapes, HistShape, Untimed
  <2> QED
    BY Zenon, <1>5, <2>1, <2>2 DEF runAMCheck, RunScheduledRestoreVerification
<1> QED
  BY Zenon, <1>3, <1>4, <1>5, CommandOutcomes DEF GoesOn, Ends, Relabelled

LEMMA CloudUntimed ==
    ASSUME StorageInv, CloudStep PROVE Untimed /\ UNCHANGED <<worker, repo, backupSets>>
<1>1. UNCHANGED <<worker, clock, ticker, lastCronRuns, repo, backupSets>>
  BY Zenon DEF CloudStep, SaveConfig, IssueToken, RequestBackup, RequestRestoreTest,
     RequestPrimaryRestore, Stamp, RenameIntent, AnswerRequest, workerVars, repoVars, timeVars
<1>2. config' = config \/ config' \in bounds.configs
  BY Zenon DEF CloudStep, SaveConfig, IssueToken, RequestBackup, RequestRestoreTest,
     RequestPrimaryRestore, Stamp, RenameIntent, AnswerRequest
<1>3. \/ hist' = hist \/ hist' = [hist EXCEPT !.tokens = @ + 1] \/ hist' = [hist EXCEPT !.ids = @ + 1]
      \/ hist' = [hist EXCEPT !.ids = @ + 1, !.granted = @ + 1]
  BY Zenon DEF CloudStep, SaveConfig, IssueToken, RequestBackup, RequestRestoreTest,
     RequestPrimaryRestore, RenameIntent, AnswerRequest
<1>4. hist'.cron = hist.cron /\ hist'.crashes = hist.crashes
  BY Zenon, <1>3 DEF StorageInv, Shapes, HistShape
<1> QED
  BY Zenon, <1>1, <1>2, <1>4 DEF Untimed

LEMMA BatchUntimed ==
    ASSUME StorageInv, CronDone \/ ListIntents \/ processIntents \/ CompleteIntent
    PROVE  Untimed /\ worker.pc # "run" /\ UNCHANGED <<repo, backupSets>>
<1>0. Shapes
  BY Zenon DEF StorageInv
<1>1. UNCHANGED <<clock, ticker, config, lastCronRuns, repo, backupSets>>
  BY Zenon DEF CronDone, ListIntents, processIntents, CompleteIntent, timeVars, cloudVars, repoVars
<1>2. worker.pc \notin {"run", "down"}
  BY Zenon DEF CronDone, ListIntents, processIntents, CompleteIntent
<1>4. worker'.now = worker.now /\ worker'.startedAt = worker.startedAt /\ worker'.due = worker.due
  <2>1. CASE CronDone
    BY Zenon, <1>0, <2>1 DEF Shapes, HistShape, CronDone
  <2>2. CASE ListIntents
    BY Zenon, <1>0, <2>2 DEF Shapes, HistShape, ListIntents
  <2>3. CASE processIntents
    BY ZenonT(60), <1>0, <2>3 DEF Shapes, HistShape, processIntents
  <2>4. CASE CompleteIntent
    BY ZenonT(60), <1>0, <2>4 DEF Shapes, HistShape, CompleteIntent
  <2> QED
    BY Zenon, <2>1, <2>2, <2>3, <2>4
<1>5. \/ hist' = hist \/ hist' = [hist EXCEPT !.stuck = @ + 1] \/ hist' = [hist EXCEPT !.unread = @ + 1]
      \/ \E i : hist' = [hist EXCEPT !.runs[i.id] = @ + 1, !.ended = @ \ {i.id}]
      \/ hist' = [hist EXCEPT !.ended = @ \ {worker.job.id}, !.finished = @ \cup {worker.job.id}]
  BY Zenon DEF CronDone, ListIntents, processIntents, CompleteIntent
<1>6. hist'.cron = hist.cron /\ hist'.crashes = hist.crashes
  BY Zenon, <1>0, <1>5 DEF Shapes, HistShape
<1> QED
  BY Zenon, <1>1, <1>2, <1>4, <1>6 DEF Untimed

-----------------------------------------------------------------------------
(***************************************************************************)
(* The archive of the attachments.  The label that the job has in hand was  *)
(* the newest of the repository when it was listed, and the repository does  *)
(* not change before the job is over.                                       *)
(***************************************************************************)
Archiving == worker.job.type = "backup" /\ worker.job.step = "attach"

LEMMA ArchiveStays ==
    ASSUME ArchiveGoesWithBackup, ~Archiving' \/ (UNCHANGED repo /\ worker'.job = worker.job)
    PROVE  ArchiveGoesWithBackup'
BY Zenon DEF ArchiveGoesWithBackup, Archiving

\* A job that ends has no job in hand, or the one it had.
LEMMA EndsArchive ==
    ASSUME StorageInv, Ends
    PROVE  worker'.job = worker.job \/ ~Archiving'
<1>1. worker' = [worker EXCEPT !.pc = "cron", !.job = NoJob] \/ worker' = [worker EXCEPT !.pc = "complete"]
  BY Zenon DEF Ends, finishTaskAs
<1>2. worker'.job = NoJob \/ worker'.job = worker.job
  BY Zenon, <1>1 DEF StorageInv, Shapes
<1>3. NoJob.type # "backup"
  BY Zenon DEF NoJob
<1> QED
  BY Zenon, <1>2, <1>3 DEF Archiving

LEMMA StepArchive ==
    ASSUME StorageInv, NEW step, worker' = [worker EXCEPT !.job.step = step], step # "attach"
    PROVE  ~Archiving'
BY Zenon DEF StorageInv, Shapes, Archiving

LEMMA JobArchiveKeeps ==
    ASSUME StorageInv, ArchiveGoesWithBackup, JobStep
    PROVE  ArchiveGoesWithBackup'
<1>0. Shapes
  BY Zenon DEF StorageInv
<1>1. CASE UNCHANGED repo /\ (Ends \/ \E step : step # "attach" /\ worker' = [worker EXCEPT !.job.step = step])
  BY Zenon, <1>1, ArchiveStays, EndsArchive, StepArchive
<1>2. CASE pgBackRestBackup
  <2>1. PICK labels : \/ worker' = [worker EXCEPT !.job.step = "info"]
                      \/ finishTaskAs("failed", [hist EXCEPT !.labels = labels])
    BY Zenon, <1>2 DEF pgBackRestBackup
  <2>2. worker.job.step = "backup"
    BY Zenon, <1>2 DEF pgBackRestBackup, AtStep
  <2>3. CASE worker' = [worker EXCEPT !.job.step = "info"]
    BY Zenon, <2>3, StepArchive, ArchiveStays
  <2>4. CASE finishTaskAs("failed", [hist EXCEPT !.labels = labels])
    <3>1. worker'.job = worker.job \/ ~Archiving'
      BY Zenon, <2>4, EndsArchive DEF Ends, Relabelled
    <3>2. ~Archiving'
      BY Zenon, <2>2, <3>1 DEF Archiving
    <3> QED
      BY Zenon, <3>2, ArchiveStays
  <2> QED
    BY Zenon, <2>1, <2>3, <2>4
<1>3. CASE SaveBackupSets
  <2>1. UNCHANGED repo
    BY Zenon, <1>3 DEF SaveBackupSets
  <2>2. \/ Ends
        \/ /\ repo # <<>>
           /\ worker' = [worker EXCEPT !.job.step = "attach", !.job.label = latestBackupLabel(repo)]
    BY Zenon, <1>3, FinishEnds DEF SaveBackupSets
  <2>3. CASE /\ repo # <<>>
             /\ worker' = [worker EXCEPT !.job.step = "attach", !.job.label = latestBackupLabel(repo)]
    <3>1. PICK label : label = latestBackupLabel(repo)
      OBVIOUS
    <3>2. worker'.job.label = label
      BY Zenon, <1>0, <2>3, <3>1 DEF Shapes
    <3>3. label = repo[Len(repo)]
      BY Zenon, <2>3, <3>1 DEF latestBackupLabel
    <3> QED
      BY Zenon, <2>1, <2>3, <3>2, <3>3 DEF ArchiveGoesWithBackup
  <2> QED
    BY Zenon, <1>1, <2>1, <2>2, <2>3
<1>4. CASE RunScheduledRestoreVerification \/ runAMCheck
  <2>1. worker' = [worker EXCEPT !.pc = "cron", !.job = NoJob] \/ \E label :
          worker' = [worker EXCEPT !.job.type = "restore-test", !.job.step = "prepare", !.job.label = label]
    BY Zenon, <1>4 DEF RunScheduledRestoreVerification, runAMCheck
  <2>2. worker'.job.type # "backup"
    <3>1. CASE worker' = [worker EXCEPT !.pc = "cron", !.job = NoJob]
      <4>1. worker'.job = NoJob
        BY Zenon, <1>0, <3>1 DEF Shapes
      <4>2. NoJob.type # "backup"
        BY Zenon DEF NoJob
      <4> QED
        BY Zenon, <4>1, <4>2
    <3>2. ASSUME NEW label, worker' = [worker EXCEPT !.job.type = "restore-test", !.job.step = "prepare",
                                                     !.job.label = label]
          PROVE  worker'.job.type # "backup"
      <4>1. worker'.job.type = "restore-test"
        BY Zenon, <1>0, <3>2 DEF Shapes
      <4> QED
        BY Zenon, <4>1
    <3> QED
      BY Zenon, <2>1, <3>1, <3>2
  <2> QED
    BY Zenon, <2>2, ArchiveStays DEF Archiving
<1>5. CASE prepare
  <2>1. PICK step : (Ends \/ worker' = [worker EXCEPT !.job.step = step]) /\ step \in {"backup", "restore", "stop"}
    BY Zenon, <1>5, FinishEnds DEF prepare, AtStep, IntentTypes, GoTo
  <2> QED
    BY Zenon, <1>1, <1>5, <2>1 DEF prepare, repoVars
<1>6. CASE runAttachmentBackup
  BY Zenon, <1>1, <1>6, FinishEnds DEF runAttachmentBackup
<1>7. CASE restoreIntoTestDatabase
  BY Zenon, <1>1, <1>7, FinishEnds DEF restoreIntoTestDatabase, repoVars, GoTo
<1>8. CASE validateRestoredDatabase
  BY Zenon, <1>1, <1>8, FinishEnds DEF validateRestoredDatabase, repoVars, GoTo
<1>9. CASE validateAttachmentBackupRestore
  BY Zenon, <1>1, <1>9, FinishEnds DEF validateAttachmentBackupRestore, repoVars
<1>10. CASE stopStack
  BY Zenon, <1>1, <1>10, FinishEnds DEF stopStack, repoVars, GoTo
<1>11. CASE restorePrimary
  BY Zenon, <1>1, <1>11, FinishEnds DEF restorePrimary, repoVars, GoTo
<1>12. CASE startPostgres
  BY Zenon, <1>1, <1>12, FinishEnds DEF startPostgres, repoVars, GoTo
<1>13. CASE startCloud
  BY Zenon, <1>1, <1>13, FinishEnds DEF startCloud, repoVars
<1> QED
  BY Zenon, <1>2, <1>3, <1>4, <1>5, <1>6, <1>7, <1>8, <1>9, <1>10, <1>11, <1>12, <1>13 DEF JobStep

LEMMA ArchiveKeeps ==
    ASSUME StorageInv, ArchiveGoesWithBackup, [StorageNext]_<<storageVars, bounds>>
    PROVE  ArchiveGoesWithBackup'
<1>0. Shapes /\ NoJob.type # "backup"
  BY Zenon DEF StorageInv, NoJob
<1>1. CASE JobStep
  BY Zenon, <1>1, JobArchiveKeeps
<1>2. CASE CrashWorker \/ StartWorker
  <2>1. worker'.job = NoJob
    <3>1. CASE StartWorker
      BY <3>1 DEF StartWorker
    <3>2. CASE CrashWorker
      BY Zenon, <1>0, <3>2 DEF CrashWorker, Shapes
    <3> QED
      BY Zenon, <1>2, <3>1, <3>2
  <2> QED
    BY Zenon, <1>0, <2>1, ArchiveStays DEF Archiving
<1>3. CASE UNCHANGED <<worker, repo>>
  BY Zenon, <1>3, ArchiveStays
<1>4. CASE CloudStep
  BY Zenon, <1>3, <1>4, CloudUntimed
<1>5. CASE MinutePasses \/ TickFires
  BY Zenon, <1>3, <1>5 DEF MinutePasses, TickFires, workerVars, repoVars
<1>6. CASE runDueCron
  <2>1. PICK due : worker' = [worker EXCEPT !.pc = "cron", !.now = ticker, !.due = due]
    BY Zenon, <1>6 DEF runDueCron
  <2>2. worker'.job = worker.job /\ UNCHANGED repo
    BY Zenon, <1>0, <1>6, <2>1 DEF runDueCron, repoVars, Shapes
  <2> QED
    BY Zenon, <2>2, ArchiveStays
<1>7. CASE runCronJob
  <2>1. UNCHANGED repo
    BY Zenon, <1>7 DEF runCronJob, repoVars
  <2>2. PICK key \in CronKeys : runCronJob!2!(key)
    BY Zenon, <1>7 DEF runCronJob
  <2>3. CASE lastCronRuns[key] = worker.now
    <3>1. worker' = [worker EXCEPT !.due = @ \ {key}]
      BY Zenon, <2>2, <2>3
    <3>2. worker'.job = worker.job
      BY Zenon, <1>0, <3>1 DEF Shapes
    <3> QED
      BY Zenon, <2>1, <3>2, ArchiveStays
  <2>4. CASE lastCronRuns[key] # worker.now
    <3>1. PICK step : /\ step = FirstStep(JobOfKey(key))
                      /\ worker' = [worker EXCEPT !.pc = "run", !.due = @ \ {key},
                              !.job = [id |-> 0, type |-> JobOfKey(key), label |-> NoLabel,
                                       key |-> key, step |-> step]]
      BY Zenon, <2>2, <2>4
    <3>2. step # "attach"
      BY <3>1 DEF FirstStep
    <3>3. worker'.job.step = step
      BY Zenon, <1>0, <3>1 DEF Shapes
    <3> QED
      BY Zenon, <3>2, <3>3, ArchiveStays DEF Archiving
  <2> QED
    BY Zenon, <2>3, <2>4
<1>8. CASE CronDone \/ ListIntents \/ processIntents \/ CompleteIntent
  <2>1. UNCHANGED repo
    BY Zenon, <1>8, BatchUntimed
  <2>2. CASE CronDone \/ ListIntents
    <3>1. worker'.job = worker.job
      BY Zenon, <1>0, <2>2 DEF Shapes, CronDone, ListIntents
    <3> QED
      BY Zenon, <2>1, <3>1, ArchiveStays
  <2>3. CASE processIntents
    <3>1. worker'.job = worker.job \/ worker'.job.step = "prepare"
      <4>1. \/ worker' = [worker EXCEPT !.pc = "idle"]
            \/ \E i : worker' = [worker EXCEPT !.pc = "run", !.job = JobOfIntent(i)]
        BY Zenon, <2>3 DEF processIntents
      <4>2. CASE worker' = [worker EXCEPT !.pc = "idle"]
        BY Zenon, <1>0, <4>2 DEF Shapes
      <4>3. ASSUME NEW i, worker' = [worker EXCEPT !.pc = "run", !.job = JobOfIntent(i)]
            PROVE  worker'.job.step = "prepare"
        <5>1. worker'.job = JobOfIntent(i)
          BY Zenon, <1>0, <4>3 DEF Shapes
        <5> QED
          BY SMT, <5>1 DEF JobOfIntent
      <4> QED
        BY Zenon, <4>1, <4>2, <4>3
    <3> QED
      BY Zenon, <2>1, <3>1, ArchiveStays DEF Archiving
  <2>4. CASE CompleteIntent
    <3>1. worker'.job = NoJob
      BY Zenon, <1>0, <2>4 DEF Shapes, CompleteIntent
    <3> QED
      BY Zenon, <1>0, <3>1, ArchiveStays DEF Archiving
  <2> QED
    BY Zenon, <1>8, <2>2, <2>3, <2>4
<1>9. CASE UNCHANGED <<storageVars, bounds>>
  BY Zenon, <1>3, <1>9 DEF storageVars, workerVars, repoVars
<1> QED
  BY Zenon, <1>1, <1>2, <1>4, <1>5, <1>6, <1>7, <1>8, <1>9 DEF StorageNext, WorkerStep, JobStep

-----------------------------------------------------------------------------
(***************************************************************************)
(* The schedule.  A tick that is due came after the minute the worker was   *)
(* started in, and the ticks come in the order of their minutes; so what    *)
(* has run in the minute of a tick has run in this process, and its last    *)
(* run is known.                                                            *)
(***************************************************************************)
TimeInv ==
    /\ config \in bounds.configs
    /\ clock \in 1 .. bounds.minutes
    /\ ticker \in 0 .. clock /\ worker.now \in 0 .. clock /\ worker.startedAt \in 1 .. clock
    /\ ticker # Never => /\ worker.now <= ticker
                         /\ worker.startedAt < ticker \/ ticker = bounds.minutes
    /\ worker.due # {} => worker.startedAt < worker.now

RanBefore(k, m) ==
    /\ m <= clock
    /\ worker.pc # "down" => m <= worker.startedAt \/ m <= lastCronRuns[k]

CronInv ==
    /\ lastCronRuns \in [CronKeys -> Nat]
    /\ worker.pc # "down" => \A k \in CronKeys : lastCronRuns[k] <= worker.now
    /\ hist.cron \in [CronKeys -> [Minutes -> Nat]]
    /\ \A k \in CronKeys, m \in Minutes : /\ hist.cron[k][m] <= 1
                                          /\ hist.cron[k][m] > 0 => RanBefore(k, m)

LEMMA MinutesUpTo ==
    ASSUME bounds \in Limits
    PROVE  bounds.minutes \in Nat /\ 1 .. bounds.minutes \subseteq Minutes /\ Minutes \subseteq Nat
<1>1. PICK m \in Nat : m = Most("minutes")
  BY Zenon, LimitsAssumption
<1>2. bounds.minutes \in 1 .. m
  BY Zenon, <1>1, LimitsAssumption
<1>3. Minutes = 1 .. m
  BY Zenon, <1>1 DEF Minutes
<1> QED
  BY <1>2, <1>3

LEMMA CronInit == StorageInit => TimeInv /\ CronInv
<1> SUFFICES ASSUME StorageInit PROVE TimeInv /\ CronInv
  OBVIOUS
<1>1. bounds \in Limits /\ bounds.minutes \in Nat /\ bounds.minutes >= 1
  BY SMTT(30), LimitsAssumption, MinutesUpTo DEF StorageInit
<1>2. clock = 1 /\ ticker = 0 /\ worker.now = 0 /\ worker.startedAt = 1 /\ worker.due = {}
  BY Zenon DEF StorageInit, Never
<1>3. config \in bounds.configs
  BY Zenon DEF StorageInit
<1>4. TimeInv
  BY <1>1, <1>2, <1>3 DEF TimeInv, Never
<1>5. lastCronRuns = [k \in CronKeys |-> 0] /\ hist.cron = [k \in CronKeys |-> [m \in Minutes |-> 0]]
  BY Zenon DEF StorageInit, Never
<1>6. CronInv
  BY <1>2, <1>5 DEF CronInv
<1> QED
  BY Zenon, <1>4, <1>6

LEMMA UntimedKeeps ==
    ASSUME StorageInv, TimeInv, CronInv, Untimed, UNCHANGED bounds
    PROVE  TimeInv' /\ CronInv'
<1>1. TimeInv'
  BY Zenon DEF TimeInv, Untimed
<1>2. \A k, m : RanBefore(k, m) => RanBefore(k, m)'
  BY Zenon DEF RanBefore, Untimed
<1>3. CronInv'
  BY Zenon, <1>2 DEF CronInv, Untimed
<1> QED
  BY Zenon, <1>1, <1>3

LEMMA MinuteKeeps ==
    ASSUME StorageInv, TimeInv, CronInv, MinutePasses \/ TickFires, UNCHANGED bounds
    PROVE  TimeInv' /\ CronInv'
<1>1. UNCHANGED <<worker, config, lastCronRuns, hist>>
  BY Zenon DEF MinutePasses, TickFires, cloudVars, workerVars
<1>2. bounds.minutes \in Nat /\ Minutes \subseteq Nat
  BY Zenon, MinutesUpTo DEF StorageInv, Counts
<1>3. \/ clock' = clock + 1 /\ clock < bounds.minutes /\ ticker' = ticker
      \/ /\ clock' = clock /\ ticker' = clock /\ ticker = Never
         /\ clock > worker.startedAt \/ clock = bounds.minutes
  BY Zenon DEF MinutePasses, TickFires
<1>4. clock \in Nat /\ clock' \in Nat /\ clock <= clock'
  BY <1>2, <1>3 DEF TimeInv
<1>5. TimeInv'
  BY <1>1, <1>2, <1>3, <1>4 DEF TimeInv, Never
<1>6. \A k \in CronKeys, m \in Minutes : RanBefore(k, m) => RanBefore(k, m)'
  BY <1>1, <1>2, <1>4 DEF RanBefore
<1>7. CronInv'
  BY Zenon, <1>1, <1>6 DEF CronInv
<1> QED
  BY Zenon, <1>5, <1>7

LEMMA StartAndCrashKeep ==
    ASSUME StorageInv, TimeInv, CronInv, StartWorker \/ CrashWorker, UNCHANGED bounds
    PROVE  TimeInv' /\ CronInv'
<1>0. Shapes /\ UNCHANGED <<clock, config>> /\ ticker' = 0
  BY Zenon DEF StartWorker, CrashWorker, StorageInv, cloudVars, Never
<1>1. hist'.cron = hist.cron
  BY Zenon, <1>0 DEF StartWorker, CrashWorker, Shapes, HistShape
<1>2. bounds.minutes \in Nat /\ Minutes \subseteq Nat
  BY Zenon, MinutesUpTo DEF StorageInv, Counts
<1>3. CASE StartWorker
  <2>1. worker'.now = 0 /\ worker'.startedAt = clock /\ worker'.due = {} /\ lastCronRuns' = [k \in CronKeys |-> 0]
    BY Zenon, <1>3 DEF StartWorker, Never
  <2>2. TimeInv'
    BY <1>0, <1>2, <2>1 DEF TimeInv, Never
  <2>3. \A k \in CronKeys, m \in Minutes : RanBefore(k, m) => RanBefore(k, m)'
    BY Zenon, <1>0, <2>1 DEF RanBefore
  <2>4. CronInv'
    BY <1>1, <2>1, <2>3 DEF CronInv
  <2> QED
    BY Zenon, <2>2, <2>4
<1>4. CASE CrashWorker
  <2>1. worker'.pc = "down" /\ worker'.now = worker.now /\ worker'.startedAt = worker.startedAt
        /\ worker'.due = {} /\ UNCHANGED lastCronRuns
    BY Zenon, <1>0, <1>4 DEF CrashWorker, Shapes, HistShape
  <2>2. TimeInv'
    BY <1>0, <1>2, <2>1 DEF TimeInv, Never
  <2>3. \A k \in CronKeys, m \in Minutes : RanBefore(k, m) => RanBefore(k, m)'
    BY Zenon, <1>0, <2>1 DEF RanBefore
  <2>4. CronInv'
    BY Zenon, <1>1, <2>1, <2>3 DEF CronInv
  <2> QED
    BY Zenon, <2>2, <2>4
<1> QED
  BY Zenon, <1>3, <1>4

\* The settings give no job in the last minute, so a tick with a job came after
\* the worker was started.
LEMMA DueCronKeeps ==
    ASSUME StorageInv, TimeInv, CronInv, runDueCron, UNCHANGED bounds
    PROVE  TimeInv' /\ CronInv'
<1>0. Shapes /\ UNCHANGED <<clock, config, lastCronRuns, hist>> /\ ticker' = 0 /\ ticker # 0
      /\ worker.pc = "idle"
  BY Zenon DEF runDueCron, StorageInv, cloudVars, Never
<1>1. bounds.minutes \in Nat /\ Minutes \subseteq Nat
  BY Zenon, MinutesUpTo DEF StorageInv, Counts
<1>2. worker'.pc = "cron" /\ worker'.now = ticker /\ worker'.startedAt = worker.startedAt
      /\ worker'.due \subseteq {k \in CronKeys : Due(k, ticker)}
  BY Zenon, <1>0 DEF runDueCron, Shapes
<1>3. worker'.due # {} => ticker # bounds.minutes
  <2> SUFFICES ASSUME NEW k \in CronKeys, Due(k, ticker), ticker = bounds.minutes PROVE FALSE
    BY Zenon, <1>2
  <2>1. CronMatches(config.cron[k], At(bounds.minutes))
    BY Zenon DEF Due
  <2>2. bounds \in Limits /\ config \in bounds.configs
    BY Zenon DEF TimeInv, StorageInv, Counts
  <2> QED
    BY Zenon, <2>1, <2>2, LastMinuteAssumption
<1>4. ticker \in Nat /\ worker.now <= ticker /\ (worker'.due # {} => worker.startedAt < ticker)
  BY <1>0, <1>3 DEF TimeInv, Never
<1>5. TimeInv'
  BY <1>0, <1>1, <1>2, <1>4 DEF TimeInv, Never
<1>6. \A k \in CronKeys, m \in Minutes : RanBefore(k, m) => RanBefore(k, m)'
  BY Zenon, <1>0, <1>2 DEF RanBefore
<1>7. \A k \in CronKeys : lastCronRuns[k] <= ticker
  <2> SUFFICES ASSUME NEW k \in CronKeys PROVE lastCronRuns[k] <= ticker
    OBVIOUS
  <2>1. lastCronRuns[k] \in Nat /\ lastCronRuns[k] <= worker.now /\ worker.now \in Nat
    BY <1>0 DEF CronInv, TimeInv
  <2> QED
    BY <1>4, <2>1
<1>8. CronInv'
  BY Zenon, <1>0, <1>2, <1>6, <1>7 DEF CronInv
<1> QED
  BY Zenon, <1>5, <1>8

\* A job whose last run is not in the minute of the tick has not run in it.
LEMMA CronJobKeeps ==
    ASSUME StorageInv, TimeInv, CronInv, runCronJob, UNCHANGED bounds
    PROVE  TimeInv' /\ CronInv'
<1>0. Shapes /\ UNCHANGED <<clock, ticker, config>> /\ worker.pc = "cron"
  BY Zenon DEF runCronJob, StorageInv, timeVars, cloudVars
<1>1. PICK key \in CronKeys : runCronJob!2!(key)
  BY Zenon DEF runCronJob
<1>2. key \in worker.due
  BY Zenon, <1>1 DEF FirstDue
<1>3. bounds.minutes \in Nat /\ 1 .. bounds.minutes \subseteq Minutes /\ Minutes \subseteq Nat
  BY Zenon, MinutesUpTo DEF StorageInv, Counts
<1>4. worker.now \in Nat /\ worker.startedAt \in Nat /\ clock \in Nat /\ worker.startedAt < worker.now
      /\ worker.now <= clock /\ worker.now \in Minutes
  BY <1>2, <1>3 DEF TimeInv
<1>5. CASE lastCronRuns[key] = worker.now
  <2>1. worker' = [worker EXCEPT !.due = @ \ {key}] /\ UNCHANGED <<lastCronRuns, hist>>
    BY Zenon, <1>1, <1>5
  <2>2. worker'.pc = worker.pc /\ worker'.now = worker.now /\ worker'.startedAt = worker.startedAt
        /\ worker'.due = worker.due \ {key}
    BY Zenon, <1>0, <2>1 DEF Shapes, HistShape
  <2>3. TimeInv'
    BY Zenon, <1>0, <1>4, <2>2 DEF TimeInv
  <2>4. \A k \in CronKeys, m \in Minutes : RanBefore(k, m) => RanBefore(k, m)'
    BY Zenon, <1>0, <2>1, <2>2 DEF RanBefore
  <2>5. CronInv'
    BY Zenon, <1>0, <2>1, <2>2, <2>4 DEF CronInv
  <2> QED
    BY Zenon, <2>3, <2>5
<1>6. CASE lastCronRuns[key] # worker.now
  <2>1. /\ worker' = [worker EXCEPT !.pc = "run", !.due = @ \ {key},
                            !.job = [id |-> 0, type |-> JobOfKey(key), label |-> NoLabel,
                                     key |-> key, step |-> FirstStep(JobOfKey(key))]]
        /\ lastCronRuns' = [lastCronRuns EXCEPT ![key] = worker.now]
        /\ hist' = [hist EXCEPT !.cron[key][worker.now] = @ + 1]
    BY Zenon, <1>1, <1>6
  <2>2. worker'.pc = "run" /\ worker'.now = worker.now /\ worker'.startedAt = worker.startedAt
        /\ worker'.due = worker.due \ {key}
    BY Zenon, <1>0, <2>1 DEF Shapes, HistShape
  <2>3. hist'.cron = [hist.cron EXCEPT ![key][worker.now] = @ + 1]
    BY Zenon, <1>0, <2>1 DEF Shapes, HistShape
  <2>4. lastCronRuns \in [CronKeys -> Nat] /\ lastCronRuns[key] \in Nat /\ lastCronRuns[key] <= worker.now
        /\ lastCronRuns[key] < worker.now
    <3>1. lastCronRuns \in [CronKeys -> Nat] /\ lastCronRuns[key] \in Nat /\ lastCronRuns[key] <= worker.now
      BY Zenon, <1>0 DEF CronInv
    <3> QED
      BY <1>4, <1>6, <3>1
  <2>5. hist.cron \in [CronKeys -> [Minutes -> Nat]] /\ hist.cron[key][worker.now] \in Nat
    BY Zenon, <1>4 DEF CronInv
  <2>6. hist.cron[key][worker.now] = 0
    <3>1. ~RanBefore(key, worker.now)
      BY <1>0, <1>4, <2>4 DEF RanBefore
    <3>2. ~(hist.cron[key][worker.now] > 0)
      BY Zenon, <1>4, <3>1 DEF CronInv
    <3> QED
      BY <2>5, <3>2
  <2>7. TimeInv'
    BY Zenon, <1>0, <1>4, <2>2 DEF TimeInv
  <2>8. lastCronRuns' \in [CronKeys -> Nat] /\ lastCronRuns'[key] = worker.now
        /\ \A k \in CronKeys : k # key => lastCronRuns'[k] = lastCronRuns[k]
    BY Zenon, <1>4, <2>1, <2>4
  <2>9. hist'.cron \in [CronKeys -> [Minutes -> Nat]]
    BY <1>4, <2>3, <2>5
  <2>10. hist'.cron[key][worker.now] = 1
    BY <1>4, <2>3, <2>5, <2>6
  <2>11. \A k \in CronKeys, m \in Minutes : k # key \/ m # worker.now => hist'.cron[k][m] = hist.cron[k][m]
    BY <1>4, <2>3, <2>5
  <2>12. \A k \in CronKeys, m \in Minutes : RanBefore(k, m) => RanBefore(k, m)'
    <3> SUFFICES ASSUME NEW k \in CronKeys, NEW m \in Minutes, RanBefore(k, m) PROVE RanBefore(k, m)'
      OBVIOUS
    <3>1. m \in Nat /\ m <= clock /\ (m <= worker.startedAt \/ m <= lastCronRuns[k])
      BY Zenon, <1>0, <1>3 DEF RanBefore
    <3>2. m <= worker.startedAt \/ m <= lastCronRuns'[k]
      <4>1. CASE k = key
        BY <1>4, <2>4, <2>8, <3>1, <4>1
      <4>2. CASE k # key
        BY Zenon, <2>8, <3>1, <4>2
      <4> QED
        BY Zenon, <4>1, <4>2
    <3> QED
      BY Zenon, <1>0, <2>2, <3>1, <3>2 DEF RanBefore
  <2>13. \A k \in CronKeys : lastCronRuns'[k] <= worker'.now
    BY SMTT(30), <1>0, <1>4, <2>2, <2>8 DEF CronInv
  <2>14. ASSUME NEW k \in CronKeys, NEW m \in Minutes
         PROVE  hist'.cron[k][m] <= 1 /\ (hist'.cron[k][m] > 0 => RanBefore(k, m)')
    <3>1. CASE k = key /\ m = worker.now
      <4>1. RanBefore(k, m)'
        BY <1>0, <1>4, <2>2, <2>8, <3>1 DEF RanBefore
      <4> QED
        BY <2>10, <3>1, <4>1
    <3>2. CASE k # key \/ m # worker.now
      <4>1. hist'.cron[k][m] = hist.cron[k][m]
        BY Zenon, <2>11, <3>2
      <4>2. hist.cron[k][m] <= 1 /\ (hist.cron[k][m] > 0 => RanBefore(k, m))
        BY Zenon DEF CronInv
      <4> QED
        BY Zenon, <2>12, <4>1, <4>2
    <3> QED
      BY Zenon, <3>1, <3>2
  <2>15. CronInv'
    BY Zenon, <2>8, <2>9, <2>13, <2>14 DEF CronInv
  <2> QED
    BY Zenon, <2>7, <2>15
<1> QED
  BY Zenon, <1>5, <1>6

LEMMA CronKeeps ==
    ASSUME StorageInv, TimeInv, CronInv, [StorageNext]_<<storageVars, bounds>>
    PROVE  TimeInv' /\ CronInv'
<1>1. CASE UNCHANGED <<storageVars, bounds>>
  <2>1. UNCHANGED <<clock, ticker, worker, lastCronRuns, config, hist, bounds>>
    BY Zenon, <1>1 DEF storageVars, timeVars, cloudVars, workerVars
  <2>2. Untimed
    BY Zenon, <2>1 DEF Untimed
  <2> QED
    BY Zenon, <2>1, <2>2, UntimedKeeps
<1>2. CASE StorageNext
  <2>0. UNCHANGED bounds
    BY Zenon, <1>2 DEF StorageNext
  <2>1. CASE JobStep \/ CloudStep \/ CronDone \/ ListIntents \/ processIntents \/ CompleteIntent
    BY Zenon, <2>0, <2>1, JobUntimed, CloudUntimed, BatchUntimed, UntimedKeeps
  <2>2. CASE MinutePasses \/ TickFires
    BY Zenon, <2>0, <2>2, MinuteKeeps
  <2>3. CASE StartWorker \/ CrashWorker
    BY Zenon, <2>0, <2>3, StartAndCrashKeep
  <2>4. CASE runDueCron
    BY Zenon, <2>0, <2>4, DueCronKeeps
  <2>5. CASE runCronJob
    BY Zenon, <2>0, <2>5, CronJobKeeps
  <2> QED
    BY Zenon, <1>2, <2>1, <2>2, <2>3, <2>4, <2>5 DEF StorageNext, WorkerStep, JobStep
<1> QED
  BY Zenon, <1>1, <1>2

-----------------------------------------------------------------------------
(***************************************************************************)
(* The tokens.  What was granted and what is outstanding was issued; what   *)
(* is on disk or about to be was granted.                                   *)
(***************************************************************************)
Primary(set) == {i \in set : i.type = "restore-primary"}
Stamped(req) == IF req.pc = "stamped" /\ req.intent.type = "restore-primary" THEN 1 ELSE 0

GrantInv ==
    /\ IsFiniteSet(tokens) /\ IsFiniteSet(intents)
    /\ hist.tokens \in Nat /\ hist.granted \in Nat
    /\ hist.granted + Cardinality(tokens) <= hist.tokens
    /\ Cardinality(Primary(intents)) + Stamped(request) <= hist.granted

LEMMA GrantInit == StorageInit => GrantInv
<1> SUFFICES ASSUME StorageInit PROVE GrantInv
  OBVIOUS
<1>1. tokens = {} /\ intents = {} /\ Primary(intents) = {} /\ hist.tokens = 0 /\ hist.granted = 0
      /\ Stamped(request) = 0
  BY Zenon DEF StorageInit, Primary, Stamped, Idle
<1>2. IsFiniteSet({}) /\ Cardinality({}) = 0
  BY Zenon, FS_EmptySet
<1> QED
  BY <1>1, <1>2 DEF GrantInv

LEMMA PrimaryCount ==
    ASSUME NEW S, IsFiniteSet(S) PROVE IsFiniteSet(Primary(S)) /\ Cardinality(Primary(S)) \in Nat
<1>1. Primary(S) \subseteq S
  BY Zenon DEF Primary
<1>2. IsFiniteSet(Primary(S))
  BY Zenon, <1>1, FS_Subset
<1> QED
  BY Zenon, <1>2, FS_CardinalityType

\* A step that takes no token and gives no grant: the outstanding tokens are
\* the same or gone, and so is the request.
LEMMA GrantStays ==
    ASSUME GrantInv, hist'.tokens = hist.tokens, hist'.granted = hist.granted,
           tokens' = tokens \/ tokens' = {},
           IsFiniteSet(intents'), Cardinality(Primary(intents')) + Stamped(request')
                                    <= Cardinality(Primary(intents)) + Stamped(request)
    PROVE  GrantInv'
<1>1. IsFiniteSet({}) /\ Cardinality({}) = 0 /\ Cardinality(tokens) \in Nat
  BY Zenon, FS_EmptySet, FS_CardinalityType DEF GrantInv
<1>2. IsFiniteSet(tokens') /\ Cardinality(tokens') \in Nat /\ Cardinality(tokens') <= Cardinality(tokens)
  BY <1>1 DEF GrantInv
<1>3. hist'.granted + Cardinality(tokens') <= hist'.tokens
  BY SMTT(30), <1>1, <1>2 DEF GrantInv
<1>4. /\ Cardinality(Primary(intents)) \in Nat /\ Cardinality(Primary(intents')) \in Nat
      /\ Stamped(request) \in Nat /\ Stamped(request') \in Nat
  BY Zenon, PrimaryCount DEF GrantInv, Stamped
<1>5. Cardinality(Primary(intents')) + Stamped(request') <= hist'.granted
  BY <1>4 DEF GrantInv
<1> QED
  BY Zenon, <1>2, <1>3, <1>5 DEF GrantInv

LEMMA GrantQuiet ==
    ASSUME GrantInv, hist'.tokens = hist.tokens, hist'.granted = hist.granted,
           tokens' = tokens \/ tokens' = {}, UNCHANGED intents,
           request' = request \/ Stamped(request') = 0
    PROVE  GrantInv'
<1>1. Cardinality(Primary(intents)) \in Nat /\ Stamped(request) \in Nat /\ IsFiniteSet(intents)
  BY Zenon, PrimaryCount DEF GrantInv, Stamped
<1>2. Stamped(request') <= Stamped(request) /\ Stamped(request') \in Nat
  BY <1>1 DEF Stamped
<1>3. Cardinality(Primary(intents')) + Stamped(request') <= Cardinality(Primary(intents)) + Stamped(request)
  BY <1>1, <1>2
<1> QED
  BY Zenon, <1>1, <1>3, GrantStays

LEMMA RenameGrants ==
    ASSUME StorageInv, GrantInv, RenameIntent PROVE GrantInv'
<1>1. UNCHANGED <<hist, tokens>> /\ intents' = intents \cup {request.intent}
      /\ request' = [request EXCEPT !.pc = "renamed"] /\ request.pc = "stamped"
  BY Zenon DEF RenameIntent
<1>2. IsFiniteSet(intents) /\ IsFiniteSet(intents')
  BY Zenon, <1>1, FS_AddElement DEF GrantInv
<1>3. Stamped(request') = 0
  BY Zenon, <1>1 DEF Stamped, StorageInv, Shapes, HistShape
<1>4. Cardinality(Primary(intents)) \in Nat /\ IsFiniteSet(Primary(intents)) /\ Cardinality(Primary(intents')) \in Nat
  BY Zenon, <1>2, PrimaryCount
<1>5. Cardinality(Primary(intents')) <= Cardinality(Primary(intents)) + Stamped(request)
  <2>1. CASE request.intent.type = "restore-primary"
    <3>1. Primary(intents') = Primary(intents) \cup {request.intent}
      BY Zenon, <1>1, <2>1 DEF Primary
    <3>2. Cardinality(Primary(intents')) = Cardinality(Primary(intents))
          \/ Cardinality(Primary(intents')) = Cardinality(Primary(intents)) + 1
      BY Zenon, <1>4, <3>1, FS_AddElement
    <3>3. Stamped(request) = 1
      BY Zenon, <1>1, <2>1 DEF Stamped
    <3> QED
      BY <1>4, <3>2, <3>3
  <2>2. CASE request.intent.type # "restore-primary"
    <3>1. Primary(intents') = Primary(intents) /\ Stamped(request) = 0
      BY Zenon, <1>1, <2>2 DEF Primary, Stamped
    <3> QED
      BY <1>4, <3>1
  <2> QED
    BY Zenon, <2>1, <2>2
<1>6. Stamped(request) \in Nat
  BY Zenon DEF Stamped
<1>7. Cardinality(Primary(intents')) + Stamped(request') <= Cardinality(Primary(intents)) + Stamped(request)
  BY <1>3, <1>4, <1>5, <1>6
<1> QED
  BY Zenon, <1>1, <1>2, <1>7, GrantStays

LEMMA CompleteGrants ==
    ASSUME StorageInv, GrantInv, CompleteIntent PROVE GrantInv'
<1>1. UNCHANGED <<tokens, request>>
  BY Zenon DEF CompleteIntent
<1>2. hist'.tokens = hist.tokens /\ hist'.granted = hist.granted
  BY Zenon DEF CompleteIntent, StorageInv, Shapes, HistShape
<1>3. intents' \subseteq intents /\ IsFiniteSet(intents)
  BY Zenon DEF CompleteIntent, GrantInv
<1>4. IsFiniteSet(intents') /\ Primary(intents') \subseteq Primary(intents)
  BY Zenon, <1>3, FS_Subset DEF Primary
<1>5. IsFiniteSet(Primary(intents)) /\ Cardinality(Primary(intents)) \in Nat
      /\ Cardinality(Primary(intents')) \in Nat
  BY Zenon, <1>3, <1>4, PrimaryCount
<1>6. Cardinality(Primary(intents')) <= Cardinality(Primary(intents))
  BY Zenon, <1>4, <1>5, FS_Subset
<1>7. Stamped(request) \in Nat
  BY Zenon DEF Stamped
<1>8. Cardinality(Primary(intents')) + Stamped(request') <= Cardinality(Primary(intents)) + Stamped(request)
  BY <1>1, <1>5, <1>6, <1>7
<1> QED
  BY Zenon, <1>1, <1>2, <1>4, <1>8, GrantStays

LEMMA IssueGrants ==
    ASSUME StorageInv, GrantInv, IssueToken PROVE GrantInv'
<1>1. UNCHANGED <<intents, request>> /\ hist' = [hist EXCEPT !.tokens = @ + 1]
  BY Zenon DEF IssueToken
<1>2. hist'.tokens = hist.tokens + 1 /\ hist'.granted = hist.granted
  BY Zenon, <1>1 DEF StorageInv, Shapes, HistShape
<1>3. PICK token : tokens' = tokens \cup {token}
  BY Zenon DEF IssueToken
<1>4. IsFiniteSet(tokens) /\ IsFiniteSet(tokens') /\ Cardinality(tokens) \in Nat
  BY Zenon, <1>3, FS_AddElement, FS_CardinalityType DEF GrantInv
<1>5. Cardinality(tokens') = Cardinality(tokens) \/ Cardinality(tokens') = Cardinality(tokens) + 1
  BY Zenon, <1>3, <1>4, FS_AddElement
<1>6. hist'.granted + Cardinality(tokens') <= hist'.tokens
  BY <1>2, <1>4, <1>5 DEF GrantInv
<1> QED
  BY <1>1, <1>2, <1>4, <1>6 DEF GrantInv

\* A request for a primary restore takes its token away, and is granted with
\* that token or not at all.
LEMMA RestoreGrants ==
    ASSUME StorageInv, GrantInv, NEW label, NEW token \in tokens, NEW confirmed,
           RequestPrimaryRestore(label, token, confirmed)
    PROVE  GrantInv'
<1>1. tokens' = tokens \ {token} /\ UNCHANGED intents /\ request = Idle
  BY Zenon DEF RequestPrimaryRestore, ConsumeToken, Stamp
<1>2. IsFiniteSet(tokens) /\ IsFiniteSet(tokens') /\ Cardinality(tokens) \in Nat
  BY Zenon, <1>1, FS_RemoveElement, FS_CardinalityType DEF GrantInv
<1>3. Cardinality(tokens') = Cardinality(tokens) - 1
  BY Zenon, <1>1, <1>2, FS_RemoveElement
<1>4. Cardinality(Primary(intents)) \in Nat /\ Stamped(request) = 0
  BY Zenon, <1>1, PrimaryCount DEF GrantInv, Stamped, Idle
<1>5. CASE hist' = hist /\ request' = request
  <2>1. hist'.granted + Cardinality(tokens') <= hist'.tokens
    BY <1>2, <1>3, <1>5 DEF GrantInv
  <2> QED
    BY Zenon, <1>1, <1>2, <1>5, <2>1 DEF GrantInv
<1>6. CASE hist' = [hist EXCEPT !.ids = @ + 1, !.granted = @ + 1]
  <2>1. hist'.tokens = hist.tokens /\ hist'.granted = hist.granted + 1
    BY Zenon, <1>6 DEF StorageInv, Shapes, HistShape
  <2>2. hist'.granted + Cardinality(tokens') <= hist'.tokens
    BY <1>2, <1>3, <2>1 DEF GrantInv
  <2>3. Stamped(request') \in {0, 1}
    BY Zenon DEF Stamped
  <2>4. Cardinality(Primary(intents')) + Stamped(request') <= hist'.granted
    BY <1>1, <1>4, <2>1, <2>3 DEF GrantInv
  <2> QED
    BY <1>1, <1>2, <2>1, <2>2, <2>4 DEF GrantInv
<1> QED
  BY Zenon, <1>5, <1>6 DEF RequestPrimaryRestore

LEMMA CloudGrants ==
    ASSUME StorageInv, GrantInv, CloudStep PROVE GrantInv'
<1>0. Shapes
  BY Zenon DEF StorageInv
<1>1. CASE \E cfg \in bounds.configs : SaveConfig(cfg)
  BY Zenon, <1>1, GrantQuiet DEF SaveConfig
<1>2. CASE IssueToken
  BY Zenon, <1>2, IssueGrants
<1>3. ASSUME NEW type \in {"backup", "restore-test"}, NEW label, Stamp(type, label),
             hist' = [hist EXCEPT !.ids = @ + 1], UNCHANGED tokens
      PROVE  GrantInv'
  <2>1. hist'.tokens = hist.tokens /\ hist'.granted = hist.granted
    BY Zenon, <1>0, <1>3 DEF Shapes, HistShape
  <2>2. UNCHANGED intents /\ request'.intent.type = type
    BY Zenon, <1>3 DEF Stamp
  <2>3. Stamped(request') = 0
    BY Zenon, <2>2 DEF Stamped
  <2> QED
    BY Zenon, <1>3, <2>1, <2>2, <2>3, GrantQuiet
<1>4. CASE RequestBackup
  BY Zenon, <1>3, <1>4 DEF RequestBackup
<1>5. CASE \E label \in {NoLabel} \cup Labels : RequestRestoreTest(label)
  BY Zenon, <1>3, <1>5 DEF RequestRestoreTest
<1>6. CASE \E label \in {NoLabel} \cup Labels, token \in tokens, confirmed \in BOOLEAN :
             RequestPrimaryRestore(label, token, confirmed)
  BY Zenon, <1>6, RestoreGrants
<1>7. CASE RenameIntent
  BY Zenon, <1>7, RenameGrants
<1>8. CASE AnswerRequest
  <2>1. UNCHANGED <<hist, tokens, intents>> /\ Stamped(request') = 0
    BY Zenon, <1>8 DEF AnswerRequest, Stamped, Idle
  <2> QED
    BY Zenon, <2>1, GrantQuiet
<1> QED
  BY Zenon, <1>1, <1>2, <1>4, <1>5, <1>6, <1>7, <1>8 DEF CloudStep

LEMMA JobGrants ==
    ASSUME StorageInv, GrantInv, JobStep PROVE GrantInv'
<1>0. Shapes /\ UNCHANGED intents /\ (request' = request \/ request' = Idle)
  BY Zenon, CommandOutcomes DEF StorageInv
<1>1. Stamped(Idle) = 0
  BY Zenon DEF Stamped, Idle
<1>2. tokens' = tokens \/ tokens' = {}
  BY Zenon DEF JobStep, prepare, pgBackRestBackup, SaveBackupSets, runAttachmentBackup, runAMCheck,
     RunScheduledRestoreVerification, restoreIntoTestDatabase, validateRestoredDatabase,
     validateAttachmentBackupRestore, stopStack, restorePrimary, startPostgres, startCloud,
     cloudVars, ComposeStop
<1>3. PICK history : /\ Relabelled(history)
                     /\ hist' = history \/ hist' = [history EXCEPT !.ended = @ \cup {worker.job.id}]
  BY Zenon, CommandOutcomes DEF Ends, GoesOn, finishTaskAs, Relabelled
<1>a. HistShape(history) /\ history.tokens = hist.tokens /\ history.granted = hist.granted
  BY Zenon, <1>0, <1>3, RelabelledIs
<1>4. hist'.tokens = hist.tokens /\ hist'.granted = hist.granted
  BY Zenon, <1>3, <1>a DEF HistShape
<1> QED
  BY Zenon, <1>0, <1>1, <1>2, <1>4, GrantQuiet

LEMMA GrantKeeps ==
    ASSUME StorageInv, GrantInv, [StorageNext]_<<storageVars, bounds>> PROVE GrantInv'
<1>0. Shapes
  BY Zenon DEF StorageInv
<1>1. CASE JobStep
  BY Zenon, <1>1, JobGrants
<1>2. CASE CloudStep
  BY Zenon, <1>2, CloudGrants
<1>3. CASE CompleteIntent
  BY Zenon, <1>3, CompleteGrants
<1>4. CASE UNCHANGED <<storageVars, bounds>>
  BY Zenon, <1>4, GrantQuiet DEF storageVars, cloudVars
<1>5. CASE MinutePasses \/ TickFires \/ StartWorker \/ runDueCron \/ CronDone
  BY Zenon, <1>5, GrantQuiet DEF MinutePasses, TickFires, StartWorker, runDueCron, CronDone, cloudVars
<1>9. CASE ListIntents
  <2>1. UNCHANGED <<tokens, intents, request>> /\ (hist' = hist \/ hist' = [hist EXCEPT !.unread = @ + 1])
    BY Zenon, <1>9 DEF ListIntents, cloudVars
  <2>2. hist'.tokens = hist.tokens /\ hist'.granted = hist.granted
    BY Zenon, <1>0, <2>1 DEF Shapes, HistShape
  <2> QED
    BY Zenon, <2>1, <2>2, GrantQuiet
<1>6. CASE CrashWorker
  <2>1. UNCHANGED <<tokens, intents, request>> /\ hist' = [hist EXCEPT !.crashes = @ + 1]
    BY Zenon, <1>6 DEF CrashWorker, cloudVars
  <2>2. hist'.tokens = hist.tokens /\ hist'.granted = hist.granted
    BY Zenon, <1>0, <2>1 DEF Shapes, HistShape
  <2> QED
    BY Zenon, <2>1, <2>2, GrantQuiet
<1>7. CASE runCronJob
  <2>1. UNCHANGED <<tokens, intents, request>>
    BY Zenon, <1>7 DEF runCronJob, cloudVars
  <2>2. hist' = hist \/ \E key : hist' = [hist EXCEPT !.cron[key][worker.now] = @ + 1]
    BY Zenon, <1>7 DEF runCronJob
  <2>3. hist'.tokens = hist.tokens /\ hist'.granted = hist.granted
    BY Zenon, <1>0, <2>2 DEF Shapes, HistShape
  <2> QED
    BY Zenon, <2>1, <2>3, GrantQuiet
<1>8. CASE processIntents
  <2>1. UNCHANGED <<tokens, intents, request>>
    BY Zenon, <1>8 DEF processIntents, cloudVars
  <2>2. hist' = hist \/ \E i : hist' = [hist EXCEPT !.runs[i.id] = @ + 1, !.ended = @ \ {i.id}]
    BY Zenon, <1>8 DEF processIntents
  <2>3. hist'.tokens = hist.tokens /\ hist'.granted = hist.granted
    BY Zenon, <1>0, <2>2 DEF Shapes, HistShape
  <2> QED
    BY Zenon, <2>1, <2>3, GrantQuiet
<1> QED
  BY Zenon, <1>1, <1>2, <1>3, <1>4, <1>5, <1>6, <1>7, <1>8, <1>9 DEF StorageNext, WorkerStep, JobStep

-----------------------------------------------------------------------------
AskedInv == StorageInv /\ ArchiveGoesWithBackup /\ TimeInv /\ CronInv /\ GrantInv

LEMMA InvGrants == GrantInv => RestoresAreGranted
<1> SUFFICES ASSUME GrantInv PROVE RestoresAreGranted
  OBVIOUS
<1>1. Cardinality(tokens) \in Nat /\ Cardinality(Primary(intents)) \in Nat /\ Stamped(request) \in Nat
  BY Zenon, FS_CardinalityType, PrimaryCount DEF GrantInv, Stamped
<1>2. Cardinality(Primary(intents)) <= hist.granted
  BY <1>1 DEF GrantInv
<1>3. hist.granted <= hist.tokens
  BY <1>1 DEF GrantInv
<1> QED
  BY Zenon, <1>2, <1>3 DEF GrantInv, RestoresAreGranted, Primary

\* The worker does only what it was asked to (createIntent, Consume,
\* runDueCron, runCronJob, processIntents, SaveBackupSets,
\* runAttachmentBackup): the runs of an intent are explained, every primary
\* restore has a token of its own, a scheduled job runs once in its minute
\* whatever crashes and restarts there are, and the attachments are archived
\* under the newest backup whatever pgBackRest and the list of backups did.
THEOREM OnlyWhatWasAsked == StorageSpec => []OperationsAreAsked
<1>1. StorageInit => AskedInv
  <2>1. StorageInit => ArchiveGoesWithBackup
    BY DEF StorageInit, ArchiveGoesWithBackup, NoJob
  <2> QED
    BY Zenon, <2>1, InitInv, CronInit, GrantInit DEF AskedInv
<1>2. AskedInv /\ [StorageNext]_<<storageVars, bounds>> => AskedInv'
  BY Zenon, NextKeeps, ArchiveKeeps, CronKeeps, GrantKeeps DEF AskedInv
<1>3. AskedInv => OperationsAreAsked
  <2>1. AskedInv => CronOncePerMinute
    BY Zenon DEF AskedInv, CronInv, CronOncePerMinute
  <2> QED
    BY Zenon, <2>1, InvExplains, InvGrants DEF AskedInv, OperationsAreAsked
<1> QED
  BY <1>1, <1>2, <1>3, PTL DEF StorageSpec
=============================================================================

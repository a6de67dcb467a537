------------------------------ MODULE MCStorage ------------------------------
(***************************************************************************)
(* The storage models for model checking.  The worker with its queue and    *)
(* the event log share no state that either looks at, so a behaviour is one *)
(* of the first or one of the second, not an interleaving of both.          *)
(***************************************************************************)
EXTENDS StorageWorker, StorageEvents

VARIABLE focus  \* the part this behaviour is about

any == {[kind |-> "any", from |-> 0, to |-> 0, step |-> 1]}
on(m) == {[kind |-> "value", from |-> m, to |-> m, step |-> 1]}
within(a, b, s) == {[kind |-> "range", from |-> a, to |-> b, step |-> s]}
inMinute(field) == <<field, any, any, any, within(1, 7, 3)>>

cronOf(full, diff, amcheck, verify) ==
    [k \in CronKeys |-> inMinute(CASE k = "backup-full" -> full [] k = "backup-diff" -> diff
                                   [] k = "amcheck" -> amcheck [] k = "restore-verification" -> verify)]
quiet == [cron |-> cronOf(on(59), on(59), on(59), on(59)), retention |-> 2, verify |-> TRUE, primary |-> TRUE]
busy == [quiet EXCEPT !.cron = cronOf(on(2), on(3), on(2), within(2, 3, 1))]
off == [quiet EXCEPT !.cron = cronOf(on(59), within(2, 9, 7), on(59), on(3)), !.verify = FALSE,
                     !.primary = FALSE]
invalid == [busy EXCEPT !.retention = 31]

MCStorageLimits ==
    {[configs |-> {quiet}, intents |-> 2, minutes |-> 2, backups |-> 1, tokens |-> 0,
      crashes |-> 0, stuck |-> 1, stored |-> 0],
     [configs |-> {quiet}, intents |-> 1, minutes |-> 2, backups |-> 1, tokens |-> 2,
      crashes |-> 1, stuck |-> 0, stored |-> 1],
     [configs |-> {busy}, intents |-> 0, minutes |-> 4, backups |-> 2, tokens |-> 0,
      crashes |-> 1, stuck |-> 0, stored |-> 0],
     [configs |-> {busy, off, invalid}, intents |-> 0, minutes |-> 4, backups |-> 1, tokens |-> 0,
      crashes |-> 0, stuck |-> 0, stored |-> 0]}

\* Two lines of size 3 are over the byte limit, so that three events are enough
\* for an append during another call's prune.
MCEventLimits ==
    {[events |-> 3, sizes |-> {1}, outcomes |-> {"failed"}, faults |-> 0, forward |-> TRUE],
     [events |-> 2, sizes |-> {3}, outcomes |-> {"failed"}, faults |-> 1, forward |-> TRUE],
     [events |-> 3, sizes |-> {1, 3}, outcomes |-> {"success", "failed"}, faults |-> 0, forward |-> FALSE],
     [events |-> 3, sizes |-> {3}, outcomes |-> {"failed"}, faults |-> 1, forward |-> FALSE]}
-----------------------------------------------------------------------------
FirstLimit == CHOOSE l \in Limits : Cardinality(l.configs) = 1
FirstEventLimit == CHOOSE l \in EventLimits : TRUE

MCInit ==
    /\ StorageInit /\ EventsInit
    /\ \/ focus = "worker" /\ eventBounds = FirstEventLimit
       \/ focus = "events" /\ bounds = FirstLimit

MCNext ==
    /\ \/ focus = "worker" /\ StorageNext /\ UNCHANGED <<eventVars, eventBounds>>
       \/ focus = "events" /\ EventsNext /\ UNCHANGED <<storageVars, bounds>>
    /\ UNCHANGED focus

MCFairness ==
    /\ WF_storageVars(focus = "worker" /\ WorkerStep)
    /\ WF_storageVars(focus = "worker" /\ StartWorker)
    /\ WF_storageVars(focus = "worker" /\ TickFires)
    /\ WF_storageVars(focus = "worker" /\ MinutePasses)
    /\ WF_eventVars(focus = "events" /\ Forwarder)

MCSpec == MCInit /\ [][MCNext]_<<storageVars, bounds, eventVars, eventBounds, focus>> /\ MCFairness
-----------------------------------------------------------------------------
\* The event log keeps the newest events, the status shows them, and each is published a bounded number
\* of times (StorageEvents: NewestKept, StatusShowsNewest, PublishedBound).
EventsAreKept == NewestKept /\ StatusShowsNewest /\ PublishedBound
==============================================================================

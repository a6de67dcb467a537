---------------------------- MODULE StorageEvents ----------------------------
(***************************************************************************)
(* The storage event log (storage-events.jsonl).  The database worker and   *)
(* the cloud handlers append to it without a lock; each append is followed  *)
(* by a prune that reads the file, writes the newest lines to one shared    *)
(* temporary file and renames that over the log.  The cloud server reads    *)
(* the log every ten seconds and publishes what it has not seen, and folds  *)
(* it into the status page.                                                 *)
(*                                                                         *)
(* An event's identifier is the time it was created at, so the order of     *)
(* identifiers is that of Event.Time.                                       *)
(***************************************************************************)
EXTENDS Naturals, Sequences, FiniteSets, SequencesExt

CONSTANTS
    Handlers,       \* cloud requests that append an event
    MaxEntries,     \* DefaultEventLogMaxEntries
    MaxBytes,       \* DefaultEventLogMaxBytes
    ReadLimit,      \* events read by forwardStorageEvents and LoadStatus
    Operations,     \* operations that events are about
    EventLimits     \* the bounds a behaviour may have: events, sizes of a line,
                    \* outcomes of a worker's step, restarts and clears, and
                    \* whether the forwarder is scheduled

VARIABLES
    eventLog,       \* lines of the log file
    tmpFile,        \* the shared temporary file, or NoFile
    writers,        \* calls of AppendEvent
    storageEvents,  \* identifiers the cloud process has seen
    seeded,         \* the forwarder has completed its first pass
    forwarding,     \* events the forwarder has read and not handled, or Asleep
    published,      \* number of times this cloud process published each event
    eventBounds,    \* the bounds of this behaviour, from EventLimits
    log             \* history: what was appended, by whom and during whose prune,
                    \* what the first pass found, and the faults

eventVars == <<eventLog, tmpFile, writers, storageEvents, seeded, forwarding, published, log>>

Worker == "worker"
Writers == {Worker} \cup Handlers
EventIds == 1 .. Max({l.events : l \in EventLimits})
NoFile == [exists |-> FALSE, lines |-> <<>>]
Asleep == [awake |-> FALSE, todo |-> <<>>]
NoCall == [pc |-> "idle", event |-> {}, kept |-> <<>>]

\* Some call is between reading the log and renaming over it.
Pruning == \E v \in Writers : writers[v].pc \in {"prune", "rename"}

\* The events of the worker's own steps, and those of the handlers.
StatusesOf(w) == IF w = Worker THEN eventBounds.outcomes ELSE {"pending"}
-----------------------------------------------------------------------------
Bytes(lines) == FoldLeft(LAMBDA n, e : n + e.size, 0, lines)

Newest(lines, n) == SubSeq(lines, IF Len(lines) > n THEN Len(lines) - n + 1 ELSE 1, Len(lines))

\* The oldest lines are dropped until the rest fits or one line is left.
DropOldest(lines) ==
    LET fits == {n \in 1 .. Len(lines) : Bytes(Newest(lines, n)) <= MaxBytes}
    IN  Newest(lines, IF fits = {} THEN 1 ELSE Max(fits))

\* Mutant: the byte limit is applied first and the newest line is left out.
PruneLinesOffByOne(lines) == Newest(DropOldest(lines), MaxEntries - 1)

PruneLines(lines) == DropOldest(Newest(lines, MaxEntries))

MustPrune(lines) == Len(lines) > MaxEntries \/ Bytes(lines) > MaxBytes

\* ListEvents: the newest by time, latest first.
ListEvents(lines) ==
    LET sorted == SortSeq(lines, LAMBDA a, b : a.id > b.id)
    IN  SubSeq(sorted, 1, IF Len(sorted) > ReadLimit THEN ReadLimit ELSE Len(sorted))

IsFailureEvent(event) == event.status = "failed"

applyEventToStatus(status, event) ==
    [status EXCEPT ![event.operation] =
        [lastSuccess |-> IF event.status = "success" THEN event.id ELSE @.lastSuccess,
         lastFailure |-> IF IsFailureEvent(event) THEN event.id ELSE @.lastFailure,
         failures |-> IF IsFailureEvent(event) THEN @.failures + 1 ELSE @.failures]]

\* Mutant: the listed events are applied in the order they are listed.
LoadStatusNewestFirst(lines) ==
    FoldLeft(applyEventToStatus,
             [o \in Operations |-> [lastSuccess |-> 0, lastFailure |-> 0, failures |-> 0]],
             ListEvents(lines))

\* LoadStatus applies the listed events from the oldest to the newest.
LoadStatus(lines) ==
    FoldLeft(applyEventToStatus,
             [o \in Operations |-> [lastSuccess |-> 0, lastFailure |-> 0, failures |-> 0]],
             Reverse(ListEvents(lines)))
-----------------------------------------------------------------------------
EventsInit ==
    /\ eventBounds \in EventLimits
    /\ eventLog = <<>> /\ tmpFile = NoFile
    /\ writers = [w \in Writers |-> NoCall]
    /\ storageEvents = {} /\ seeded = FALSE /\ forwarding = Asleep
    /\ published = [i \in EventIds |-> 0]
    /\ log = [ids |-> 0, appended |-> <<>>, byWorker |-> {}, exposed |-> {}, cleared |-> 0,
              revivable |-> FALSE, found |-> {}, faults |-> 0]
-----------------------------------------------------------------------------
(***************************************************************************)
(* AppendEvent, called by the worker and by a handler.                      *)
(***************************************************************************)
NewEvent(w) ==
    /\ writers[w].pc = "idle" /\ log.ids < eventBounds.events
    /\ \E o \in Operations, s \in StatusesOf(w), n \in eventBounds.sizes :
         writers' = [writers EXCEPT ![w] =
            [pc |-> "stamped", kept |-> <<>>,
             event |-> [id |-> log.ids + 1, operation |-> o, status |-> s, size |-> n]]]
    /\ log' = [log EXCEPT !.ids = @ + 1, !.byWorker = @ \cup (IF w = Worker THEN {log.ids + 1} ELSE {})]
    /\ UNCHANGED <<eventLog, tmpFile, storageEvents, seeded, forwarding, published>>

\* The line is written with O_APPEND.
AppendLine(w) ==
    /\ writers[w].pc = "stamped"
    /\ eventLog' = Append(eventLog, writers[w].event)
    /\ writers' = [writers EXCEPT ![w].pc = "appended"]
    /\ log' = [log EXCEPT !.appended = Append(@, writers[w].event),
                 !.exposed = @ \cup (IF Pruning THEN {writers[w].event.id} ELSE {})]
    /\ UNCHANGED <<tmpFile, storageEvents, seeded, forwarding, published>>

\* pruneEventLog reads the whole file.
ReadLines(w) ==
    /\ writers[w].pc = "appended"
    /\ writers' = [writers EXCEPT
            ![w] = IF MustPrune(eventLog) THEN [@ EXCEPT !.pc = "prune", !.kept = PruneLines(eventLog)]
                                          ELSE [@ EXCEPT !.pc = "done"]]
    /\ UNCHANGED <<eventLog, tmpFile, storageEvents, seeded, forwarding, published, log>>

WriteTmp(w) ==
    /\ writers[w].pc = "prune"
    /\ tmpFile' = [exists |-> TRUE, lines |-> writers[w].kept]
    /\ writers' = [writers EXCEPT ![w].pc = "rename"]
    /\ UNCHANGED <<eventLog, storageEvents, seeded, forwarding, published, log>>

\* The other process may have renamed the shared temporary file already: then
\* AppendEvent returns an error, and a handler does not publish its event.
RenameTmp(w) ==
    /\ writers[w].pc = "rename"
    /\ IF ~tmpFile.exists
       THEN /\ writers' = [writers EXCEPT ![w] = NoCall]
            /\ UNCHANGED <<eventLog, tmpFile>>
       ELSE /\ eventLog' = tmpFile.lines
            /\ tmpFile' = NoFile
            /\ writers' = [writers EXCEPT ![w].pc = "done"]
    /\ UNCHANGED <<storageEvents, seeded, forwarding, published, log>>

\* A directory, file or rename that fails ends AppendEvent with an error: the
\* worker ignores it, a handler does not publish.
AppendEventFails(w) ==
    /\ writers[w].pc \in {"stamped", "appended", "prune", "rename"}
    /\ log.faults < eventBounds.faults
    /\ writers' = [writers EXCEPT ![w] = NoCall]
    /\ log' = [log EXCEPT !.faults = @ + 1]
    /\ UNCHANGED <<eventLog, tmpFile, storageEvents, seeded, forwarding, published>>

\* publishStorageEvent, in the handler that has stored the event: whether the
\* forwarder has seen it already is not looked at.
PublishStored(w) ==
    /\ writers[w].pc = "done"
    /\ writers' = [writers EXCEPT ![w] = NoCall]
    /\ IF w = Worker
       THEN UNCHANGED <<storageEvents, published>>
       ELSE /\ storageEvents' = storageEvents \cup {writers[w].event.id}
            /\ published' = [published EXCEPT ![writers[w].event.id] = @ + 1]
    /\ UNCHANGED <<eventLog, tmpFile, seeded, forwarding, log>>
-----------------------------------------------------------------------------
(***************************************************************************)
(* forwardStorageEvents.                                                    *)
(***************************************************************************)
ForwardTick ==
    /\ eventBounds.forward /\ ~forwarding.awake
    /\ forwarding' = [awake |-> TRUE, todo |-> ListEvents(eventLog)]
    /\ log' = [log EXCEPT !.found = IF seeded THEN @ ELSE {e.id : e \in Range(ListEvents(eventLog))}]
    /\ UNCHANGED <<eventLog, tmpFile, writers, storageEvents, seeded, published>>

\* Mutant: the first pass publishes what it finds.
ForwardEventUnseeded ==
    /\ forwarding.todo # <<>>
    /\ LET id == Head(forwarding.todo).id IN
       /\ storageEvents' = storageEvents \cup {id}
       /\ published' = IF id \notin storageEvents THEN [published EXCEPT ![id] = @ + 1] ELSE published
    /\ forwarding' = [forwarding EXCEPT !.todo = Tail(@)]
    /\ UNCHANGED <<eventLog, tmpFile, writers, seeded, log>>

\* Mutant: an event is marked as seen without being published when another
\* one follows it.
ForwardEventLastOnly ==
    /\ forwarding.todo # <<>>
    /\ LET id == Head(forwarding.todo).id IN
       /\ storageEvents' = storageEvents \cup {id}
       /\ published' = IF seeded /\ id \notin storageEvents /\ Len(forwarding.todo) = 1
                       THEN [published EXCEPT ![id] = @ + 1] ELSE published
    /\ forwarding' = [forwarding EXCEPT !.todo = Tail(@)]
    /\ UNCHANGED <<eventLog, tmpFile, writers, seeded, log>>

ForwardEvent ==
    /\ forwarding.todo # <<>>
    /\ LET id == Head(forwarding.todo).id IN
       /\ storageEvents' = storageEvents \cup {id}
       /\ published' = IF seeded /\ id \notin storageEvents
                       THEN [published EXCEPT ![id] = @ + 1] ELSE published
    /\ forwarding' = [forwarding EXCEPT !.todo = Tail(@)]
    /\ UNCHANGED <<eventLog, tmpFile, writers, seeded, log>>

ForwardDone ==
    /\ forwarding.awake /\ forwarding.todo = <<>>
    /\ forwarding' = Asleep
    /\ seeded' = TRUE
    /\ UNCHANGED <<eventLog, tmpFile, writers, storageEvents, published, log>>
-----------------------------------------------------------------------------
\* ClearEventLog removes the file.  A call that has read it by then writes the
\* lines it kept all the same.
ClearEventLog ==
    /\ log.faults < eventBounds.faults
    /\ eventLog' = <<>>
    /\ log' = [log EXCEPT !.cleared = Len(log.appended), !.revivable = @ \/ Pruning, !.faults = @ + 1]
    /\ UNCHANGED <<tmpFile, writers, storageEvents, seeded, forwarding, published>>

\* The cloud process ends and starts again; what it had seen is forgotten.
RestartCloud ==
    /\ log.faults < eventBounds.faults
    /\ writers' = [w \in Writers |-> IF w = Worker THEN writers[w] ELSE NoCall]
    /\ storageEvents' = {} /\ seeded' = FALSE /\ forwarding' = Asleep
    /\ published' = [i \in EventIds |-> 0]
    /\ log' = [log EXCEPT !.found = {}, !.faults = @ + 1]
    /\ UNCHANGED <<eventLog, tmpFile>>

Forwarder == ForwardTick \/ ForwardEvent \/ ForwardDone

EventsNext ==
    /\ \/ \E w \in Writers : \/ NewEvent(w) \/ AppendLine(w) \/ ReadLines(w)
                             \/ WriteTmp(w) \/ RenameTmp(w) \/ PublishStored(w)
                             \/ AppendEventFails(w)
       \/ Forwarder \/ ClearEventLog \/ RestartCloud
    /\ UNCHANGED eventBounds

\* The forwarder's ticker fires, and a pass over the events it read ends.
EventsFairness == WF_eventVars(Forwarder)

EventsSpec == EventsInit /\ [][EventsNext]_<<eventVars, eventBounds>> /\ EventsFairness
-----------------------------------------------------------------------------
(***************************************************************************)
(* Properties.                                                              *)
(***************************************************************************)
\* A cloud process publishes an event once at most from the log, and a handler
\* its own event once more, whether or not the forwarder read it in between.
\* What the first pass after a start found in the log is old: only the handler
\* that is at work on such an event publishes it.
PublishedBound ==
    \A i \in EventIds :
        published[i] <= (IF i \in log.found THEN 0 ELSE 1) + (IF i \in log.byWorker THEN 0 ELSE 1)

\* The log is what was appended, in that order, less what the limits drop, and
\* two prunes that cross through the one temporary file lose little more: of
\* the newest events that the limits allow, only one that was appended while
\* another call was between its reading and its rename can be missing.  What was
\* cleared stays away unless such a call was at work.
NewestKept ==
    LET since == SubSeq(log.appended, log.cleared + 1, Len(log.appended))
    IN  /\ eventLog = SelectSeq(log.appended, LAMBDA e : e \in Range(eventLog))
        /\ log.revivable \/ Range(eventLog) \subseteq Range(since)
        /\ \A n \in 1 .. Len(since) :
             n <= MaxEntries /\ Bytes(Newest(since, n)) <= MaxBytes =>
                \/ since[Len(since) - n + 1] \in Range(eventLog)
                \/ since[Len(since) - n + 1].id \in log.exposed

\* The status shows the newest success and the newest failure among the events
\* that are listed, whatever the order in which two processes appended them.
StatusShowsNewest ==
    LET listed == Range(ListEvents(eventLog))
        status == LoadStatus(eventLog)
        newest(S) == IF S = {} THEN 0 ELSE Max({e.id : e \in S})
    IN  \A o \in Operations :
          /\ status[o].lastSuccess = newest({e \in listed : e.operation = o /\ e.status = "success"})
          /\ status[o].lastFailure = newest({e \in listed : e.operation = o /\ e.status = "failed"})
          /\ status[o].failures = Cardinality({e \in listed : e.operation = o /\ e.status = "failed"})

\* Once the forwarder is seeded, an event in the log is published, unless it
\* falls out of what a pass reads, the log is cleared or the server restarts.
EventsArePublished ==
    \A i \in EventIds :
        (seeded /\ i \notin storageEvents /\ \E e \in Range(eventLog) : e.id = i)
            ~> (published[i] > 0 \/ ~seeded \/ i \notin {e.id : e \in Range(ListEvents(eventLog))})
==============================================================================

----------------------------- MODULE IntentQueue -----------------------------
(***************************************************************************)
(* What the file queue between the cloud server and the database worker    *)
(* promises, whatever the worker does in between: a submitted request is    *)
(* attempted, in any order, until an attempt ends; it leaves the queue only *)
(* after one ended; and it is never attempted again once it has left.       *)
(***************************************************************************)
EXTENDS Naturals

CONSTANT Requests

VARIABLES
    queued,     \* requests waiting or being executed
    attempted,  \* requests of which an attempt has begun
    ended,      \* queued requests of which an attempt has run to its end
    finished    \* requests that have left the queue

queueVars == <<queued, attempted, ended, finished>>

QueueInit == queued = {} /\ attempted = {} /\ ended = {} /\ finished = {}

Submit(r) ==
    /\ r \notin queued \cup finished
    /\ queued' = queued \cup {r}
    /\ UNCHANGED <<attempted, ended, finished>>

Attempt(r) ==
    /\ r \in queued
    /\ attempted' = attempted \cup {r}
    /\ ended' = ended \ {r}
    /\ UNCHANGED <<queued, finished>>

EndAttempt(r) ==
    /\ r \in queued /\ r \in attempted
    /\ ended' = ended \cup {r}
    /\ UNCHANGED <<queued, attempted, finished>>

Leave(r) ==
    /\ r \in ended
    /\ queued' = queued \ {r}
    /\ ended' = ended \ {r}
    /\ finished' = finished \cup {r}
    /\ UNCHANGED attempted

QueueNext == \E r \in Requests : Submit(r) \/ Attempt(r) \/ EndAttempt(r) \/ Leave(r)

\* What never happens to a request.
QueueSafety == QueueInit /\ [][QueueNext]_queueVars

QueueSpec ==
    /\ QueueSafety
    /\ \A r \in Requests : r \in queued ~> r \in finished
==============================================================================

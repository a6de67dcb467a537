--------------------------- MODULE TransferSession ---------------------------
(***************************************************************************)
(* The transfer session of internal/cloud/transfers.go: the in-memory      *)
(* object behind one file transfer lease.  Every operator is the effect of *)
(* one method on the fields the method holds the session's lock for.       *)
(* Offsets and sizes count chunks.                                         *)
(***************************************************************************)
EXTENDS Naturals

Session == [active: BOOLEAN, size: Nat, next: Nat, done: BOOLEAN]

\* transferRegistry.Create: a session nobody has used.
NewSession == [active |-> FALSE, size |-> 0, next |-> 0, done |-> FALSE]

\* authorizeTransfer: a session rebuilt from its row; it is not active,
\* whatever the session it stands for is doing.
RestoredSession(row) ==
    [active |-> FALSE, size |-> row.total, next |-> row.done,
     done |-> row.completed]

\* Mutant: BeginAttempt forgets that an attempt is running.
MayBeginWhileActive(s, op, offset) ==
    /\ op = "upload" => offset <= s.next
    /\ op = "download" /\ s.size > 0 => offset <= s.size

\* BeginAttempt's checks, but for the expiry of the lease.
MayBegin(s, op, offset) ==
    /\ ~s.active
    /\ op = "upload" => offset <= s.next
    /\ op = "download" /\ s.size > 0 => offset <= s.size

BeginAttempt(s) == [s EXCEPT !.active = TRUE]

EndAttempt(s) == [s EXCEPT !.active = FALSE]

\* MarkReady: the agent's size replaces ours; an upload may skip ahead.
MarkReady(s, op, offset, size) ==
    [s EXCEPT !.size = size,
              !.next = IF op = "upload" /\ offset > @ THEN offset ELSE @]

\* Advance never goes back.
Advance(s, next, total) ==
    [s EXCEPT !.next = IF next > @ THEN next ELSE @,
              !.size = IF total > @ THEN total ELSE @]

Complete(s, offset, size) ==
    [s EXCEPT !.size = size,
              !.next = IF offset > @ THEN offset ELSE @,
              !.done = TRUE]

\* persistTransferStatus: the row an update with this status leaves behind.
Persisted(s, status) ==
    [status |-> status, total |-> s.size, done |-> s.next,
     completed |-> s.done]

Row == [status: {"pending", "active", "failed", "completed"},
        total: Nat, done: Nat, completed: BOOLEAN]

\* CreateFileTransfer: the row of a fresh lease.
NewRow == [status |-> "pending", total |-> 0, done |-> 0, completed |-> FALSE]
=============================================================================

------------------------- MODULE DesktopEnrollment --------------------------
(***************************************************************************)
(* The requests that change desktop trust                                  *)
(* (cloud/desktop_trust_handlers.go, cloud/desktop_auto_enrollment.go),    *)
(* the part of opening a session that depends on it, logins that end, and  *)
(* the maintenance loop.  Every store call of a handler is a step of its   *)
(* own, so other requests come between any two of them.                    *)
(*                                                                         *)
(* A request whose form, confirmation text, capabilities or signature is   *)
(* wrong changes nothing and is left out; what a request must match in the *)
(* tables is checked here.  A transaction is serializable: while another   *)
(* request is being handled it may fail with a conflict.                   *)
(***************************************************************************)
EXTENDS DesktopTrust

CONSTANT Scenarios  \* what happens in a behaviour: a start state and events

VARIABLES
    answers,     \* how the finished requests were answered, by request
    left         \* what is still to happen

vars == <<tables, relays, job, requests, answers, left, history>>

Happens(r, kind) == r \in left /\ r.kind = kind /\ left' = left \ {r}

\* A request at a step, with what it has read so far.
Request(r, pc) == Over(r, [pc |-> pc, gen0 |-> 0, row |-> None, cur |-> None, seen |-> {}])

Starts(r, pc) == requests' = With(requests, r.n, Request(r, pc)) /\ UNCHANGED answers
At(n, pc) == n \in DOMAIN requests /\ requests[n].pc = pc
Goes(n, pc) == requests' = [requests EXCEPT ![n].pc = pc] /\ UNCHANGED answers
Answered(n, answer) == requests' = Without(requests, n) /\ answers' = With(answers, n, answer)
AnsweredAtOnce(r, answer) == answers' = With(answers, r.n, answer) /\ UNCHANGED requests

OthersInFlight(n) == DOMAIN requests # {n}
\* mapDesktopStoreError: a serialization failure is a conflict, like a duplicate.
mapDesktopStoreError(n) == OthersInFlight(n) /\ Answered(n, "conflict") /\ UNCHANGED <<tables, relays, history>>

Identity(r, type, dev, key, login) ==
    [type |-> type, dev |-> dev, key |-> key, login |-> login, gen |-> 0, cert |-> << >>, revoked |-> FALSE, old |-> FALSE]

\* signServerDesktopIdentity: a chain of one, signed in this request.
signServerDesktopIdentity(row, id, gen, n) == [row EXCEPT !.gen = gen, !.cert = <<[id |-> id, by |-> n]>>]
\* certificateWithIssuer: the approver's chain below the new signature.
certificateWithIssuer(row, id, gen, n, approver) ==
    [row EXCEPT !.gen = gen, !.cert = <<[id |-> id, by |-> n]>> \o ids[approver].cert]

-----------------------------------------------------------------------------
(* The authority of the server *)

\* Where a request goes on once it has the root and the key.
Installs(n, gen) == requests' = [requests EXCEPT ![n].pc = "install", ![n].gen0 = gen] /\ UNCHANGED answers
HasAuthority(n, gen) == IF requests[n].kind = "get" THEN Answered(n, "ok") ELSE Installs(n, gen)

\* EnsureServerManagedDesktopTrust, the optimistic read.
EnsureReads(n) ==
    /\ At(n, "ensure")
    /\ IF root.mode = "server" THEN HasAuthority(n, root.gen) ELSE Goes(n, "ensure_tx")
    /\ UNCHANGED <<tables, relays, history>>

\* Approvals that will insert an identity of the generation they have read.
Approving == {m \in DOMAIN requests : requests[m].pc \in {"existing", "insert"}}

\* EnsureServerManagedDesktopTrust, the transaction.
EnsureServerManagedDesktopTrust(n) ==
    /\ At(n, "ensure_tx")
    /\ \/ /\ root.mode = "none"
          /\ root' = [mode |-> "server", gen |-> 1, asked |-> 0]
          /\ Installs(n, 1)
          /\ UNCHANGED <<ids, desk, history>>
       \/ /\ root.mode = "server"
          /\ HasAuthority(n, root.gen)
          /\ UNCHANGED <<root, ids, desk, history>>
       \/ /\ root.mode = "client"
          /\ MigrateTrust
          /\ HasAuthority(n, root.gen + 1)
          /\ banned' = banned \union {ids[i].key : i \in {j \in DOMAIN ids : ~ids[j].revoked}}
          /\ approvals' = approvals \union {requests[m].id : m \in Approving}
          /\ orphans' = orphans \union (relays \cap Live)
    /\ UNCHANGED <<pending, challenges, logins, installed, enrolled, relays>>
EnsureAborts(n) == At(n, "ensure_tx") /\ mapDesktopStoreError(n)

-----------------------------------------------------------------------------
(* installServerDesktopIdentity *)

RowOf(n) == requests[n].row
\* What the callers do after the identity is installed.
Installed(n) ==
    CASE requests[n].kind = "browser" -> Answered(n, "ok")
      [] requests[n].kind = "endpoint" -> Goes(n, "delete_pending")
      [] requests[n].kind = "mac" -> Goes(n, "revoke_tokens")

\* sameDesktopIdentityEnrollment: only browsers; the same login, generation and key.
sameDesktopIdentityEnrollment(i, n) ==
    /\ RowOf(n).type = "op" /\ ids[i].login = RowOf(n).login
    /\ ids[i].gen = requests[n].gen0 /\ ids[i].key = RowOf(n).key

InstallReads(n) ==
    /\ At(n, "install")
    /\ LET found == Current(RowOf(n).type, RowOf(n).dev)
       IN  IF found = {} THEN Goes(n, "create")
           ELSE LET i == CHOOSE j \in found : TRUE
                IN  IF sameDesktopIdentityEnrollment(i, n) THEN Answered(n, "ok")
                    ELSE /\ requests' = [requests EXCEPT ![n].cur = i,
                                                 ![n].pc = IF ids[i].key = RowOf(n).key THEN "refresh" ELSE "replace"]
                         /\ UNCHANGED answers
    /\ UNCHANGED <<tables, relays, history>>

InstallCreates(n) ==
    /\ At(n, "create")
    /\ LET r == requests[n]
           row == signServerDesktopIdentity(r.row, r.id, r.gen0, n)
           result == CreateDesktopIdentity(r.id, row)
       IN  CASE result = "ok" -> ids' = With(ids, r.id, row) /\ Installed(n)
             [] result = "conflict" -> Goes(n, "look_again") /\ UNCHANGED ids
             [] result = "error" -> Answered(n, "error") /\ UNCHANGED ids
    /\ UNCHANGED <<root, pending, challenges, logins, desk, installed, enrolled, relays, history>>

\* getActiveDesktopIdentity after a conflict: a concurrent request with the same key did it.
getActiveDesktopIdentity(n) ==
    /\ At(n, "look_again")
    /\ IF \E i \in ActiveOf(RowOf(n).type, RowOf(n).dev) : ids[i].key = RowOf(n).key
         THEN Installed(n) ELSE Answered(n, "conflict")
    /\ UNCHANGED <<tables, relays, history>>

RefreshDesktopIdentity(n) ==
    /\ At(n, "refresh")
    /\ LET r == requests[n]
           row == signServerDesktopIdentity(r.row, r.cur, r.gen0, n)
       IN  CASE ~CanRevoke(r.cur) -> Answered(n, "notfound") /\ UNCHANGED <<ids, desk>>
             [] CanRevoke(r.cur) /\ (LoginGone(row) \/ ~StaysUnique(r.cur, row)) ->
                    Answered(n, IF StaysUnique(r.cur, row) THEN "error" ELSE "conflict") /\ UNCHANGED <<ids, desk>>
             [] OTHER -> /\ RefreshIdentity(r.cur, row)
                         /\ requests' = [requests EXCEPT ![n].pc = "relays", ![n].seen = LiveIn(r.cur)]
                         /\ UNCHANGED answers
    /\ UNCHANGED <<root, pending, challenges, logins, installed, enrolled, relays, history>>
RefreshAborts(n) == At(n, "refresh") /\ mapDesktopStoreError(n)

InstallReplaces(n) ==
    /\ At(n, "replace")
    /\ Answered(n, ReplaceDesktopIdentity(requests[n].cur))
    /\ UNCHANGED <<tables, relays, history>>

\* What the callers do after the relay was told.
RelaysRevoked(n) ==
    CASE requests[n].kind \in {"revoke", "terminate"} -> Answered(n, "ok")
      [] requests[n].kind = "open" -> Answered(n, "unavailable")
      [] OTHER -> Installed(n)

\* (Mutant: the sockets of the revoked sessions are left open.)
RelaysForgotten(n) ==
    /\ At(n, "relays")
    /\ RelaysRevoked(n)
    /\ UNCHANGED <<tables, relays, history>>

\* revokeDesktopRelays, Revoke: after the commit, the sockets of the sessions are closed.
revokeDesktopRelays(n) ==
    /\ At(n, "relays")
    /\ relays' = relays \ requests[n].seen
    /\ RelaysRevoked(n)
    /\ UNCHANGED <<tables, history>>

-----------------------------------------------------------------------------
(* Approvals signed by an operator, and approvals of a pending endpoint *)

\* handleDesktopTrustGet migrates a root that clients manage.
handleDesktopTrustGet ==
    \E r \in left :
        /\ Happens(r, "get")
        /\ CASE root.mode = "client" -> Starts(r, "ensure")
             [] root.mode = "server" -> AnsweredAtOnce(r, "ok")
             [] root.mode = "none" -> AnsweredAtOnce(r, "unconfigured")
        /\ UNCHANGED <<tables, relays, job, history>>

\* handleDesktopOperatorApproval and handleDesktopEndpointAction read the root.
ApprovalReads ==
    \E r \in left :
        /\ Happens(r, "operator") \/ Happens(r, "endpoint")
        /\ CASE root.mode = "none" -> AnsweredAtOnce(r, "notfound")
             [] root.mode = "server" /\ r.kind = "endpoint" -> Starts(r, "pending")
             [] OTHER -> IF r.gen # root.gen THEN AnsweredAtOnce(r, "invalid") ELSE Starts(r, "verify")
        /\ UNCHANGED <<tables, relays, job, history>>

verifyDesktopApprover(n) ==
    /\ At(n, "verify")
    /\ LET r == requests[n]
           type == IF r.kind = "operator" THEN "op" ELSE "ep"
           found == Approvers(r.gen, r.signer)
       IN  IF found = {} THEN Answered(n, "invalid")
           ELSE /\ \E a \in found :
                      requests' = [requests EXCEPT ![n].pc = "existing",
                                  ![n].row = certificateWithIssuer(Identity(r, type, r.dev, r.key, Unset), r.id, r.gen, n, a)]
                /\ UNCHANGED answers
    /\ UNCHANGED <<tables, relays, history>>

ApprovalLooks(n) ==
    /\ At(n, "existing")
    /\ LET found == ActiveOf(RowOf(n).type, RowOf(n).dev)
           i == CHOOSE j \in found : TRUE
       IN  CASE found = {} -> Goes(n, "insert")
             [] found # {} /\ (ids[i].key = RowOf(n).key \/ ~requests[n].replace) -> Answered(n, "conflict")
             [] OTHER -> requests' = [requests EXCEPT ![n].pc = "replace", ![n].cur = i] /\ UNCHANGED answers
    /\ UNCHANGED <<tables, relays, history>>

ApprovalInserts(n) ==
    /\ At(n, "insert")
    /\ LET r == requests[n]
           result == CreateDesktopIdentity(r.id, r.row)
       IN  IF result # "ok" THEN Answered(n, result) /\ UNCHANGED ids
           ELSE /\ ids' = With(ids, r.id, r.row)
                /\ IF r.kind = "operator" THEN Answered(n, "ok") ELSE Goes(n, "delete_pending")
    /\ UNCHANGED <<root, pending, challenges, logins, desk, installed, enrolled, relays, history>>

\* The server's own approval of an endpoint reads what the agent asked for...
PendingReads(n) ==
    /\ At(n, "pending")
    /\ LET r == requests[n]
           asked == pending[r.dev]
       IN  IF asked = None THEN Answered(n, "notfound")
           ELSE /\ requests' = [requests EXCEPT ![n] = [r EXCEPT !.pc = "pending_existing", !.id = asked.id,
                                                  !.row = Identity(r, "ep", r.dev, asked.key, Unset)]]
                /\ UNCHANGED answers
    /\ UNCHANGED <<tables, relays, history>>

\* ... and refuses a changed key unless the replacement is confirmed.
PendingLooks(n) ==
    /\ At(n, "pending_existing")
    /\ IF ~requests[n].replace /\ \E i \in ActiveOf("ep", RowOf(n).dev) : ids[i].key # RowOf(n).key
         THEN Answered(n, "conflict") ELSE Goes(n, "ensure")
    /\ UNCHANGED <<tables, relays, history>>

DeleteDesktopPendingEnrollment(n) ==
    /\ At(n, "delete_pending")
    /\ pending' = [pending EXCEPT ![requests[n].dev] = None]
    /\ Answered(n, "ok")
    /\ UNCHANGED <<root, ids, challenges, logins, desk, installed, enrolled, relays, history>>

\* handleDesktopPendingEnrollmentPut: an identity with this key is there already, or the row is (over)written.
handleDesktopPendingEnrollmentPut ==
    \E r \in left :
        /\ Happens(r, "put")
        /\ LET approved == \E i \in ActiveOf("ep", r.dev) : ids[i].key = r.key
           IN  /\ pending' = [pending EXCEPT ![r.dev] = IF approved THEN None ELSE [id |-> r.id, key |-> r.key]]
               /\ AnsweredAtOnce(r, IF approved THEN "approved" ELSE "ok")
        /\ UNCHANGED <<root, ids, challenges, logins, desk, installed, enrolled, relays, job, history>>

\* handleDesktopPendingEnrollmentGet drops a request that has been approved meanwhile.
handleDesktopPendingEnrollmentGet ==
    \E r \in left :
        /\ Happens(r, "see")
        /\ LET approved == \E i \in ActiveOf("ep", r.dev) : pending[r.dev] # None /\ ids[i].key = pending[r.dev].key
           IN  /\ pending' = IF approved THEN [pending EXCEPT ![r.dev] = None] ELSE pending
               /\ AnsweredAtOnce(r, IF approved THEN "approved" ELSE "ok")
        /\ UNCHANGED <<root, ids, challenges, logins, desk, installed, enrolled, relays, job, history>>

\* handleAgentDesktopEnrollment: an agent polls for its certificate; it sees one of the current root only.
handleAgentDesktopEnrollment ==
    \E r \in left :
        /\ Happens(r, "poll")
        /\ AnsweredAtOnce(r,
               CASE \A t \in enrolled : t.agent # r.dev -> "unauthorized"
                 [] (\E t \in enrolled : t.agent = r.dev) /\ root.mode = "client" -> "conflict"
                 [] OTHER -> IF \E i \in ActiveOf("ep", r.dev) : ids[i].gen = root.gen THEN "approved" ELSE "ok")
        /\ UNCHANGED <<tables, relays, job, history>>

-----------------------------------------------------------------------------
(* Revocation, recovery, rotation, reset *)

revokeDesktopIdentity ==
    \E r \in left :
        /\ Happens(r, "revoke")
        /\ LET found == Current(r.type, r.dev)
               i == CHOOSE j \in found : TRUE
           IN  IF found = {} THEN AnsweredAtOnce(r, "notfound")
               ELSE /\ requests' = With(requests, r.n, [Request(r, "revoke_live") EXCEPT !.cur = i])
                    /\ UNCHANGED answers
        /\ UNCHANGED <<tables, relays, job, history>>

ListLiveDesktopSessionIDs(n) ==
    /\ At(n, "revoke_live")
    /\ requests' = [requests EXCEPT ![n].pc = "revoke_tx",
                            ![n].seen = IF requests[n].cur \in DOMAIN ids THEN LiveIn(requests[n].cur) ELSE {}]
    /\ UNCHANGED <<tables, relays, answers, history>>

\* RevokeDesktopIdentity; the sessions it terminated replace the ones listed before, if there are any.
RevokeDesktopIdentity(n) ==
    /\ At(n, "revoke_tx")
    /\ LET i == requests[n].cur
       IN  IF ~CanRevoke(i) THEN Answered(n, "conflict") /\ UNCHANGED <<ids, desk, banned>>
           ELSE /\ RevokeIdentity(i)
                /\ banned' = banned \union {ids[i].key}
                /\ requests' = [requests EXCEPT ![n].pc = "relays",
                                        ![n].seen = IF LiveIn(i) # {} THEN LiveIn(i) ELSE @]
                /\ UNCHANGED answers
    /\ UNCHANGED <<root, pending, challenges, logins, installed, enrolled, relays, approvals, orphans>>
RevokeAborts(n) == At(n, "revoke_tx") /\ mapDesktopStoreError(n)

\* handleDesktopRecovery reads the root: the generation must match, and only who holds a
\* client-managed root's key can prove it.
handleDesktopRecovery ==
    \E r \in left :
        /\ Happens(r, "ask") \/ Happens(r, "recover")
        /\ CASE root.mode = "none" \/ r.gen # root.gen -> AnsweredAtOnce(r, "conflict")
             [] r.kind = "recover" /\ root.mode = "server" -> AnsweredAtOnce(r, "invalid")
             [] OTHER -> Starts(r, r.kind)
        /\ UNCHANGED <<tables, relays, job, history>>

IssueDesktopRecoveryChallenge(n) ==
    /\ At(n, "ask")
    /\ root' = [root EXCEPT !.asked = n]
    /\ Answered(n, "ok")
    /\ UNCHANGED <<ids, pending, challenges, logins, desk, installed, enrolled, relays, history>>

ConsumeDesktopRecoveryChallenge(n) ==
    /\ At(n, "recover")
    /\ Answered(n, ConsumeRecoveryChallenge(requests[n].gen, requests[n].asked))
    /\ UNCHANGED <<tables, relays, history>>

\* handleDesktopRotation: the next generation, proved with the key of the old root...
handleDesktopRotation ==
    \E r \in left :
        /\ Happens(r, "rotate")
        /\ IF root.mode # "client" \/ r.gen # root.gen + 1 THEN AnsweredAtOnce(r, "invalid") ELSE Starts(r, "replace_trust")
        /\ UNCHANGED <<tables, relays, job, history>>
\* ... and handleDesktopReset, which needs no proof.
handleDesktopReset ==
    \E r \in left :
        /\ Happens(r, "reset")
        /\ IF root.mode = "none" \/ r.gen # root.gen + 1 THEN AnsweredAtOnce(r, "invalid") ELSE Starts(r, "replace_trust")
        /\ UNCHANGED <<tables, relays, job, history>>
ReplacesTrust(n) ==
    /\ At(n, "replace_trust")
    /\ LET result == replaceDesktopTrust(requests[n].gen)
       IN  Answered(n, IF result = "error" /\ requests[n].kind = "reset" THEN "reset failed" ELSE result)
    /\ UNCHANGED <<tables, relays, history>>

BootstrapsTrust ==
    \E r \in left :
        /\ Happens(r, "bootstrap")
        /\ AnsweredAtOnce(r, BootstrapDesktopTrust)
        /\ UNCHANGED <<tables, relays, job, history>>

-----------------------------------------------------------------------------
(* Enrollment of a signed-in browser or Mac *)

SignedIn(r) == logins[r.login] = "live"
\* A request of a login that has ended is refused before the handler runs.
RequestRefused ==
    \E r \in left :
        /\ r.kind \in {"challenge", "browser", "mac", "open"} /\ ~SignedIn(r)
        /\ left' = left \ {r}
        /\ AnsweredAtOnce(r, "unauthorized")
        /\ UNCHANGED <<tables, relays, job, history>>
\* handleMacAutoEnrollment refuses who the enrollment policy of the home does not admit.
MacForbidden ==
    \E r \in left :
        /\ Happens(r, "mac") /\ SignedIn(r) /\ ~r.allowed
        /\ AnsweredAtOnce(r, "forbidden")
        /\ UNCHANGED <<tables, relays, job, history>>

\* handleDesktopAutoChallenge; the agent enrollment policy applies to the Mac's.
handleDesktopAutoChallenge ==
    \E r \in left :
        /\ Happens(r, "challenge") /\ SignedIn(r)
        /\ IF r.purpose = "mac" /\ ~r.allowed THEN AnsweredAtOnce(r, "forbidden") /\ UNCHANGED challenges
           ELSE /\ challenges' = With(challenges, r.n, [login |-> r.login, purpose |-> r.purpose, used |-> FALSE, old |-> FALSE])
                /\ AnsweredAtOnce(r, "ok")
        /\ UNCHANGED <<root, ids, pending, logins, desk, installed, enrolled, relays, job, history>>

\* validateDesktopAutoEnrollment consumes the challenge; the certificate is not requested yet.
validateDesktopAutoEnrollment ==
    \E r \in left :
        /\ (Happens(r, "browser") \/ (Happens(r, "mac") /\ r.allowed)) /\ SignedIn(r)
        /\ IF Consumable(r.c, r.login, r.kind)
             THEN /\ challenges' = [challenges EXCEPT ![r.c].used = TRUE]
                  /\ requests' = With(requests, r.n, [Request(r, IF r.kind = "mac" THEN "agent" ELSE "ensure")
                                        EXCEPT !.row = Identity(r, "op", r.dev, r.key, r.login)])
                  /\ UNCHANGED answers
             ELSE AnsweredAtOnce(r, "rejected") /\ UNCHANGED challenges
        /\ UNCHANGED <<root, ids, pending, logins, desk, installed, enrolled, relays, job, history>>

\* handleMacAutoEnrollment: the agent of this installation, or the one the app names.
MacReadsAgent(n) ==
    /\ At(n, "agent")
    /\ LET r == requests[n]
           known == {a \in Agents : installed[a] = r.inst}
           a == IF known = {} THEN r.dev ELSE CHOOSE b \in known : TRUE
       IN  requests' = [requests EXCEPT ![n].pc = "upsert", ![n].dev = a, ![n].row = Identity(r, "ep", a, r.key, Unset)]
    /\ UNCHANGED <<tables, relays, answers, history>>

\* UpsertAgent: one installation per home (a unique index).
UpsertAgent(n) ==
    /\ At(n, "upsert")
    /\ LET r == requests[n]
       IN  IF \E a \in Agents \ {r.dev} : installed[a] = r.inst THEN Answered(n, "error") /\ UNCHANGED installed
           ELSE installed' = [installed EXCEPT ![r.dev] = r.inst] /\ Goes(n, "ensure")
    /\ UNCHANGED <<root, ids, pending, challenges, logins, desk, enrolled, relays, history>>

RevokeAgentTokensForAgent(n) ==
    /\ At(n, "revoke_tokens")
    /\ enrolled' = {t \in enrolled : t.agent # requests[n].dev}
    /\ Goes(n, "create_token")
    /\ UNCHANGED <<root, ids, pending, challenges, logins, desk, installed, relays, history>>

CreateAgentToken(n) ==
    /\ At(n, "create_token")
    /\ enrolled' = enrolled \union {[agent |-> requests[n].dev, n |-> n]}
    /\ Answered(n, "ok")
    /\ UNCHANGED <<root, ids, pending, challenges, logins, desk, installed, relays, history>>

-----------------------------------------------------------------------------
(* Sessions *)

\* desktopService.Create reads the operator (bound to its login) and the endpoint...
CreateReads ==
    \E r \in left :
        /\ Happens(r, "open") /\ SignedIn(r)
        /\ LET ops == {i \in ActiveOf("op", r.dev) : ids[i].login \in {Unset, r.login}}
               i == CHOOSE j \in ops : TRUE
           IN  IF ops = {} \/ ActiveOf("ep", r.agent) = {} THEN AnsweredAtOnce(r, "untrusted")
               ELSE /\ requests' = With(requests, r.n, [Request(r, "session") EXCEPT !.cur = i, !.row = ids[i]])
                    /\ UNCHANGED answers
        /\ UNCHANGED <<tables, relays, job, history>>

\* ... and inserts the session: one live session per agent, and its operator identity must exist.
CreateDesktopSession(n) ==
    /\ At(n, "session")
    /\ LET r == requests[n]
       IN  CASE \E s \in Live : desk[s].agent = r.agent -> Answered(n, "conflict") /\ UNCHANGED desk
             [] r.cur \notin DOMAIN ids /\ (\A s \in Live : desk[s].agent # r.agent) -> Answered(n, "error") /\ UNCHANGED desk
             [] OTHER -> /\ desk' = With(desk, n, [op |-> r.cur, agent |-> r.agent, live |-> TRUE, sent |-> FALSE])
                         /\ Goes(n, "offer")
    /\ UNCHANGED <<root, ids, pending, challenges, logins, installed, enrolled, relays, history>>

\* (Mutant: the offer relies on what was read when the session was created.)
TrustedWhenCreated(r) == TRUE
\* sendDesktopOffer checks the operator it was given, and the endpoint, against the tables as they are now.
StillTrusted(r) ==
    /\ root.gen = r.row.gen /\ ~r.row.old
    /\ desktopCertificateChainIsActive(r.row.cert, root.gen)
    /\ \E e \in ActiveOf("ep", r.agent) : ids[e].gen = root.gen /\ desktopCertificateChainIsActive(ids[e].cert, root.gen)

\* A session that cannot be offered fails, and the relay is told in a step of its own (failDesktopOffer).
sendDesktopOffer(n) ==
    /\ At(n, "offer")
    /\ LET r == requests[n]
       IN  CASE ~desk[n].live -> Answered(n, "unavailable") /\ UNCHANGED desk
             [] desk[n].live /\ StillTrusted(r) ->
                    desk' = [desk EXCEPT ![n].sent = TRUE] /\ Answered(n, "ok")
             [] OTHER -> /\ desk' = Terminated({n})
                         /\ requests' = [requests EXCEPT ![n].pc = "relays", ![n].seen = {n}]
                         /\ UNCHANGED answers
    /\ UNCHANGED <<root, ids, pending, challenges, logins, installed, enrolled, relays, history>>

\* handleDesktopDataWebSocket: either side consumes a credential, which dies with the session...
ConsumesCredential ==
    \E r \in left :
        /\ Happens(r, "join")
        /\ IF r.s \in Live /\ desk[r.s].sent THEN Starts(r, "accept") ELSE AnsweredAtOnce(r, "unauthorized")
        /\ UNCHANGED <<tables, relays, job, history>>
\* ... and registers its socket when the handshake is done, without another look at the session; the
\* relay makes a new object for one that was revoked in between.
JoinsRelay(n) ==
    /\ At(n, "accept")
    /\ LET s == requests[n].s
       IN  \/ /\ relays' = relays \union {s}
              /\ orphans' = orphans \union ({s} \ Live)
              /\ Answered(n, "ok")
           \/ Answered(n, "failed") /\ UNCHANGED <<relays, orphans>>
    /\ UNCHANGED <<tables, banned, approvals>>

\* desktopService.Terminate reads the session; the relay is told of one that is over already, too.
TerminateReads ==
    \E r \in left :
        /\ Happens(r, "terminate")
        /\ r.s \in DOMAIN desk
        /\ requests' = With(requests, r.n, [Request(r, IF r.s \in Live THEN "terminate" ELSE "relays") EXCEPT !.seen = {r.s}])
        /\ UNCHANGED <<tables, relays, job, answers, history>>
TerminateDesktopSession(n) ==
    /\ At(n, "terminate")
    /\ IF requests[n].seen \cap Live = {} THEN Answered(n, "conflict") /\ UNCHANGED desk
       ELSE desk' = Terminated(requests[n].seen) /\ Goes(n, "relays")
    /\ UNCHANGED <<root, ids, pending, challenges, logins, installed, enrolled, relays, history>>

-----------------------------------------------------------------------------
(* Time and maintenance *)

\* A login expires or is revoked, and its retention passes.
LoginEnds ==
    \E r \in left :
        /\ Happens(r, "ends")
        /\ logins' = [logins EXCEPT ![r.login] = "ended"]
        /\ UNCHANGED <<root, ids, pending, challenges, desk, installed, enrolled, relays, job, requests, answers, history>>

\* The certificate of an identity expires.
IdentityExpires ==
    \E r \in left :
        /\ Happens(r, "expires") /\ r.id \in DOMAIN ids
        /\ ids' = [ids EXCEPT ![r.id].old = TRUE]
        /\ UNCHANGED <<root, pending, challenges, logins, desk, installed, enrolled, relays, job, requests, answers, history>>

\* Jobs.Run: RunOnce, and the loop ends for good when it returns an error.
RunOnce ==
    /\ job = "runs" /\ Ended # {}
    /\ IF Prunable
         THEN /\ logins' = [l \in Logins |-> IF l \in Ended THEN "gone" ELSE logins[l]]
              /\ ids' = [i \in DOMAIN ids \ Bound |-> ids[i]]
              /\ challenges' = [c \in {d \in DOMAIN challenges : challenges[d].login \notin Ended} |-> challenges[c]]
              /\ banned' = banned \ {ids[i].key : i \in Bound}
              /\ UNCHANGED job
         ELSE job' = "stopped" /\ UNCHANGED <<logins, ids, challenges, banned>>
    /\ UNCHANGED <<root, pending, desk, installed, enrolled, relays, requests, answers, left, approvals, orphans>>

-----------------------------------------------------------------------------
Init ==
    \E sc \in Scenarios :
        /\ root = sc.root /\ ids = sc.ids /\ desk = sc.desk /\ relays = sc.relays /\ left = sc.left
        /\ pending = [a \in Agents |-> None] /\ challenges = << >>
        /\ logins = [l \in Logins |-> "live"]
        /\ installed = [a \in Agents |-> Unset] /\ enrolled = {} /\ job = "runs"
        /\ requests = << >> /\ answers = << >> /\ banned = {} /\ approvals = {} /\ orphans = {}

\* What a start state satisfies, ops being the names that operators' identities have (newID gives the
\* two kinds different prefixes): the indexes and foreign keys hold, an identity in force is of the
\* current generation, a certificate starts with its own link, offered sessions are in order, and every
\* request has a name of its own.
Fields == {"type", "dev", "key", "login", "gen", "cert", "revoked", "old"}
Named(r) == r.kind \notin {"ends", "expires"}
Startable(sc, ops) ==
    /\ DOMAIN sc.root = {"mode", "gen", "asked"} /\ sc.root.mode \in {"none", "client", "server"}
    /\ sc.root.mode = "none" => DOMAIN sc.ids = {}
    /\ \A i \in DOMAIN sc.ids :
        LET row == sc.ids[i]
        IN  /\ DOMAIN row = Fields /\ row.type \in {"op", "ep"} /\ (row.type = "op" <=> i \in ops)
            /\ row.type = "ep" => row.login = Unset
            /\ row.revoked \/ row.gen = sc.root.gen
            /\ Len(row.cert) > 0 /\ row.cert \in Seq({row.cert[k] : k \in 1 .. Len(row.cert)}) /\ row.cert[1].id = i
    /\ \A i, j \in DOMAIN sc.ids : sc.ids[i].key = sc.ids[j].key => i = j
    /\ \A s \in DOMAIN sc.desk :
        LET row == sc.desk[s]
        IN  /\ DOMAIN row = {"op", "agent", "live", "sent"}
            /\ row.op \in DOMAIN sc.ids /\ row.op \in ops
            /\ row.live /\ row.sent =>
                 /\ ~sc.ids[row.op].revoked
                 /\ \E e \in DOMAIN sc.ids : sc.ids[e].type = "ep" /\ sc.ids[e].dev = row.agent /\ ~sc.ids[e].revoked
    /\ sc.relays \subseteq {s \in DOMAIN sc.desk : sc.desk[s].live}
    /\ \A r \in sc.left :
        /\ "kind" \in DOMAIN r /\ DOMAIN r \cap {"pc", "gen0", "row", "cur", "seen"} = {}
        /\ r.kind \in {"operator", "browser"} => "id" \in DOMAIN r /\ r.id \in ops
        /\ r.kind \in {"endpoint", "mac", "put"} => "id" \in DOMAIN r /\ r.id \notin ops
        /\ r.kind \in {"endpoint", "put", "see"} => "dev" \in DOMAIN r /\ r.dev \in Agents
        /\ r.kind = "open" => "agent" \in DOMAIN r
    /\ \A r, q \in sc.left : Named(r) /\ Named(q) /\ r.n = q.n => r = q

Step(n) ==
    \/ EnsureReads(n) \/ EnsureServerManagedDesktopTrust(n) \/ EnsureAborts(n)
    \/ InstallReads(n) \/ InstallCreates(n) \/ getActiveDesktopIdentity(n)
    \/ RefreshDesktopIdentity(n) \/ RefreshAborts(n) \/ InstallReplaces(n) \/ revokeDesktopRelays(n)
    \/ verifyDesktopApprover(n) \/ ApprovalLooks(n) \/ ApprovalInserts(n)
    \/ PendingReads(n) \/ PendingLooks(n) \/ DeleteDesktopPendingEnrollment(n)
    \/ ListLiveDesktopSessionIDs(n) \/ RevokeDesktopIdentity(n) \/ RevokeAborts(n)
    \/ IssueDesktopRecoveryChallenge(n) \/ ConsumeDesktopRecoveryChallenge(n) \/ ReplacesTrust(n)
    \/ MacReadsAgent(n) \/ UpsertAgent(n) \/ RevokeAgentTokensForAgent(n) \/ CreateAgentToken(n)
    \/ CreateDesktopSession(n) \/ sendDesktopOffer(n) \/ JoinsRelay(n) \/ TerminateDesktopSession(n)

Arrives ==
    \/ handleDesktopTrustGet \/ ApprovalReads \/ handleDesktopPendingEnrollmentPut \/ handleDesktopPendingEnrollmentGet \/ handleAgentDesktopEnrollment
    \/ revokeDesktopIdentity \/ handleDesktopRecovery \/ handleDesktopRotation \/ handleDesktopReset \/ BootstrapsTrust
    \/ RequestRefused \/ MacForbidden \/ handleDesktopAutoChallenge \/ validateDesktopAutoEnrollment \/ CreateReads
    \/ ConsumesCredential \/ TerminateReads

Next ==
    \/ \E n \in DOMAIN requests : Step(n) /\ UNCHANGED <<job, left>>
    \/ Arrives
    \/ LoginEnds \/ IdentityExpires \/ RunOnce

Spec == Init /\ [][Next]_vars
=============================================================================

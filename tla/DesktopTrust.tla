---------------------------- MODULE DesktopTrust ----------------------------
(***************************************************************************)
(* The trust tables of remote desktop for one home: the trust root, the    *)
(* identities of operator devices (browsers) and endpoints (agents), the   *)
(* pending enrollments, the enrollment challenges and the rows of desktop  *)
(* sessions that refer to them (store/desktop_trust.go,                    *)
(* store/desktop_auto_enrollment.go, the unique indexes and foreign keys   *)
(* of migrations 21 and 23).  A store transaction is one operator here and *)
(* one step of a handler in DesktopEnrollment.                             *)
(*                                                                         *)
(* A key stands for its fingerprint.  A certificate is the chain of the    *)
(* signings it contains, each named by the identity and by the request     *)
(* that signed it: two certificates are the same bytes iff their chains    *)
(* are equal.  Time is a flag: an identity, a login or a challenge ages.   *)
(***************************************************************************)
EXTENDS Integers, Sequences, FiniteSets, Tables

CONSTANTS
    Logins,      \* app_sessions
    Agents       \* agents that may be endpoints

VARIABLES
    root,        \* desktop_trust_roots: mode, gen, asked (recovery challenge)
    ids,         \* desktop_identities, by id
    pending,     \* desktop_pending_enrollments, by agent
    challenges,  \* desktop_enrollment_challenges, by the request that made one
    logins,      \* "live", "ended" (expired, or revoked past the retention) or "gone"
    desk,        \* desktop_sessions, by the request that opened one
    relays,      \* sessions with sockets in the relay's registry (memory)
    installed,   \* agents.installation_id, by agent ("" when it has none)
    enrolled,    \* agent tokens that are valid
    job,         \* the maintenance loop: "runs" or "stopped"
    requests,    \* requests being handled
    banned,      \* keys that were revoked and not enrolled again by their own refresh
    approvals,   \* approvals that were between their last check and their insert when the root changed
    orphans      \* sessions the migration terminated without telling the relay, or joined after their end

tables == <<root, ids, pending, challenges, logins, desk, installed, enrolled>>
history == <<banned, approvals, orphans>>

\* A column that holds nothing.
Unset == ""

-----------------------------------------------------------------------------
(* Reading *)

Active(i) == ~ids[i].revoked /\ ~ids[i].old

\* GetCurrentDesktopOperatorIdentity, GetCurrentDesktopEndpointIdentity: not revoked, expired or not.
Current(type, dev) == {i \in DOMAIN ids : ids[i].type = type /\ ids[i].dev = dev /\ ~ids[i].revoked}

\* GetActiveDesktopOperatorIdentity, GetActiveDesktopEndpointIdentity
ActiveOf(type, dev) == {i \in Current(type, dev) : Active(i)}

\* desktopCertificateChainIsActive: every link is the certificate an active identity of the generation has now.
desktopCertificateChainIsActive(cert, gen) ==
    /\ Len(cert) \in 1 .. 9
    /\ \A j \in 1 .. Len(cert) :
        LET i == cert[j].id
        IN  i \in DOMAIN ids /\ Active(i) /\ ids[i].gen = gen /\ ids[i].cert = SubSeq(cert, j, Len(cert))

\* verifyDesktopApprover: an active operator of the generation whose key made the signature.
Approvers(gen, key) ==
    {i \in DOMAIN ids : /\ ids[i].type = "op" /\ ids[i].gen = gen /\ Active(i) /\ ids[i].key = key
                        /\ desktopCertificateChainIsActive(ids[i].cert, gen)}

Live == {s \in DOMAIN desk : desk[s].live}

\* desktopIdentitySessionScope: the sessions of an operator's identity, or of an endpoint's agent.
Scope(i) == {s \in DOMAIN desk : IF ids[i].type = "op" THEN desk[s].op = i ELSE desk[s].agent = ids[i].dev}

\* ListLiveDesktopSessionIDs
LiveIn(i) == Live \cap Scope(i)

-----------------------------------------------------------------------------
(* Writing *)

Terminated(sessions) == [s \in DOMAIN desk |-> IF s \in sessions THEN [desk[s] EXCEPT !.live = FALSE] ELSE desk[s]]

\* UNIQUE (home_id, fingerprint), over revoked rows too; the partial unique indexes; the primary key.
Unique(id, row) ==
    /\ id \notin DOMAIN ids
    /\ \A i \in DOMAIN ids : ids[i].key # row.key
    /\ Current(row.type, row.dev) = {}

\* The same for a row that is written again.
StaysUnique(i, row) ==
    \A j \in DOMAIN ids \ {i} : ids[j].key # row.key /\ j \notin Current(row.type, row.dev)

\* A login that is gone breaks the foreign key.
LoginGone(row) == row.login # Unset /\ logins[row.login] = "gone"

\* CreateDesktopIdentity
CreateDesktopIdentity(id, row) ==
    IF LoginGone(row) THEN "error" ELSE IF Unique(id, row) THEN "ok" ELSE "conflict"

\* insertDesktopIdentity, the insert inside a transaction: the statement has 15 placeholders and
\* desktopIdentityArgs gives 16 values, so the driver refuses it and the caller rolls back.
Placeholders == 15
Arguments == 16
insertDesktopIdentity == IF Arguments = Placeholders THEN "ok" ELSE "error"

\* (Mutant: the row is not looked at again under its lock.)
RevokeAnyway(i) == i \in DOMAIN ids
\* revokeDesktopIdentityTx changes something only if the row is not revoked yet.
CanRevoke(i) == i \in DOMAIN ids /\ ~ids[i].revoked

\* revokeDesktopIdentityTx: the identity, its live sessions and (with them) their credentials.
RevokeIdentity(i) ==
    /\ ids' = [ids EXCEPT ![i].revoked = TRUE]
    /\ desk' = Terminated(LiveIn(i))

\* RefreshDesktopIdentity: revoked and written again in one transaction, under the same id.
RefreshIdentity(i, row) ==
    /\ ids' = [ids EXCEPT ![i] = row]
    /\ desk' = Terminated(LiveIn(i))

\* (Mutant: the migration leaves the identities of the old root alone.)
MigrateKeepsIdentities ==
    /\ root' = [mode |-> "server", gen |-> root.gen + 1, asked |-> 0]
    /\ desk' = Terminated(Live) /\ UNCHANGED ids

\* EnsureServerManagedDesktopTrust for a client-managed root: a new generation, every identity of the
\* home revoked, every live session terminated.
MigrateTrust ==
    /\ root' = [mode |-> "server", gen |-> root.gen + 1, asked |-> 0]
    /\ ids' = [i \in DOMAIN ids |-> [ids[i] EXCEPT !.revoked = TRUE]]
    /\ desk' = Terminated(Live)

\* BootstrapDesktopTrust, and replaceDesktopTrust for a rotation or a reset, with the generation the
\* caller asks for.  Both end with insertDesktopIdentity.
BootstrapDesktopTrust == IF root.mode # "none" THEN "conflict" ELSE insertDesktopIdentity
replaceDesktopTrust(gen) ==
    IF root.mode = "none" THEN "notfound" ELSE IF gen # root.gen + 1 THEN "conflict" ELSE insertDesktopIdentity

\* ConsumeDesktopRecoveryChallengeAndCreateOperator: the consumption is rolled back with the insert.
ConsumeRecoveryChallenge(gen, asked) ==
    IF root.gen # gen \/ root.asked # asked \/ asked = 0 THEN "conflict" ELSE insertDesktopIdentity

\* ReplaceDesktopIdentity: the revocation is rolled back with the insert.
ReplaceDesktopIdentity(i) == IF CanRevoke(i) THEN insertDesktopIdentity ELSE "notfound"

\* ConsumeDesktopEnrollmentChallenge, one conditional update.
Consumable(c, login, purpose) ==
    /\ c \in DOMAIN challenges /\ challenges[c].login = login /\ challenges[c].purpose = purpose
    /\ ~challenges[c].old /\ ~challenges[c].used

\* PruneLifecycleWithSummary deletes the ended logins first; their identities and challenges go with
\* them (ON DELETE CASCADE), unless a session row still refers to such an identity: then the
\* statement, and with it the transaction of all the others, fails.
Ended == {l \in Logins : logins[l] = "ended"}
Bound == {i \in DOMAIN ids : ids[i].login \in Ended}
Prunable == \A s \in DOMAIN desk : desk[s].op \notin Bound

-----------------------------------------------------------------------------
(* Properties *)

\* An identity that is not revoked belongs to the current generation of the trust root: the migration
\* to the server's authority leaves no identity of the old root behind, whatever is in flight, except
\* what an approval inserts that had made its last check before (ApprovalInserts).
OldTrustIsRevoked == \A i \in DOMAIN ids : ids[i].revoked \/ ids[i].gen = root.gen \/ i \in approvals

\* A key that was revoked is never in force again while its row exists: an enrollment that read the
\* identity before the revocation does not bring it back with its refresh, and no insert can reuse
\* the key (RefreshDesktopIdentity, UNIQUE (home_id, fingerprint)).
RevokedKeysStayOut == \A i \in DOMAIN ids : ids[i].revoked \/ ids[i].key \notin banned

\* A session that was offered to its agent and is live has an operator and an endpoint that nobody
\* revoked since, of one generation: revocation, refresh and migration end the sessions they find,
\* and the offer of a session created meanwhile is refused (sendDesktopOffer).
OfferedSessionsAreTrusted ==
    \A s \in Live : desk[s].sent =>
        /\ ~ids[desk[s].op].revoked
        /\ \E e \in Current("ep", desk[s].agent) : ids[e].gen = ids[desk[s].op].gen

\* A session with sockets in the relay is live, or a request is about to close them (revokeDesktopRelays),
\* or it is one of two kinds: the migration terminated it, and EnsureServerManagedDesktopTrust does not tell
\* the relay, or a side that had consumed its credential before the end registered after it (JoinsRelay).
RelaysFollowSessions ==
    \A s \in relays : s \in Live \union orphans \/ \E n \in DOMAIN requests : requests[n].pc = "relays" /\ s \in requests[n].seen

\* What a migration of the trust root or a revocation put out of force stays so, whatever enrollment or
\* approval is in flight.
RevokedTrustStaysOut == OldTrustIsRevoked /\ RevokedKeysStayOut

\* Offered sessions have an operator and an endpoint in force, and the sockets of the others are closed,
\* or about to be, except for those the migration forgets and those registered after the end.
SessionsFollowTrust == OfferedSessionsAreTrusted /\ RelaysFollowSessions
=============================================================================

----------------------------- MODULE HomeAccess -----------------------------
(***************************************************************************)
(* The requests on HomeAccounts' tables: first setup, password and Entra   *)
(* sign-in, invitations, members and roles, password resets, permissions,  *)
(* socket tickets and agent tokens (cloud/server.go, cloud/entra.go,       *)
(* cloud/collaboration_handlers.go, cloud/home_singleton.go).  Every store *)
(* call of a handler that another request can disturb is a step of its     *)
(* own; what a request reads to be let in (session, account, membership)   *)
(* is read in one step.                                                    *)
(*                                                                         *)
(* Malformed bodies, CSRF tokens and request rate limits are left out, as  *)
(* is the directory's answer to a code: a callback carries the subject it  *)
(* vouches for.                                                            *)
(***************************************************************************)
EXTENDS HomeAccounts

CONSTANT Scenarios  \* what happens in a behaviour: a start state and requests

VARIABLES
    http,        \* requests being handled
    answers,     \* how the finished requests were answered, by request
    left         \* what is still to happen

vars == <<accounts, access, permissions, fleet, http, answers, left, scoped>>

Happens(r, kind) == r \in left /\ r.kind = kind /\ left' = left \ {r}

\* A request at a step, with what it has read so far.
Request(r, pc, u, role) == Over(r, [pc |-> pc, user |-> u, role |-> role, seen |-> None])
Starts(r, pc, u, role) == http' = With(http, r.n, Request(r, pc, u, role)) /\ UNCHANGED answers
At(n, pc) == http[n].pc = pc
Goes(n, pc) == http' = [http EXCEPT ![n].pc = pc] /\ UNCHANGED answers
GoesAs(n, pc, u) == http' = [http EXCEPT ![n].pc = pc, ![n].user = u] /\ UNCHANGED answers
GoesWith(n, pc, seen) == http' = [http EXCEPT ![n].pc = pc, ![n].seen = seen] /\ UNCHANGED answers
Answered(n, answer) == http' = Without(http, n) /\ answers' = With(answers, n, answer)
AnsweredAtOnce(r, answer) == answers' = With(answers, r.n, answer) /\ UNCHANGED http

-----------------------------------------------------------------------------
(* Who is let in *)

AdminKinds == {"invite", "cancel", "remove", "role", "reset", "perms", "mperms", "policy", "name",
               "token", "revoke_token", "remove_agent"}
HomeKinds == AdminKinds \union {"rename", "use"}
SignedInKinds == HomeKinds \union {"accept", "change", "logout", "ticket", "link"}

\* requireAuth, requireSingletonHomeMembership and the check of the role; "" lets the request in.
Refusal(r) ==
    LET u == sessions[r.s].user
    IN  IF ~LoggedIn(r.s) THEN "unauthorized"
        ELSE IF users[u].must /\ r.kind \notin {"change", "logout"} THEN "password change required"
        ELSE IF r.kind \in HomeKinds /\ u \notin DOMAIN members THEN "notfound"
        ELSE IF r.kind \in AdminKinds /\ members[u] # "admin" THEN "forbidden"
        ELSE ""

requireAuth ==
    \E r \in left :
        /\ r.kind \in SignedInKinds /\ left' = left \ {r}
        /\ IF Refusal(r) # "" THEN AnsweredAtOnce(r, Refusal(r))
           ELSE LET u == sessions[r.s].user
                IN  /\ http' = With(http, r.n, [Request(r, r.kind, u, IF u \in DOMAIN members THEN members[u] ELSE "none")
                                          EXCEPT !.seen = users[u]])
                    /\ UNCHANGED answers
        /\ UNCHANGED <<accounts, access, permissions, fleet, scoped>>

-----------------------------------------------------------------------------
(* First setup and password sign-in *)

createSession(n) ==
    /\ At(n, "session")
    /\ sessions' = With(sessions, n, NewSession(http[n].user))
    /\ Answered(n, "ok")
    /\ UNCHANGED <<accounts, tickets, backoff, flows, permissions, fleet, scoped>>

\* handleAuthRegister: closed once there is a home; an account with this email may be there.
handleAuthRegister ==
    \E r \in left :
        /\ Happens(r, "register")
        /\ IF CountHomes > 0 THEN AnsweredAtOnce(r, "forbidden")
           ELSE IF WithEmail(r.email) # {} THEN AnsweredAtOnce(r, "conflict") ELSE Starts(r, "create_user", r.n, "none")
        /\ UNCHANGED <<accounts, access, permissions, fleet, scoped>>

RegisterCreates(n) ==
    /\ At(n, "create_user")
    /\ LET r == http[n]
       IN  IF CreateUser(r.email)
             THEN users' = With(users, n, Account(r.email, r.password, TRUE)) /\ Goes(n, "homes")
             ELSE Answered(n, "error") /\ UNCHANGED users
    /\ UNCHANGED <<ext, home, members, invites, access, permissions, fleet, scoped>>

\* BootstrapSingletonHome reads the homes first: with one there, the caller just gets it.
BootstrapReads(n) ==
    /\ At(n, "homes")
    /\ Goes(n, IF home = None THEN "bootstrap" ELSE "session")
    /\ UNCHANGED <<accounts, access, permissions, fleet, scoped>>

BootstrapInserts(n) ==
    /\ At(n, "bootstrap")
    /\ \/ BootstrapSingletonHome(http[n].user) /\ Goes(n, "session")
       \/ home # None /\ Answered(n, "error") /\ UNCHANGED <<home, members, defaults>>
    /\ UNCHANGED <<users, ext, invites, access, overrides, fleet, scoped>>

\* handleAuthLogin: backoff, then the account and its password...
handleAuthLogin ==
    \E r \in left :
        /\ Happens(r, "login")
        /\ IF LoginBlocked(r.email) THEN AnsweredAtOnce(r, "blocked") ELSE Starts(r, "password", "", "none")
        /\ UNCHANGED <<accounts, access, permissions, fleet, scoped>>

PasswordCompared(n) ==
    /\ At(n, "password")
    /\ LET r == http[n]
           good == {u \in WithEmail(r.email) : users[u].login /\ users[u].password = r.password}
       IN  IF good = {} THEN Goes(n, "login_failed") ELSE GoesAs(n, "login_ok", CHOOSE u \in good : TRUE)
    /\ UNCHANGED <<accounts, access, permissions, fleet, scoped>>

LoginFails(n) ==
    /\ At(n, "login_failed")
    /\ RecordLoginFailure(http[n].email)
    /\ Answered(n, "unauthorized")
    /\ UNCHANGED <<accounts, sessions, tickets, flows, permissions, fleet, scoped>>

RecordLoginSuccess(n) ==
    /\ At(n, "login_ok")
    /\ backoff' = Without(backoff, http[n].email)
    /\ Goes(n, "session")
    /\ UNCHANGED <<accounts, sessions, tickets, flows, permissions, fleet, scoped>>

\* handleAuthChangePassword compares with the account read when the request was let in.
handleAuthChangePassword(n) ==
    /\ At(n, "change")
    /\ LET r == http[n]
       IN  IF r.seen.password # r.old THEN Answered(n, "unauthorized") /\ UNCHANGED <<users, sessions>>
           ELSE UpdateUserPassword(r.user, r.password, FALSE, r.s) /\ Answered(n, "ok")
    /\ UNCHANGED <<ext, home, members, invites, tickets, backoff, flows, permissions, fleet, scoped>>

handleAuthLogout(n) ==
    /\ At(n, "logout")
    /\ sessions' = [sessions EXCEPT ![http[n].s].live = FALSE]
    /\ Answered(n, "ok")
    /\ UNCHANGED <<accounts, tickets, backoff, flows, permissions, fleet, scoped>>

\* handleAppWebSocketTicket, and appAuthFromRequest for a socket that presents one: the ticket is
\* spent first, the session behind it is looked up afterwards.
handleAppWebSocketTicket(n) ==
    /\ At(n, "ticket")
    /\ tickets' = With(tickets, n, [session |-> http[n].s, used |-> FALSE, old |-> FALSE])
    /\ Answered(n, "ok")
    /\ UNCHANGED <<accounts, sessions, backoff, flows, permissions, fleet, scoped>>

TicketSpent ==
    \E r \in left :
        /\ Happens(r, "socket")
        /\ IF Spendable(r.t) THEN tickets' = [tickets EXCEPT ![r.t].used = TRUE] /\ Starts(r, "socket", "", "none")
           ELSE AnsweredAtOnce(r, "unauthorized") /\ UNCHANGED tickets
        /\ UNCHANGED <<accounts, sessions, backoff, flows, permissions, fleet, scoped>>

appAuthFromRequest(n) ==
    /\ At(n, "socket")
    /\ LET s == tickets[http[n].t].session
       IN  Answered(n, IF ~LoggedIn(s) THEN "unauthorized"
                       ELSE IF users[sessions[s].user].must THEN "password change required" ELSE "open")
    /\ UNCHANGED <<accounts, access, permissions, fleet, scoped>>

-----------------------------------------------------------------------------
(* Invitations *)

CreateHomeInvitation(n) ==
    /\ At(n, "invite")
    /\ invites' = With(invites, n, [email |-> http[n].email, accepted |-> FALSE, old |-> FALSE])
    /\ Answered(n, "ok")
    /\ UNCHANGED <<users, ext, home, members, access, permissions, fleet, scoped>>

InvitationCancelled(n) ==
    /\ At(n, "cancel")
    /\ LET i == http[n].i
       IN  IF DeletePendingHomeInvitation(i) THEN invites' = Without(invites, i) /\ Answered(n, "ok")
           ELSE Answered(n, "notfound") /\ UNCHANGED invites
    /\ UNCHANGED <<users, ext, home, members, access, permissions, fleet, scoped>>

\* handleHomeInvitationAccept, for an account that exists: it reads the invitation...
handleHomeInvitationAccept(n) ==
    /\ At(n, "accept")
    /\ LET r == http[n]
       IN  IF ~Usable(r.i) THEN Answered(n, "unusable")
           ELSE IF invites[r.i].email # r.seen.email THEN Answered(n, "forbidden") ELSE Goes(n, "accept_tx")
    /\ UNCHANGED <<accounts, access, permissions, fleet, scoped>>
\* ... and accepts it.
InvitationAccepted(n) ==
    /\ At(n, "accept_tx")
    /\ AcceptHomeInvitation(http[n].i, http[n].user)
    /\ IF http[n].kind = "accept" THEN Answered(n, "ok") ELSE Goes(n, "session")
    /\ UNCHANGED <<users, ext, home, access, permissions, fleet, scoped>>

\* handleAuthInvitationSignup: loadUsableInvitation, the emails, and no account with this email.
handleAuthInvitationSignup ==
    \E r \in left :
        /\ Happens(r, "signup")
        /\ IF ~Usable(r.i) THEN AnsweredAtOnce(r, "unusable")
           ELSE IF invites[r.i].email # r.email THEN AnsweredAtOnce(r, "forbidden")
           ELSE IF WithEmail(r.email) # {} THEN AnsweredAtOnce(r, "conflict") ELSE Starts(r, "signup_tx", r.n, "none")
        /\ UNCHANGED <<accounts, access, permissions, fleet, scoped>>

\* The account, its membership (and its identity) and the acceptance, in one transaction.
Provision(n, account, i) ==
    /\ users' = With(users, n, account)
    /\ invites' = [invites EXCEPT ![i].accepted = TRUE]
    /\ members' = With(members, n, "member")
    /\ scoped' = scoped \union {n}
    /\ GoesAs(n, "session", n)

CreateUserAndAcceptHomeInvitation(n) ==
    /\ At(n, "signup_tx")
    /\ LET r == http[n]
           result == SignupAccepts(r.i, r.email)
       IN  IF result = "ok" THEN Provision(n, Account(r.email, r.password, TRUE), r.i)
           ELSE Answered(n, result) /\ UNCHANGED <<users, invites, members, scoped>>
    /\ UNCHANGED <<ext, home, access, permissions, fleet>>

-----------------------------------------------------------------------------
(* Entra *)

\* handleEntraStart, with or without an invitation.
handleEntraStart ==
    \E r \in left :
        /\ Happens(r, "entra")
        /\ IF r.i # "" /\ ~Usable(r.i) THEN AnsweredAtOnce(r, "unusable") /\ UNCHANGED flows
           ELSE /\ flows' = With(flows, r.n, [i |-> r.i, user |-> "", s |-> "", old |-> FALSE])
                /\ AnsweredAtOnce(r, "ok")
        /\ UNCHANGED <<accounts, sessions, tickets, backoff, permissions, fleet, scoped>>

handleEntraLinkStart(n) ==
    /\ At(n, "link")
    /\ flows' = With(flows, n, [i |-> "", user |-> http[n].user, s |-> http[n].s, old |-> FALSE])
    /\ Answered(n, "ok")
    /\ UNCHANGED <<accounts, sessions, tickets, backoff, permissions, fleet, scoped>>

\* handleEntraCallback: the state is spent; a link needs the session that asked for it.
handleEntraCallback ==
    \E r \in left :
        /\ Happens(r, "callback")
        /\ flows' = Without(flows, r.state)
        /\ IF r.state \notin DOMAIN flows \/ (r.state \in DOMAIN flows /\ flows[r.state].old) THEN AnsweredAtOnce(r, "invalid state")
           ELSE LET flow == flows[r.state]
                IN  IF flow.s # "" /\ ~(r.s = flow.s /\ LoggedIn(r.s)) THEN AnsweredAtOnce(r, "link session expired")
                    ELSE /\ http' = With(http, r.n, [Request(r, "resolve", flow.user, "none") EXCEPT !.seen = flow])
                         /\ UNCHANGED answers
        /\ UNCHANGED <<accounts, sessions, tickets, backoff, permissions, fleet, scoped>>

\* resolveEntraUser, its reads: a known subject, a link, an invitation, or the first setup.
resolveEntraUser(n) ==
    /\ At(n, "resolve")
    /\ LET r == http[n]
           i == r.seen.i
       IN  IF r.subject \in DOMAIN ext
             THEN IF i = "" THEN GoesAs(n, "session", ext[r.subject])
                  ELSE IF ~Usable(i) THEN Answered(n, "not provisioned")
                  ELSE /\ http' = [http EXCEPT ![n] = Over([pc |-> "accept_tx", user |-> ext[r.subject], i |-> i], r)]
                       /\ UNCHANGED answers
           ELSE IF r.user # "" THEN Goes(n, "link_identity")
           ELSE IF i # "" THEN IF ~Usable(i) \/ WithEmail(invites[i].email) # {} THEN Answered(n, "not provisioned") ELSE GoesWith(n, "sso_signup", [i |-> i, email |-> invites[i].email])
           ELSE IF CountHomes # 0 THEN Answered(n, "not provisioned") ELSE Goes(n, "sso_setup")
    /\ UNCHANGED <<accounts, access, permissions, fleet, scoped>>

\* CreateExternalIdentity: one account per subject and one subject per account.
CreateExternalIdentity(n) ==
    /\ At(n, "link_identity")
    /\ LET r == http[n]
       IN  IF r.subject \in DOMAIN ext \/ IdentitiesOf(r.user) # {} THEN Answered(n, "not provisioned") /\ UNCHANGED ext
           ELSE ext' = With(ext, r.subject, r.user) /\ Goes(n, "session")
    /\ UNCHANGED <<users, home, members, invites, access, permissions, fleet, scoped>>

CreateSSOUserAndAcceptHomeInvitation(n) ==
    /\ At(n, "sso_signup")
    /\ LET r == http[n]
       IN  IF SignupAccepts(r.seen.i, r.seen.email) = "ok" /\ r.subject \notin DOMAIN ext
             THEN Provision(n, Account(r.seen.email, "random", FALSE), r.seen.i) /\ ext' = With(ext, r.subject, n)
             ELSE Answered(n, "not provisioned") /\ UNCHANGED <<users, invites, members, scoped, ext>>
    /\ UNCHANGED <<home, access, permissions, fleet>>

\* (Mutant: the account is made first, and whoever comes second finds the home of the other.)
AccountThenHome(n) ==
    /\ At(n, "sso_setup")
    /\ users' = With(users, n, Account(http[n].email, "random", FALSE))
    /\ ext' = With(ext, http[n].subject, n)
    /\ scoped' = scoped \union {n}
    /\ IF home = None THEN BootstrapSingletonHome(n) ELSE UNCHANGED <<home, members, defaults>>
    /\ GoesAs(n, "session", n)
    /\ UNCHANGED <<invites, access, overrides, fleet>>
CreateSSOUserAndBootstrapSingletonHome(n) ==
    /\ At(n, "sso_setup")
    /\ LET r == http[n]
       IN  IF SSOBootstrap(r.subject, r.email)
             THEN /\ users' = With(users, n, Account(r.email, "random", FALSE))
                  /\ ext' = With(ext, r.subject, n)
                  /\ scoped' = scoped \union {n}
                  /\ BootstrapSingletonHome(n)
                  /\ GoesAs(n, "session", n)
             ELSE Answered(n, "not provisioned") /\ UNCHANGED <<users, ext, home, members, defaults, scoped>>
    /\ UNCHANGED <<invites, access, overrides, fleet>>

-----------------------------------------------------------------------------
(* Members and permissions *)

RowStep == [remove |-> "remove_row", role |-> "role_row", reset |-> "reset_row", rename |-> "rename_row", mperms |-> "mperms_row"]
\* handleHomeMembers reads the membership of the target, and counts the admins when one would go.
TargetReads(n) ==
    /\ http[n].pc \in {"remove", "role", "reset", "rename", "mperms"}
    /\ LET r == http[n]
           losesAdmin == r.u \in Admins /\ (r.pc = "remove" \/ (r.pc = "role" /\ r.to # "admin"))
       IN  IF r.pc = "reset" /\ r.u = r.user THEN Answered(n, "own account")
           ELSE IF r.pc = "rename" /\ r.u # r.user /\ r.role # "admin" THEN Answered(n, "forbidden")
           ELSE IF r.u \notin DOMAIN members THEN Answered(n, "notfound")
           ELSE Goes(n, IF losesAdmin THEN "count" ELSE RowStep[r.pc])
    /\ UNCHANGED <<accounts, access, permissions, fleet, scoped>>

CountHomeOwners(n) ==
    /\ At(n, "count")
    /\ IF Cardinality(Admins) <= 1 THEN Answered(n, "last admin") ELSE Goes(n, RowStep[http[n].kind])
    /\ UNCHANGED <<accounts, access, permissions, fleet, scoped>>

RemoveHomeMembership(n) ==
    /\ At(n, "remove_row")
    /\ LET u == http[n].u
       IN  IF u \in DOMAIN members
             THEN members' = Without(members, u) /\ scoped' = scoped \ {u} /\ Answered(n, "ok")
             ELSE Answered(n, "notfound") /\ UNCHANGED <<members, scoped>>
    /\ UNCHANGED <<users, ext, home, invites, access, permissions, fleet>>

UpdateHomeMembershipRole(n) ==
    /\ At(n, "role_row")
    /\ LET u == http[n].u
       IN  IF u \in DOMAIN members THEN members' = [members EXCEPT ![u] = http[n].to] /\ Answered(n, "ok")
           ELSE Answered(n, "notfound") /\ UNCHANGED members
    /\ UNCHANGED <<users, ext, home, invites, access, permissions, fleet, scoped>>

\* A reset by an admin: a temporary password, and every session of the account ends.
PasswordReset(n) ==
    /\ At(n, "reset_row")
    /\ UpdateUserPassword(http[n].u, n, http[n].must, "")
    /\ Answered(n, "ok")
    /\ UNCHANGED <<ext, home, members, invites, tickets, backoff, flows, permissions, fleet, scoped>>

\* UpdateUserDisplayName; the answer shows the member, who may be gone by then.
DisplayNameUpdated(n) ==
    /\ At(n, "rename_row")
    /\ users' = [users EXCEPT ![http[n].u].name = n]
    /\ Answered(n, IF http[n].u \in DOMAIN members THEN "ok" ELSE "notfound")
    /\ UNCHANGED <<ext, home, members, invites, access, permissions, fleet, scoped>>

\* handleHomePermissions reads all the switches and writes all of them back.
PermissionsRead(n) ==
    /\ At(n, "perms")
    /\ GoesWith(n, "perms_row", defaults)
    /\ UNCHANGED <<accounts, access, permissions, fleet, scoped>>
UpsertHomePermissions(n) ==
    /\ At(n, "perms_row")
    /\ defaults' = Over(http[n].set, http[n].seen)
    /\ Answered(n, "ok")
    /\ UNCHANGED <<accounts, access, overrides, fleet, scoped>>

UpsertHomeMemberPermissions(n) ==
    /\ At(n, "mperms_row")
    /\ overrides' = With(overrides, http[n].u, http[n].set)
    /\ Answered(n, "ok")
    /\ UNCHANGED <<accounts, access, defaults, fleet, scoped>>

\* requireHomeFeature, before a request of a member that uses a feature.
requireHomeFeature(n) ==
    /\ At(n, "use")
    /\ Answered(n, IF homeFeatureAllowed(http[n].user, http[n].role, http[n].feature) THEN "ok" ELSE "denied")
    /\ UNCHANGED <<accounts, access, permissions, fleet, scoped>>

\* RenameSingletonHome, UpdateAgentEnrollmentPolicy
HomeUpdated(n) ==
    /\ http[n].pc \in {"name", "policy"}
    /\ home' = IF http[n].pc = "name" THEN [home EXCEPT !.name = n] ELSE [home EXCEPT !.policy = http[n].policy]
    /\ Answered(n, "ok")
    /\ UNCHANGED <<users, ext, members, invites, access, permissions, fleet, scoped>>

-----------------------------------------------------------------------------
(* Agent tokens *)

\* A token for an agent: the type is decided on what is read...
TokenReads(n) ==
    /\ At(n, "token")
    /\ LET type == resolveAgentEnrollmentType(http[n].type, http[n].a, agents)
       IN  IF type = "" THEN Answered(n, "conflict") ELSE GoesWith(n, "upsert", type)
    /\ UNCHANGED <<accounts, access, permissions, fleet, scoped>>
\* ... the agent is written (UpsertAgent)...
AgentUpserted(n) ==
    /\ At(n, "upsert")
    /\ LET r == http[n]
       IN  IF OnePrimaryIndex(r.a, r.seen) THEN agents' = With(agents, r.a, r.seen) /\ Goes(n, "create_token")
           ELSE Answered(n, "error") /\ UNCHANGED agents
    /\ UNCHANGED <<accounts, access, permissions, tokens, dead, scoped>>
\* ... and then the token, whose foreign key needs the agent.
CreateAgentToken(n) ==
    /\ At(n, "create_token")
    /\ LET r == http[n]
       IN  IF r.a \in DOMAIN agents
             THEN tokens' = With(tokens, n, [agent |-> r.a, live |-> TRUE, old |-> FALSE]) /\ Answered(n, "ok")
             ELSE Answered(n, "error") /\ UNCHANGED tokens
    /\ UNCHANGED <<accounts, access, permissions, agents, dead, scoped>>

\* RevokeAgentTokenForHome, or DeleteAgentTokenForHome with ?purge=1
TokenRevoked(n) ==
    /\ At(n, "revoke_token")
    /\ LET t == http[n].t
       IN  IF t \notin DOMAIN tokens THEN Answered(n, "notfound") /\ UNCHANGED tokens
           ELSE /\ tokens' = IF http[n].purge THEN Without(tokens, t) ELSE [tokens EXCEPT ![t].live = FALSE]
                /\ Answered(n, "ok")
    /\ UNCHANGED <<accounts, access, permissions, agents, dead, scoped>>

AgentRemoved(n) ==
    /\ At(n, "remove_agent")
    /\ LET a == http[n].a
       IN  IF a \notin DOMAIN agents THEN Answered(n, "notfound") /\ UNCHANGED fleet
           ELSE /\ DeleteAgentForHome(a)
                /\ dead' = dead \union {t \in DOMAIN tokens : tokens[t].agent = a}
                /\ Answered(n, "ok")
    /\ UNCHANGED <<accounts, access, permissions, scoped>>

\* handleAgentWebSocket, its check of the token; AgentRouting has the rest.
AgentConnects ==
    \E r \in left :
        /\ Happens(r, "connect")
        /\ AnsweredAtOnce(r, IF ValidateAgentToken(r.t) THEN "connected" ELSE "unauthorized")
        /\ UNCHANGED <<accounts, access, permissions, fleet, scoped>>

-----------------------------------------------------------------------------
(* Time *)

\* An invitation, a session, a ticket, a sign-in or an agent token expires; a block ends.
Old(table, name, r) == IF r.table = name /\ r.id \in DOMAIN table THEN [table EXCEPT ![r.id].old = TRUE] ELSE table
Expires ==
    \E r \in left :
        /\ Happens(r, "expires")
        /\ invites' = Old(invites, "invites", r) /\ sessions' = Old(sessions, "sessions", r)
        /\ tickets' = Old(tickets, "tickets", r) /\ flows' = Old(flows, "flows", r) /\ tokens' = Old(tokens, "tokens", r)
        /\ backoff' = IF r.table = "backoff" /\ r.id \in DOMAIN backoff THEN [backoff EXCEPT ![r.id].blocked = FALSE] ELSE backoff
        /\ UNCHANGED <<users, ext, home, members, permissions, agents, dead, http, answers, scoped>>

-----------------------------------------------------------------------------
Init ==
    \E sc \in Scenarios :
        /\ users = sc.users /\ ext = sc.ext /\ home = sc.home /\ members = sc.members /\ invites = sc.invites
        /\ sessions = sc.sessions /\ backoff = sc.backoff /\ agents = sc.agents /\ tokens = sc.tokens /\ left = sc.left
        /\ defaults = [f \in Features |-> TRUE]
        /\ tickets = << >> /\ overrides = << >> /\ flows = << >> /\ http = << >> /\ answers = << >>
        /\ scoped = {} /\ dead = {}

\* What a start state satisfies: before first setup there are neither members nor invitations, the
\* index on primary agents holds, and a request has a name of its own, which no row has yet.
Startable(sc) ==
    /\ sc.home = None => DOMAIN sc.members = {} /\ DOMAIN sc.invites = {}
    /\ sc.home # None => DOMAIN sc.home = {"name", "policy"}
    /\ \A i \in DOMAIN sc.invites : "accepted" \in DOMAIN sc.invites[i]
    /\ \A a, b \in DOMAIN sc.agents : sc.agents[a] = "primary" /\ sc.agents[b] = "primary" => a = b
    /\ \A r \in sc.left : "pc" \notin DOMAIN r
    /\ \A r \in sc.left : r.kind # "expires" => r.n \notin DOMAIN sc.tokens
    /\ \A r, q \in sc.left : r.kind # "expires" /\ q.kind # "expires" /\ r.n = q.n => r = q

Arrives ==
    \/ requireAuth \/ handleAuthRegister \/ handleAuthLogin \/ TicketSpent \/ handleAuthInvitationSignup
    \/ handleEntraStart \/ handleEntraCallback \/ AgentConnects \/ Expires

Step(n) ==
    \/ createSession(n) \/ RegisterCreates(n) \/ BootstrapReads(n) \/ BootstrapInserts(n)
    \/ PasswordCompared(n) \/ LoginFails(n) \/ RecordLoginSuccess(n)
    \/ handleAuthChangePassword(n) \/ handleAuthLogout(n) \/ handleAppWebSocketTicket(n) \/ appAuthFromRequest(n)
    \/ CreateHomeInvitation(n) \/ InvitationCancelled(n) \/ handleHomeInvitationAccept(n) \/ InvitationAccepted(n)
    \/ CreateUserAndAcceptHomeInvitation(n)
    \/ handleEntraLinkStart(n) \/ resolveEntraUser(n) \/ CreateExternalIdentity(n)
    \/ CreateSSOUserAndAcceptHomeInvitation(n) \/ CreateSSOUserAndBootstrapSingletonHome(n)
    \/ TargetReads(n) \/ CountHomeOwners(n) \/ RemoveHomeMembership(n) \/ UpdateHomeMembershipRole(n)
    \/ PasswordReset(n) \/ DisplayNameUpdated(n) \/ PermissionsRead(n) \/ UpsertHomePermissions(n)
    \/ UpsertHomeMemberPermissions(n) \/ requireHomeFeature(n) \/ HomeUpdated(n)
    \/ TokenReads(n) \/ AgentUpserted(n) \/ CreateAgentToken(n) \/ TokenRevoked(n) \/ AgentRemoved(n)

Next == Arrives \/ (\E n \in DOMAIN http : Step(n) /\ UNCHANGED left)

Spec == Init /\ [][Next]_vars
=============================================================================

---------------------------- MODULE HomeAccounts ----------------------------
(***************************************************************************)
(* The tables behind who may do what: accounts and their Entra identities, *)
(* the one home of a deployment with its members, invitations and          *)
(* permissions, login sessions, socket tickets and login backoff, agents   *)
(* and their tokens (store/store.go, store/collaboration.go,               *)
(* store/production_state.go and the keys and indexes of the migrations).  *)
(* A store call is one operator here and one step of a handler in          *)
(* HomeAccess.                                                             *)
(*                                                                         *)
(* A token, a ticket or an invitation is named by its row: only who holds  *)
(* it can present it.  A password is a value, compared for equality (the   *)
(* hash).  Time is a flag: an invitation, a session, a ticket, a sign-in   *)
(* or a block gets old.                                                    *)
(***************************************************************************)
EXTENDS Integers, FiniteSets, Tables

CONSTANTS
    Features     \* what permissions switch: Home Assistant, files, notes

VARIABLES
    users,       \* users, by id: email, password, password login enabled, must change
    ext,         \* external_identities: the account of a directory subject
    home,        \* homes: None before first setup; its name and agent enrollment policy
    members,     \* home_memberships: the role of a member
    invites,     \* home_invitations, by id
    sessions,    \* app_sessions, by id
    tickets,     \* app_ws_tickets, by id
    backoff,     \* login_backoff, by email
    defaults,    \* home_permissions
    overrides,   \* home_member_permissions, by user
    agents,      \* agents: the type of an agent
    tokens,      \* agent_tokens, by id
    flows,       \* Entra sign-ins under way, by state (memory)
    scoped,      \* accounts made by an invitation or by Entra, and not removed from the home since
    dead         \* tokens an agent had when it was removed

accounts == <<users, ext, home, members, invites>>
access == <<sessions, tickets, backoff, flows>>
permissions == <<defaults, overrides>>
fleet == <<agents, tokens, dead>>

-----------------------------------------------------------------------------
(* Accounts *)

WithEmail(email) == {u \in DOMAIN users : users[u].email = email}
IdentitiesOf(u) == {x \in DOMAIN ext : ext[x] = u}
Account(email, password, login) == [email |-> email, password |-> password, login |-> login, must |-> FALSE, name |-> ""]

\* CreateUser: the email is unique.
CreateUser(email) == WithEmail(email) = {}

\* UpdateUserPassword: the password, and in the same transaction the end of the sessions but one.
UpdateUserPassword(u, password, must, keep) ==
    /\ users' = [users EXCEPT ![u].password = password, ![u].login = TRUE, ![u].must = must]
    /\ sessions' = [s \in DOMAIN sessions |->
                       IF sessions[s].user = u /\ s # keep THEN [sessions[s] EXCEPT !.live = FALSE] ELSE sessions[s]]

-----------------------------------------------------------------------------
(* The home *)

Admins == {u \in DOMAIN members : members[u] = "admin"}
CountHomes == IF home = None THEN 0 ELSE 1
NewHome == [name |-> "Home", policy |-> "admins_only"]

\* The inserts of BootstrapSingletonHome: the id of the home is a constant, so a second insert
\* breaks the primary key and takes the transaction with it.
BootstrapSingletonHome(u) ==
    /\ home = None
    /\ home' = NewHome
    /\ members' = With(members, u, "admin")
    /\ defaults' = [f \in Features |-> TRUE]

\* CreateSSOUserAndBootstrapSingletonHome: serializable, and only for the first home.
SSOBootstrap(subject, email) == home = None /\ WithEmail(email) = {} /\ subject \notin DOMAIN ext

-----------------------------------------------------------------------------
(* Invitations *)

Usable(i) == i \in DOMAIN invites /\ ~invites[i].accepted /\ ~invites[i].old

\* (Mutant: the membership is inserted from what the handler has read.)
AcceptUnseen(i, u) ==
    /\ invites' = [j \in DOMAIN invites |-> IF j = i THEN [invites[j] EXCEPT !.accepted = TRUE] ELSE invites[j]]
    /\ members' = With(members, u, "member")
\* AcceptHomeInvitation: the membership is inserted from the invitation's row, or nothing happens.  It
\* looks at neither acceptance nor age again, and an existing membership gets the invited role.
AcceptHomeInvitation(i, u) ==
    IF i \in DOMAIN invites
      THEN /\ invites' = [invites EXCEPT ![i].accepted = TRUE]
           /\ members' = With(members, u, "member")
      ELSE UNCHANGED <<invites, members>>

\* CreateUserAndAcceptHomeInvitation and CreateSSOUserAndAcceptHomeInvitation: all or nothing.
SignupAccepts(i, email) ==
    CASE WithEmail(email) # {} -> "error"
      [] WithEmail(email) = {} /\ (i \notin DOMAIN invites \/ invites[i].accepted) -> "notfound"
      [] OTHER -> "ok"

\* DeletePendingHomeInvitation
DeletePendingHomeInvitation(i) == i \in DOMAIN invites /\ ~invites[i].accepted

-----------------------------------------------------------------------------
(* Sessions *)

\* GetSessionByHash, GetSessionByID
LoggedIn(s) == s \in DOMAIN sessions /\ sessions[s].live /\ ~sessions[s].old
NewSession(u) == [user |-> u, live |-> TRUE, old |-> FALSE]

\* ConsumeAppWebSocketTicket: one conditional update.
Spendable(t) == t \in DOMAIN tickets /\ ~tickets[t].used /\ ~tickets[t].old

LoginBlocked(email) == email \in DOMAIN backoff /\ backoff[email].blocked
\* RecordLoginFailure: the fifth failure in a row blocks the address, and so does every later one.
MaxFailures == 5
RecordLoginFailure(email) ==
    LET failures == IF email \in DOMAIN backoff THEN backoff[email].failures + 1 ELSE 1
    IN  backoff' = With(backoff, email, [failures |-> failures, blocked |-> failures >= MaxFailures])

-----------------------------------------------------------------------------
(* Permissions *)

\* homeFeatureAllowed: everything for an admin; else the member's override, else the default.
homeFeatureAllowed(u, role, f) ==
    \/ role = "admin"
    \/ IF u \in DOMAIN overrides /\ overrides[u][f] # "unset" THEN overrides[u][f] = "on" ELSE defaults[f]

-----------------------------------------------------------------------------
(* Agents *)

Primaries == {a \in DOMAIN agents : agents[a] = "primary"}

\* resolveAgentEnrollmentType, for the agents it is given: a type, or "" when it refuses.
resolveAgentEnrollmentType(asked, a, known) ==
    LET taken == \E b \in DOMAIN known : known[b] = "primary"
    IN  CASE a \in DOMAIN known -> IF asked \in {"", known[a]} THEN known[a] ELSE ""
          [] a \notin DOMAIN known /\ asked = "" -> IF taken THEN "worker" ELSE "primary"
          [] OTHER -> IF asked = "primary" /\ taken THEN "" ELSE asked

\* (Mutant: nothing but the handler's check keeps a second primary out.)
AnyType(a, type) == TRUE
\* UpsertAgent under the index agents_one_primary_per_home_idx.
OnePrimaryIndex(a, type) == type = "primary" => Primaries \subseteq {a}

\* DeleteAgentForHome: the tokens first, then the agent.
DeleteAgentForHome(a) ==
    /\ tokens' = [t \in {x \in DOMAIN tokens : tokens[x].agent # a} |-> tokens[t]]
    /\ agents' = Without(agents, a)

\* ValidateAgentToken: the row joined with its agent, neither revoked nor old.
ValidateAgentToken(t) ==
    t \in DOMAIN tokens /\ tokens[t].agent \in DOMAIN agents /\ tokens[t].live /\ ~tokens[t].old

-----------------------------------------------------------------------------
(* An account joins the home in one of two ways: it sets the home up, or   *)
(* it uses an invitation that is in the table at that moment and is        *)
(* accepted from then on.  So an invitation an admin cancelled while its   *)
(* acceptance or its signup was being handled admits nobody.               *)
MembersJoinByInvitation ==
    [][\A u \in DOMAIN members' \ DOMAIN members :
           \/ home = None /\ home' # None /\ members' = [x \in {u} |-> "admin"]
           \/ \E i \in DOMAIN invites : i \in DOMAIN invites' /\ invites'[i].accepted /\ members'[u] = "member"]_accounts

(* An account that Entra or an invitation provisioned belongs to the home  *)
(* until an admin removes it: a first setup that loses the race, or an     *)
(* invitation used up meanwhile, leaves no account behind                  *)
(* (CreateSSOUserAndBootstrapSingletonHome,                                *)
(* CreateUserAndAcceptHomeInvitation).                                     *)
ProvisionedAccountsAreScoped == \A u \in scoped : u \in DOMAIN users /\ u \in DOMAIN members

(* The home has one primary agent at most, however the requests for tokens *)
(* interleave: each decides the type on the agents it has read, and writes *)
(* the agent later (handleHomeAgent, UpsertAgent).                         *)
OnePrimaryAgent == Cardinality(Primaries) <= 1

(* The tokens an agent had when it was removed let nobody in again, even   *)
(* after an agent of the same name is enrolled (DeleteAgentForHome,        *)
(* ValidateAgentToken).                                                    *)
RemovedAgentsTokensStayDead == \A t \in dead : ~ValidateAgentToken(t)

(* Both, for every interleaving of enrollments, removals and connections.  *)
EnrollmentIsExact == OnePrimaryAgent /\ RemovedAgentsTokensStayDead
=============================================================================

-------------------------------- MODULE HomeApps --------------------------------
(***************************************************************************)
(* The cloud side of Hank apps: handleHomeApps and the rows it keeps of the *)
(* agent's apps, in front of the agent of AgentApps, with the faults of     *)
(* both processes and of the connection between them.                       *)
(***************************************************************************)
EXTENDS AgentApps

Happens(r, kind) == r \in left /\ r.kind = kind /\ left' = left \ {r}

HomeAppsInit ==
    \E s \in Scenarios :
        /\ left = s.left
        /\ apps = [a \in AppIds |-> IF a \in DOMAIN s.apps THEN s.apps[a] ELSE None]
        /\ disk = [a \in AppIds |-> [p \in Places |->
                      IF p = "final" /\ a \in DOMAIN s.apps
                      THEN [m |-> s.apps[a].m, state |-> StateOf(s.apps[a])] ELSE None]]
        /\ rows = [a \in AppIds |-> IF a \in DOMAIN s.apps
                                    THEN appSummary(s.apps[a]) @@ [access |-> s.access] ELSE None]
        /\ applied = [a \in AppIds |-> IF a \in DOMAIN s.apps
                                       THEN {ConfOf(s.apps[a])} ELSE {Blank}]
        /\ packages = [x \in Stagings |-> None]
        /\ files = [x \in Stagings |-> None]
        /\ staged = [x \in Stagings |-> ""]
        /\ http = << >> /\ doing = << >> /\ inbox = << >>
        /\ online = TRUE
        /\ overlapped = FALSE /\ hit = {} /\ unsaved = {}
        /\ recent = [a \in AppIds |-> IF apps[a] = None THEN {} ELSE {appSummary(apps[a])}]

Busy == DOMAIN http # {} \/ DOMAIN doing # {} \/ inbox # << >>

----------------------------------------------------------------------------
(* Handlers *)

\* normalizeAppUserAccess: the empty value is admins_only; an unknown value is "".
normalizeAppUserAccess(v) == CASE v \in {"", "admins_only"} -> "admins_only"
                               [] v = "home_members"        -> "home_members"
                               [] OTHER                     -> ""

\* canUseHomeAgentApp and authorizeAppsInvokeCommand
canUseHomeAgentApp(row, admin) == row.on /\ (admin \/ row.access = "home_members")
authorizeAppsInvokeCommand(r) ==
    rows[r.app] # None /\ canUseHomeAgentApp(rows[r.app], r.admin) /\ r.cmd \in rows[r.app].cmds

\* Put prunes the expired packages and adds the uploaded one.
PutPackage(r) == packages' = [Pruned EXCEPT ![r.n] = [pkg |-> r.pkg, fresh |-> TRUE]]

Send(r) ==
    /\ inbox' = Append(inbox, r)
    /\ http' = [k \in DOMAIN http |-> [http[k] EXCEPT !.alone = FALSE]]
               @@ (r.n :> [pc |-> "wait", r |-> r, alone |-> ~Busy, body |-> [ok |-> FALSE]])
Refuse == UNCHANGED <<inbox, http>>

HandlerFrame == UNCHANGED <<rows, online, doing, apps, staged, files, disk, applied, overlapped, hit, unsaved>>

\* GET /v1/home/apps asks the agent when it is online; the stored rows are answered either way.
ListApps(r) ==
    /\ Happens(r, "list")
    /\ IF online THEN Send(r) ELSE Refuse
    /\ UNCHANGED packages
    /\ HandlerFrame

\* POST import/preview: an admin, an online agent, a package of acceptable size (readAppPackageUpload).
ImportPreview(r) ==
    /\ Happens(r, "preview")
    /\ IF r.admin /\ online /\ r.sized THEN PutPackage(r) /\ Send(r) ELSE Refuse /\ UNCHANGED packages
    /\ HandlerFrame

\* POST import/activate
ImportActivate(r) ==
    /\ Happens(r, "activate")
    /\ IF r.admin /\ online THEN Send(r) ELSE Refuse
    /\ UNCHANGED packages
    /\ HandlerFrame

\* PUT {app}/config: an access mode that is given must be a known one.
PutConfig(r) ==
    /\ Happens(r, "config")
    /\ IF r.admin /\ online /\ (r.access = "" \/ normalizeAppUserAccess(r.access) # "") THEN Send(r) ELSE Refuse
    /\ UNCHANGED packages
    /\ HandlerFrame

\* A routed apps.invoke command, authorized against the row.
InvokeApp(r) ==
    /\ Happens(r, "invoke")
    /\ IF online /\ authorizeAppsInvokeCommand(r) THEN Send(r) ELSE Refuse
    /\ UNCHANGED packages
    /\ HandlerFrame

\* persistAgentApp: a summary without an access mode is stored with the normalized empty one.
KeepsOld(given) == IF rows[given.id] # None THEN rows[given.id]
                   ELSE [given EXCEPT !.access = normalizeAppUserAccess(@)]
persistAgentApp(given) == [given EXCEPT !.access = normalizeAppUserAccess(@)]

\* What the handler stores: the list stores what the agent reports, activate sets admins_only,
\* config the access mode it was given.
AccessFor(r) == CASE r.kind = "activate" -> "admins_only"
                  [] r.kind = "config"   -> r.access
                  [] OTHER               -> ""

\* The handler goes on with the agent's answer: an error ends it, summaries are stored one by one,
\* a successful activation also drops the staged package.
StoreSummary(n, s) ==
    /\ n \in DOMAIN http /\ http[n].pc = "answered" /\ http[n].body.ok
    /\ http[n].r.kind \in {"list", "activate", "config"}
    /\ s \in http[n].body.apps
    /\ rows' = [rows EXCEPT ![s.id] = persistAgentApp(s @@ [access |-> AccessFor(http[n].r)])]
    /\ http' = [http EXCEPT ![n].body.apps = @ \ {s}]
    /\ UNCHANGED <<left, packages, online, inbox, doing, apps, staged, files, disk, applied, overlapped, hit, unsaved>>

\* The store refuses a summary, or the client is gone: the handler answers an error.
PersistFails(n) ==
    /\ n \in DOMAIN http /\ http[n].pc = "answered" /\ http[n].body.ok
    /\ http[n].r.kind \in {"list", "activate", "config"} /\ http[n].body.apps # {}
    /\ \E r \in left : Happens(r, "store-fails")
    /\ http' = [k \in DOMAIN http \ {n} |-> http[k]]
    /\ UNCHANGED <<packages, rows>> /\ UNCHANGED agentVars

EndHandler(n) ==
    /\ n \in DOMAIN http /\ http[n].pc = "answered"
    /\ http[n].body.ok /\ http[n].r.kind \in {"list", "activate", "config"} => http[n].body.apps = {}
    /\ packages' = IF http[n].body.ok /\ http[n].r.kind = "activate"
                   THEN [packages EXCEPT ![http[n].r.sid] = None] ELSE packages
    /\ http' = [k \in DOMAIN http \ {n} |-> http[k]]
    /\ UNCHANGED <<left, rows>> /\ UNCHANGED agentVars

\* sendAgentCommand gives up (timeoutForCommand, or the client is gone).  Bound: only a hasty
\* request gives up while the agent may still answer it.
MayBeAnswered(n) ==
    /\ \A k \in DOMAIN doing : doing[k].old \/ ~Stuck(k)
    /\ (n \in DOMAIN doing /\ ~doing[n].old) \/ \E i \in DOMAIN inbox : inbox[i].n = n
CommandTimeout(n) ==
    /\ n \in DOMAIN http /\ http[n].pc = "wait"
    /\ http[n].r.hasty \/ ~MayBeAnswered(n)
    /\ http' = [k \in DOMAIN http \ {n} |-> [http[k] EXCEPT !.alone = FALSE]]
    /\ UNCHANGED <<left, packages, rows>> /\ UNCHANGED agentVars

----------------------------------------------------------------------------
(* Faults *)

Alone(f) == [k \in DOMAIN f |-> [f[k] EXCEPT !.alone = FALSE]]

\* Fifteen minutes pass.
PackagesExpire(r) ==
    /\ Happens(r, "expire")
    /\ packages' = [s \in Stagings |-> IF packages[s] = None THEN None ELSE [packages[s] EXCEPT !.fresh = FALSE]]
    /\ UNCHANGED <<rows, http>> /\ UNCHANGED agentVars

\* The connection breaks and the agent connects again: unread commands are gone, the running one
\* goes on beside the new readLoop.
Reconnect(r) ==
    /\ Happens(r, "reconnect") /\ online
    /\ inbox' = << >>
    /\ doing' = [n \in DOMAIN doing |-> [doing[n] EXCEPT !.old = TRUE]]
    /\ http' = Alone(http)
    /\ UNCHANGED <<packages, rows, online, apps, staged, files, disk, applied, overlapped, hit, unsaved>>

\* The agent process stops.  A state file that was being written may be cut short.
Writing == {n \in DOMAIN doing : doing[n].pc \in {"store", "note"} \/ (doing[n].pc = "persist" /\ ~overlapped)}
Written(n) == IF doing[n].r.kind = "activate" THEN <<AppOf(n), "final">>
              ELSE <<doing[n].r.app, apps[doing[n].r.app].where>>
TornBy(T) == {Written(n) : n \in {x \in T : LET w == Written(x) IN disk[w[1]][w[2]] # None}}
AgentStops(r) ==
    /\ Happens(r, "agent-stop") /\ online
    /\ online' = FALSE
    /\ \E T \in SUBSET Writing :
        /\ disk' = [a \in AppIds |-> [p \in Places |->
                        IF <<a, p>> \in TornBy(T) THEN [disk[a][p] EXCEPT !.state = Torn] ELSE disk[a][p]]]
    /\ hit' = hit \cup {AppOf(n) : n \in {k \in DOMAIN doing :
                            \/ doing[k].pc \in {"rename", "persist"}
                            \/ doing[k].pc = "remove" /\ disk[AppOf(k)]["final"] = None}}
    /\ apps' = [a \in AppIds |-> None]
    /\ staged' = [x \in Stagings |-> ""]
    /\ doing' = << >> /\ inbox' = << >>
    /\ http' = Alone(http)
    /\ UNCHANGED <<packages, rows, files, applied, overlapped, unsaved>>

\* main: Load, whose error is only logged, then the connection.
AgentStarts ==
    /\ ~online
    /\ online' = TRUE
    /\ \E found \in [AppIds -> UNION {Load(a) : a \in AppIds}] :
        apps' = found /\ \A a \in AppIds : found[a] \in Load(a)
    /\ hit' = hit \cup {a \in AppIds : disk[a]["final"] # None /\ ~Reached(a)}
    /\ unsaved' = {}
    /\ UNCHANGED <<left, packages, rows, http, inbox, doing, staged, files, disk, applied, overlapped>>

\* The cloud process restarts: its handlers and its staged packages are gone, the connection breaks.
CloudRestarts(r) ==
    /\ Happens(r, "cloud-restart")
    /\ http' = << >>
    /\ packages' = [x \in Stagings |-> None]
    /\ inbox' = << >>
    /\ doing' = [n \in DOMAIN doing |-> [doing[n] EXCEPT !.old = TRUE]]
    /\ UNCHANGED <<rows, online, apps, staged, files, disk, applied, overlapped, hit, unsaved>>

----------------------------------------------------------------------------

CloudStep ==
    \E n \in DOMAIN http :
        \/ http[n].pc = "answered" /\ http[n].body.ok /\ http[n].r.kind \in {"list", "activate", "config"}
           /\ \E s \in http[n].body.apps : StoreSummary(n, s)
        \/ PersistFails(n)
        \/ EndHandler(n)
        \/ CommandTimeout(n)

HomeAppsStep ==
    \/ \E r \in left :
        \/ ListApps(r) \/ ImportPreview(r) \/ ImportActivate(r) \/ PutConfig(r) \/ InvokeApp(r)
        \/ PackagesExpire(r) \/ Reconnect(r) \/ AgentStops(r) \/ CloudRestarts(r)
    \/ AgentStarts
    \/ AgentStep
    \/ Unstuck
    \/ CloudStep

\* A list that met no other request was stored: the rows are the agent's apps again.
Agreed == \E n \in DOMAIN http \ DOMAIN http' :
    http[n].r.kind = "list" /\ http[n].alone /\ http[n].pc = "answered" /\ http[n].body.ok /\ http[n].body.apps = {}
HomeAppsNext ==
    /\ HomeAppsStep
    /\ recent' = [a \in AppIds |-> CASE apps'[a] = None -> recent[a]
                                     [] apps'[a] # None /\ Agreed -> {appSummary(apps'[a])}
                                     [] OTHER -> recent[a] \cup {appSummary(apps'[a])}]

\* Commands run to their end, handlers return, a stopped agent is started again by its supervisor.
HomeAppsFairness == WF_systemVars(AgentStarts) /\ WF_systemVars(AgentStep) /\ WF_systemVars(CloudStep)

HomeAppsSpec == HomeAppsInit /\ [][HomeAppsNext]_vars /\ HomeAppsFairness

----------------------------------------------------------------------------
(* Properties *)

\* No command is between the removal of an app's directory and its entry in Manager.apps.
Quiet == online /\ \A n \in DOMAIN doing : doing[n].pc \notin {"rename", "persist", "commit"}

\* The manager's apps and the state files agree whenever no install is under way: the app an Invoke
\* uses is the one the next start of the agent will load (writePersistedAppState after every change of
\* Manager.apps).  An app differs only when the disk refused the last write for it, until one
\* succeeds or the agent starts again; an app on the disk that the manager does not have is one that
\* Load did not come to.  Two commands side by side after a reconnect may break it.
DiskAgreesWithManager ==
    Quiet /\ ~overlapped =>
        \A a \in AppIds \ unsaved :
            IF apps[a] # None
            THEN LET d == disk[a][apps[a].where] IN d # None /\ d.m = apps[a].m /\ d.state = StateOf(apps[a])
            ELSE disk[a]["final"] # None => a \in hit

\* An app has the whole configuration an admin stored last, the values and the declared secrets,
\* across upgrades, restarts, refused writes, failed imports and failed invocations (or the one of an
\* apply that answered an error, which is in memory and maybe on the disk).  When its install was cut
\* off after the removal of the old directory, or Load did not come to its directory, it has no
\* configuration at all or that of a directory such an install left: never a mixture.
ConfigurationIsWhole ==
    Quiet /\ ~overlapped =>
        \A a \in AppIds : apps[a] # None =>
            \/ ConfOf(apps[a]) \in applied[a]
            \/ a \in hit /\ ConfOf(apps[a]) = Blank
            \/ a \in hit /\ \E p \in Temps(a) : disk[a][p].state # Torn /\ ConfOf(apps[a]) = ConfOf(disk[a][p].state)

\* The rows, on which apps.invoke is authorized, are of the agent: a row says what the agent's app was
\* at some moment since the last list of the apps that met no other request was stored, whatever
\* handlers overlap, give up or fail to store (persistAgentApp after the answer); right after such a
\* list it says what the app is.
RowsFollowAgent ==
    \A a \in AppIds : rows[a] # None => \E was \in recent[a] : \A k \in DOMAIN was : rows[a][k] = was[k]

\* The agent's connection is not blocked for ever by an app that hangs, floods or fails: every command
\* the agent began ends, by the app's answer or the runner's deadline.  The exceptions are the two
\* waits without a deadline: the download of a package, and the output of a child the app left behind.
AgentIsFreeAgain == []<>(\A n \in DOMAIN doing : Stuck(n))

\* Every package that reached the agent: what PreviewArchive accepts, installArchive installs whole.
AcceptedPackagesInstall == \A s \in Stagings : files[s] # None => AcceptedIsInstallable(files[s])
============================================================================

------------------------------- MODULE AgentApps -------------------------------
(***************************************************************************)
(* Installed Hank apps: the agent's app manager (internal/agent/apps) and   *)
(* the cloud's /v1/home/apps endpoints (internal/cloud/apps.go) that drive  *)
(* it and mirror its state in the table home_agent_apps.                    *)
(*                                                                          *)
(* The agent executes the commands of one connection one after the other    *)
(* (readLoop).  When the connection is lost while a command runs, the new   *)
(* connection's readLoop runs beside the old command, whose answer is lost. *)
(* The agent may stop between any two file system operations.               *)
(*                                                                          *)
(* An app is its manifest (id, version, declared secret fields, commands),  *)
(* the admin's configuration and the secrets stored for it.  A package is   *)
(* its archive entries, its manifest and its hash.                          *)
(***************************************************************************)
EXTENDS AppPackages, FiniteSets, TLC, Tables

CONSTANTS Scenarios,    \* start states and the requests and events that may come
          AppOrder,     \* the app ids in directory order
          SecretFields  \* every secret field some manifest declares

VARIABLES left,        \* requests and events still to come
          packages,    \* cloud: appPackageStagingRegistry
          rows,        \* cloud: home_agent_apps
          http,        \* cloud: handlers waiting for the agent or storing its answer
          online,      \* the agent process runs and is connected
          inbox,       \* commands sent on the current connection
          doing,       \* commands the agent executes
          apps,        \* agent: Manager.apps
          staged,      \* agent: Manager.staged
          files,       \* agent: packages in the staging directory
          disk,        \* agent: the directories of the apps directory
          applied,     \* history: the configurations each app may have, the last stored and failed ones
          overlapped,  \* history: two commands ran side by side
          hit,         \* history: apps with an install cut off, or that Load did not come to
          unsaved,     \* history: apps whose last write to the disk failed
          recent       \* history: what each app was since the rows last agreed with the agent

agentVars == <<online, inbox, doing, apps, staged, files, disk, applied, overlapped, hit, unsaved>>
cloudVars == <<packages, rows, http>>
systemVars == <<left, packages, rows, http, online, inbox, doing, apps, staged, files, disk,
                applied, overlapped, hit, unsaved>>
vars == <<systemVars, recent>>

AppIds == {AppOrder[i] : i \in DOMAIN AppOrder}
NoSecrets == [f \in SecretFields |-> 0]
Blank == [conf |-> 0, secrets |-> NoSecrets]

Stagings == UNION {{r.n : r \in {x \in s.left : x.kind = "preview"}} : s \in Scenarios}
Places == {"final"} \cup UNION {{r.n : r \in {x \in s.left : x.kind = "activate"}} : s \in Scenarios}

\* What persistedAppState keeps of an app; Torn is a state file cut short.
Torn == [torn |-> TRUE]
StateOf(app) == [on |-> app.on, conf |-> app.conf, secrets |-> app.secrets, err |-> app.err]
ConfOf(app) == [conf |-> app.conf, secrets |-> app.secrets]
NoState == [on |-> FALSE, conf |-> 0, secrets |-> NoSecrets, err |-> FALSE]

----------------------------------------------------------------------------
(* The agent's manager. *)

\* findCommand
HasCommand(m, c) == c \in CommandIds(m)

\* Mutant: an upgrade forgets the secrets.
DropsSecrets(old, m) == NoSecrets

\* preserveDeclaredSecrets: the stored values of the fields the new manifest declares.
preserveDeclaredSecrets(old, m) == [f \in SecretFields |-> IF f \in Declared(m) THEN old.secrets[f] ELSE 0]

\* applySecrets: declared fields with a non-empty value replace the stored ones.
applySecrets(app, given) ==
    [f \in SecretFields |-> IF f \in Declared(app.m) /\ given[f] # 0 THEN given[f] ELSE app.secrets[f]]

\* appSummary: what a response tells the cloud about an app.
appSummary(app) ==
    [id |-> app.m.id, ver |-> app.m.ver, on |-> app.on, conf |-> app.conf, cmds |-> CommandIds(app.m),
     set |-> {f \in SecretFields : app.secrets[f] # 0}]

summariesLocked(known) == {appSummary(known[a]) : a \in {x \in AppIds : known[x] # None}}

\* The disk refuses an operation (it is full, or the directory may not be written).
DiskFails == \E r \in left : r.kind = "disk-fails" /\ left' = left \ {r}

\* (ForgetsState is its mutant: a failed invocation is not written through.)
\* writePersistedAppState writes into the app's own directory, and fails when it is gone or the disk
\* refuses, before or after the old content was cut off.
CanPersist(a, where) == disk[a][where] # None
ForgetsState(d, a, app) == IF app.err THEN d ELSE [d EXCEPT ![a][app.where].state = StateOf(app)]
writePersistedAppState(d, a, app) == [d EXCEPT ![a][app.where].state = StateOf(app)]
Persisted(a, app) ==
    /\ CanPersist(a, app.where)
    /\ disk' = writePersistedAppState(disk, a, app)
    /\ unsaved' = IF disk[a][app.where].m = app.m THEN unsaved \ {a} ELSE unsaved
    /\ UNCHANGED left
NotPersisted(a, app) ==
    /\ \/ ~CanPersist(a, app.where) /\ UNCHANGED <<disk, left>>
       \/ CanPersist(a, app.where) /\ DiskFails /\ disk' \in {disk, [disk EXCEPT ![a][app.where].state = Torn]}
    /\ unsaved' = unsaved \cup {a}

\* Load reads the directories in name order: the temporary install directories (".install-<app>-"
\* and a random suffix), app by app, then the apps.  It stops at the first that has no manifest or
\* whose state file does not decode; of two directories of one app the later one counts.
FromDir(a, p) ==
    LET d == disk[a][p]
        s == d.state
    IN  [m |-> d.m, where |-> p, on |-> s.on, conf |-> s.conf, secrets |-> s.secrets, err |-> s.err]
Unreadable(a, p) == disk[a][p] # None /\ (disk[a][p].m = None \/ disk[a][p].state = Torn)
Temps(a) == {p \in Places \ {"final"} : disk[a][p] # None}
StopsIn(a) == \E p \in Temps(a) : Unreadable(a, p)
UpTo(a) == {AppOrder[k] : k \in 1 .. (CHOOSE i \in DOMAIN AppOrder : AppOrder[i] = a)}
FromTemps(a) ==
    LET found == {FromDir(a, p) : p \in {q \in Temps(a) : ~Unreadable(a, q)}}
    IN  IF \E b \in UpTo(a) \ {a} : StopsIn(b) THEN {None}
        ELSE found \cup (IF found = {} \/ StopsIn(a) THEN {None} ELSE {})
Reached(a) == ~(\E b \in AppIds : StopsIn(b)) /\ ~(\E b \in UpTo(a) : Unreadable(b, "final"))
Load(a) == IF disk[a]["final"] # None /\ Reached(a) THEN {FromDir(a, "final")} ELSE FromTemps(a)

\* handleCommand: the answer reaches the cloud when the connection it came on is still the current
\* one and the handler still waits.
Answer(n, body) ==
    /\ doing' = [k \in DOMAIN doing \ {n} |-> doing[k]]
    /\ http' = IF ~doing[n].old /\ n \in DOMAIN http /\ http[n].pc = "wait"
               THEN [http EXCEPT ![n].pc = "answered", ![n].body = body]
               ELSE http

Fails(n) == Answer(n, [ok |-> FALSE])
At(n, kind, pc) == n \in DOMAIN doing /\ doing[n].r.kind = kind /\ doing[n].pc = pc
Goto(n, pc) == doing' = [doing EXCEPT ![n].pc = pc]

\* readLoop takes the next command when the previous one of this connection is done.
readLoop ==
    /\ online
    /\ inbox # << >>
    /\ \A n \in DOMAIN doing : doing[n].old
    /\ LET r == Head(inbox)
       IN  doing' = doing @@ (r.n :> [pc |-> "start", old |-> FALSE, r |-> r, prev |-> None, result |-> ""])
    /\ inbox' = Tail(inbox)
    /\ overlapped' = (overlapped \/ DOMAIN doing # {})
    /\ UNCHANGED <<left, packages, rows, http, online, apps, staged, files, disk, applied, hit, unsaved>>

\* apps.list and apps.config_status
List(n) ==
    /\ At(n, "list", "start")
    /\ Answer(n, [ok |-> TRUE, apps |-> summariesLocked(apps)])
    /\ UNCHANGED <<left, packages, rows, online, inbox, apps, staged, files, disk, applied,
                   overlapped, hit, unsaved>>

\* handleHomeAppPackageDownload serves the staged package; pruneLocked drops expired ones first.
Pruned == [s \in Stagings |-> IF packages[s] # None /\ ~packages[s].fresh THEN None ELSE packages[s]]
handleHomeAppPackageDownload(s) == Pruned[s]

\* downloadPackage: temporary file, then rename to <staging id>.hankapp.
Downloads(n) ==
    /\ At(n, "preview", "start")
    /\ packages' = Pruned
    /\ \/ handleHomeAppPackageDownload(n) = None /\ Fails(n) /\ UNCHANGED <<files, left>>
       \/ /\ handleHomeAppPackageDownload(n) # None
          /\ files' = [files EXCEPT ![n] = packages[n].pkg]
          /\ Goto(n, "validate") /\ UNCHANGED <<http, left>>
       \/ DiskFails /\ Fails(n) /\ UNCHANGED files
    /\ UNCHANGED <<rows, online, inbox, apps, staged, disk, applied, overlapped, hit, unsaved>>
\* The request has no deadline of its own: a download that stalls may go on or not.
downloadPackage(n) == At(n, "preview", "start") /\ ~doing[n].r.stalls /\ Downloads(n)
StalledDownload(n) == At(n, "preview", "start") /\ doing[n].r.stalls /\ Downloads(n)

\* PreviewPackage after the download.
PreviewPackage(n) ==
    /\ At(n, "preview", "validate")
    /\ IF ~PreviewArchive(files[n])
       THEN Fails(n) /\ UNCHANGED staged
       ELSE /\ staged' = [staged EXCEPT ![n] = files[n].m.id]
            /\ Answer(n, [ok |-> TRUE, sha |-> files[n].sha])
    /\ UNCHANGED <<left, packages, rows, online, inbox, apps, files, disk, applied, overlapped, hit, unsaved>>

\* ActivatePackage up to installArchive: the checks, and the copy of the app it replaces.
ActivatePackage(n) ==
    /\ At(n, "activate", "start")
    /\ LET r == doing[n].r
           f == files[r.sid]
       IN  IF f = None \/ ~PreviewArchive(f) \/ (staged[r.sid] # "" /\ staged[r.sid] # f.m.id) \/ (r.sha # 0 /\ r.sha # f.sha)
           THEN Fails(n)
           ELSE doing' = [doing EXCEPT ![n].pc = "mkdir", ![n].prev = apps[f.m.id]] /\ UNCHANGED http
    /\ UNCHANGED <<left, packages, rows, online, inbox, apps, staged, files, disk, applied,
                   overlapped, hit, unsaved>>

Package(n) == files[doing[n].r.sid]
AppOf(n) == Package(n).m.id
InstallFrame == UNCHANGED <<packages, rows, online, inbox, apps, staged, files, overlapped>>

\* installArchive, one action per file system operation: the temporary directory, its contents
\* (app.json among them), the removal of the old version, the rename.  The disk may refuse any of
\* them; the deferred removal of the temporary directory runs then, too.
MkdirTemp(n) ==
    /\ At(n, "activate", "mkdir")
    /\ \/ /\ disk' = [disk EXCEPT ![AppOf(n)][n] = [m |-> None, state |-> NoState]]
          /\ Goto(n, "extract") /\ UNCHANGED <<http, left>>
       \/ DiskFails /\ Fails(n) /\ UNCHANGED disk
    /\ InstallFrame /\ UNCHANGED <<applied, hit, unsaved>>
extractArchive(n) ==
    /\ At(n, "activate", "extract")
    /\ \/ /\ extractTree(Package(n).entries).ok
          /\ disk' = [disk EXCEPT ![AppOf(n)][n].m = Package(n).m]
          /\ Goto(n, "remove") /\ UNCHANGED <<http, left>>
       \/ /\ disk' = [disk EXCEPT ![AppOf(n)][n] = None] /\ Fails(n)
          /\ DiskFails \/ (~extractTree(Package(n).entries).ok /\ UNCHANGED left)
    /\ InstallFrame /\ UNCHANGED <<applied, hit, unsaved>>
RemoveFinal(n) ==
    /\ At(n, "activate", "remove")
    /\ LET a == AppOf(n)
       IN  \/ /\ disk' = [disk EXCEPT ![a]["final"] = None]
              /\ Goto(n, "rename") /\ UNCHANGED <<http, left, unsaved>>
           \/ /\ DiskFails /\ Fails(n) /\ disk[a]["final"] # None
              /\ disk' \in {[disk EXCEPT ![a][n] = None], [disk EXCEPT ![a][n] = None, ![a]["final"].m = None]}
              /\ unsaved' = unsaved \cup {a}
    /\ InstallFrame /\ UNCHANGED <<applied, hit>>
RenameTemp(n) ==
    /\ At(n, "activate", "rename")
    /\ LET a == AppOf(n)
       IN  \/ /\ disk[a]["final"] = None
              /\ disk' = [disk EXCEPT ![a]["final"] = disk[a][n], ![a][n] = None]
              /\ Goto(n, "persist") /\ UNCHANGED <<http, left, hit, unsaved>>
           \/ /\ disk' = [disk EXCEPT ![a][n] = None] /\ Fails(n)
              /\ DiskFails \/ (disk[a]["final"] # None /\ UNCHANGED left)
              /\ hit' = hit \cup {a} /\ unsaved' = unsaved \cup {a}
    /\ InstallFrame /\ UNCHANGED applied

\* The InstalledApp that ActivatePackage puts in place of the previous one.
Replacement(n) ==
    LET old == doing[n].prev
        m == Package(n).m
    IN  [m |-> m, where |-> "final", on |-> doing[n].r.enable,
         conf |-> IF old = None THEN 0 ELSE old.conf,
         secrets |-> IF old = None THEN NoSecrets ELSE preserveDeclaredSecrets(old, m),
         err |-> FALSE]

\* What an upgrade keeps of a configuration.
Kept(c, m) == [c EXCEPT !.secrets = [f \in SecretFields |-> IF f \in Declared(m) THEN @[f] ELSE 0]]
PersistReplacement(n) ==
    /\ At(n, "activate", "persist")
    /\ LET a == AppOf(n)
           old == doing[n].prev
       IN  \/ /\ Persisted(a, Replacement(n))
              /\ applied' = [applied EXCEPT ![a] = {Kept(c, Package(n).m) : c \in @ \cup (IF old = None THEN {} ELSE {ConfOf(old)})}]
              /\ Goto(n, "commit") /\ UNCHANGED <<http, hit>>
           \/ /\ NotPersisted(a, Replacement(n)) /\ Fails(n)
              /\ hit' = hit \cup {a} /\ UNCHANGED applied
    /\ InstallFrame

CommitReplacement(n) ==
    /\ At(n, "activate", "commit")
    /\ apps' = [apps EXCEPT ![AppOf(n)] = Replacement(n)]
    /\ staged' = [staged EXCEPT ![doing[n].r.sid] = ""]
    /\ Answer(n, [ok |-> TRUE, apps |-> {appSummary(Replacement(n))}])
    /\ UNCHANGED <<left, packages, rows, online, inbox, files, disk, applied, overlapped, hit, unsaved>>

\* ConfigApply up to the validation: the candidate is a copy of the app as it is now.
Candidate(app, r) ==
    [app EXCEPT !.conf = IF r.conf # 0 THEN r.conf ELSE @,
                !.secrets = applySecrets(app, r.secrets),
                !.on = IF r.enable = "keep" THEN @ ELSE r.enable = "on"]
ConfigApply(n) ==
    /\ At(n, "config", "start")
    /\ LET r == doing[n].r
           c == Candidate(apps[r.app], r)
       IN  IF apps[r.app] = None
           THEN Fails(n)
           ELSE /\ doing' = [doing EXCEPT ![n].pc = IF c.on /\ "settings_apply" \in CommandIds(c.m) THEN "run" ELSE "store",
                                          ![n].prev = c]
                /\ UNCHANGED http
    /\ UNCHANGED <<left, packages, rows, online, inbox, apps, staged, files, disk, applied,
                   overlapped, hit, unsaved>>

\* ConfigApply after the validation: the candidate's values go into the app as it is by then.
StoreConfig(n) ==
    /\ At(n, "config", "store")
    /\ LET a == doing[n].r.app
           c == doing[n].prev
           new == [apps[a] EXCEPT !.on = c.on, !.conf = c.conf, !.secrets = c.secrets, !.err = FALSE]
       IN  /\ apps' = [apps EXCEPT ![a] = new]
           /\ \/ /\ Persisted(a, new) /\ Answer(n, [ok |-> TRUE, apps |-> {appSummary(new)}])
                 /\ applied' = [applied EXCEPT ![a] = {ConfOf(new)}]
              \/ /\ NotPersisted(a, new) /\ Fails(n)
                 /\ applied' = [applied EXCEPT ![a] = @ \cup {ConfOf(new)}]
    /\ UNCHANGED <<packages, rows, online, inbox, staged, files, overlapped, hit>>

\* Invoke up to the process: the app must be known, enabled and have the command.
Invoke(n) ==
    /\ At(n, "invoke", "start")
    /\ LET r == doing[n].r
       IN  IF apps[r.app] = None \/ ~apps[r.app].on \/ ~HasCommand(apps[r.app].m, r.cmd)
           THEN Fails(n)
           ELSE Goto(n, "run") /\ UNCHANGED http
    /\ UNCHANGED <<left, packages, rows, online, inbox, apps, staged, files, disk, applied,
                   overlapped, hit, unsaved>>

RunFrame == UNCHANGED <<left, packages, rows, online, inbox, apps, staged, files, disk, applied,
                        overlapped, hit, unsaved>>

\* Invoke continues with setLastError; validateSettingsApply stores or refuses.
RunFailed(n, result) ==
    IF doing[n].r.kind = "invoke"
    THEN doing' = [doing EXCEPT ![n].pc = "note", ![n].result = result] /\ UNCHANGED http
    ELSE Fails(n)
RunSucceeded(n) ==
    /\ doing' = [doing EXCEPT ![n].pc = IF doing[n].r.kind = "invoke" THEN "note" ELSE "store", ![n].result = "ok"]
    /\ UNCHANGED http

\* decodeAppResponse and validateAppResponse: one JSON value with the request's id, ok xor error.
decodeAppResponse(out) == IF out \in {"ok", "error"} THEN out ELSE "invalid"

\* Runner.Invoke: the process ends by itself ("flood": a bounded buffer cancels it; "exit": it fails
\* without an answer; "garbage": it answers something else), or the command's deadline passes
\* (NoDeadline is the mutant without one).
RunnerInvoke(n) ==
    /\ n \in DOMAIN doing /\ doing[n].pc = "run"
    /\ doing[n].r.out \notin {"hang", "orphan"}
    /\ LET result == IF doing[n].r.out \in {"flood", "exit"} THEN "invalid" ELSE decodeAppResponse(doing[n].r.out)
       IN  IF result = "ok" THEN RunSucceeded(n) ELSE RunFailed(n, result)
    /\ RunFrame
NoDeadline(n) == n \in DOMAIN doing /\ FALSE /\ UNCHANGED vars
RunnerDeadline(n) ==
    /\ n \in DOMAIN doing /\ doing[n].pc = "run"
    /\ doing[n].r.out # "orphan"
    /\ RunFailed(n, "timeout")
    /\ RunFrame
\* Run also waits for the copies of the process's output, and so for a child that keeps them open
\* ("orphan"); it ends when it likes, before or after the deadline killed its parent.
OrphanEnds(n) ==
    /\ n \in DOMAIN doing /\ doing[n].pc = "run"
    /\ doing[n].r.out = "orphan"
    /\ RunSucceeded(n) \/ RunFailed(n, "timeout")
    /\ RunFrame

\* setLastError, then the answer.  A failed write of the state file is ignored.
setLastError(n) ==
    /\ At(n, "invoke", "note")
    /\ LET a == doing[n].r.app
           new == [apps[a] EXCEPT !.err = doing[n].result # "ok"]
       IN  /\ apps' = [apps EXCEPT ![a] = new]
           /\ Persisted(a, new) \/ NotPersisted(a, new)
    /\ IF doing[n].result = "ok" THEN Answer(n, [ok |-> TRUE]) ELSE Fails(n)
    /\ UNCHANGED <<packages, rows, online, inbox, staged, files, applied, overlapped, hit>>

\* Commands nothing in the agent ends: their download stalls, or a child of their app stays.
Stuck(n) ==
    \/ doing[n].r.kind = "preview" /\ doing[n].pc = "start" /\ doing[n].r.stalls
    \/ doing[n].pc = "run" /\ doing[n].r.out = "orphan"
Unstuck == \E n \in DOMAIN doing : StalledDownload(n) \/ OrphanEnds(n)

AgentStep ==
    \/ readLoop
    \/ \E n \in DOMAIN doing :
        \/ List(n) \/ downloadPackage(n) \/ PreviewPackage(n)
        \/ ActivatePackage(n) \/ MkdirTemp(n) \/ extractArchive(n) \/ RemoveFinal(n) \/ RenameTemp(n)
        \/ PersistReplacement(n) \/ CommitReplacement(n)
        \/ ConfigApply(n) \/ StoreConfig(n)
        \/ Invoke(n) \/ RunnerInvoke(n) \/ RunnerDeadline(n) \/ setLastError(n)
============================================================================

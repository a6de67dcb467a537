--------------------------------- MODULE MCApps ---------------------------------
(***************************************************************************)
(* Hank apps on small scenarios: one or two apps, and the requests, faults  *)
(* and events that may come in any order and at any step of the others.     *)
(***************************************************************************)
EXTENDS HomeApps

MCAppOrder == <<"hermes", "ydl">>
MCSecretFields == {"key", "pin"}

Cmd(id) == [id |-> id, mode |-> "request_response", timeout |-> 30, input |-> <<"in.json">>, output |-> << >>]
Absent == [kind |-> "absent", val |-> ""]
Str(v) == [kind |-> "string", val |-> v]
Field(key, type) ==
    [key |-> key, type |-> type, secret |-> FALSE, secretKey |-> "", source |-> "", sourceField |-> "",
     default |-> Absent, options |-> << >>]
Man(id, ver, secrets, commands) ==
    [version |-> "supported", id |-> id, ver |-> ver, name |-> "ok", about |-> "", runtime |-> "stdio",
     run |-> <<"bin", "run">>, commands |-> commands, slashes |-> << >>, schema |-> << >>, secrets |-> secrets,
     settings |-> << >>, network |-> << >>, fileAccess |-> << >>, events |-> FALSE]
H1 == Man("hermes", 1, <<"key">>, <<Cmd("chat")>>)
H2 == Man("hermes", 2, <<"key", "pin">>, <<Cmd("chat"), Cmd("settings_apply")>>)
H3 == Man("hermes", 3, <<"pin">>, <<Cmd("ask")>>)
Y1 == Man("ydl", 1, << >>, <<Cmd("download")>>)

File(path) == [path |-> path, dir |-> FALSE, link |-> FALSE, content |-> "json"]
Dir(path) == [path |-> path, dir |-> TRUE, link |-> FALSE, content |-> ""]
Archive == <<File(<<"app.json">>), File(<<"bin", "run">>), File(<<"in.json">>)>>
Secret(k, p) == [f \in MCSecretFields |-> IF f = "key" THEN k ELSE p]
App(m, on, conf, sec) == [m |-> m, where |-> "final", on |-> on, conf |-> conf, secrets |-> sec, err |-> FALSE]
Pkg(m, sha, ok) == [m |-> m, sha |-> sha, entries |-> IF ok THEN Archive ELSE Tail(Archive)]

Preview(n, pkg) == [n |-> n, kind |-> "preview", admin |-> TRUE, sized |-> TRUE, pkg |-> pkg, stalls |-> FALSE, hasty |-> FALSE]
Activate(n, sid, sha) == [n |-> n, kind |-> "activate", admin |-> TRUE, sid |-> sid, sha |-> sha, enable |-> TRUE, hasty |-> FALSE]
Config(n, conf, sec, enable, access, out) ==
    [n |-> n, kind |-> "config", admin |-> TRUE, app |-> "hermes", conf |-> conf, secrets |-> sec, enable |-> enable,
     access |-> access, out |-> out, hasty |-> FALSE]
Use(n, cmd, admin, out) == [n |-> n, kind |-> "invoke", app |-> "hermes", cmd |-> cmd, admin |-> admin, out |-> out, hasty |-> FALSE]
Ls(n) == [n |-> n, kind |-> "list", admin |-> TRUE, hasty |-> FALSE]
Hasty(r) == [r EXCEPT !.hasty = TRUE]
Ev(kind) == [n |-> kind, kind |-> kind]
Start(known, access, events) == [apps |-> known, access |-> access, left |-> events]

Hermes == "hermes" :> App(H1, TRUE, 1, Secret(1, 0))
Both == ("hermes" :> App(H2, TRUE, 1, Secret(1, 1))) @@ ("ydl" :> App(Y1, TRUE, 1, Secret(0, 0)))

\* Imports and upgrades, with the agent stopping at any step of the install.
Imports == {
    Start(<< >>, "admins_only", {Preview("p1", Pkg(H1, 7, TRUE)), Hasty(Activate("a1", "p1", 7)), Ls("l1"), Ev("expire")}),
    Start(<< >>, "admins_only", {Preview("p1", Pkg(H1, 7, TRUE)), Activate("a1", "p1", 7), Ls("l1"), Ev("agent-stop")}),
    Start(Hermes, "admins_only", {Preview("p1", Pkg(H2, 7, TRUE)), Activate("a1", "p1", 7), Activate("a2", "p1", 7), Ev("agent-stop")}),
    Start(Hermes, "admins_only", {Preview("p1", Pkg(H3, 7, TRUE)), Activate("a1", "p1", 7), Activate("a2", "p1", 0), Ev("reconnect")}),
    Start(Hermes, "admins_only", {Preview("p1", Pkg(Y1, 7, FALSE)), Activate("a1", "p1", 0), Ls("l1")}),
    Start(Hermes, "admins_only", {Preview("p1", Pkg(H2, 7, TRUE)), Activate("a1", "p1", 0), Ev("disk-fails"), Ev("agent-stop")}),
    Start(Hermes, "admins_only", {[Preview("p1", Pkg(H2, 7, TRUE)) EXCEPT !.stalls = TRUE], Use("u1", "chat", TRUE, "ok"), Ev("reconnect")}),
    Start(Hermes, "admins_only", {Preview("p1", Pkg(Y1, 8, TRUE)), Activate("a1", "p1", 9), Activate("a2", "p1", 8), Ev("cloud-restart")}),
    Start(Hermes, "admins_only", {[Preview("p1", Pkg(Y1, 7, TRUE)) EXCEPT !.admin = FALSE], [Activate("a1", "p1", 0) EXCEPT !.admin = FALSE],
        [Config("c1", 2, Secret(0, 0), "on", "", "ok") EXCEPT !.admin = FALSE]})}

\* Settings, beside upgrades and lists.
Settings == {
    Start(Hermes, "admins_only", {Preview("p1", Pkg(H2, 7, TRUE)), Activate("a1", "p1", 7),
        Config("c1", 2, Secret(2, 2), "keep", "home_members", "ok"), Ev("reconnect")}),
    Start(Hermes, "admins_only", {Preview("p1", Pkg(H3, 7, TRUE)), Activate("a1", "p1", 7),
        Config("c1", 2, Secret(2, 2), "keep", "home_members", "ok"), Ev("agent-stop")}),
    Start(Both, "home_members", {Config("c1", 2, Secret(2, 0), "off", "other", "ok"), Config("c2", 2, Secret(0, 2), "on", "", "garbage"),
        Use("u1", "chat", FALSE, "ok"), Ls("l1")}),
    Start(Both, "admins_only", {Hasty(Config("c1", 2, Secret(2, 0), "on", "home_members", "ok")), Config("c2", 3, Secret(0, 0), "off", "", "ok"),
        Ls("l1"), Ls("l2")}),
    Start(Both, "admins_only", {Config("c1", 2, Secret(2, 0), "on", "home_members", "ok"), Config("c2", 3, Secret(0, 0), "off", "", "ok"),
        Ev("disk-fails"), Ev("agent-stop")}),
    Start(Both, "admins_only", {Config("c1", 2, Secret(2, 0), "on", "home_members", "ok"), Ls("l1"), Ls("l2"), Ev("store-fails")}),
    Start(Both, "admins_only", {Config("c1", 2, Secret(2, 0), "on", "home_members", "ok"), Config("c2", 3, Secret(0, 0), "off", "", "ok"),
        Ls("l1"), Ev("cloud-restart"), Ev("agent-stop")})}

\* Invocations whose process answers, fails, floods or hangs.
Invocations == {
    Start(Both, "admins_only", {Use("u1", "chat", TRUE, "hang"), Use("u2", "chat", TRUE, "error"), Ev("agent-stop"), Ls("l1")}),
    Start(Both, "admins_only", {Use("u1", "chat", TRUE, "hang"), Use("u2", "chat", TRUE, "ok"), Ev("reconnect"), Ls("l1")}),
    Start(Both, "admins_only", {Use("u1", "chat", TRUE, "error"), Use("u2", "chat", TRUE, "orphan"), Ev("disk-fails"), Ev("agent-stop")}),
    Start(Both, "home_members", {Use("u1", "chat", FALSE, "flood"), Use("u2", "chat", FALSE, "exit"), Use("u3", "sing", FALSE, "ok"),
        Config("c1", 2, Secret(0, 0), "on", "", "hang")})}

\* Archives: two more entries after, or before and after, the files every package has.
Entries == {File(<<"a">>), Dir(<<"a">>), File(<<"a", "b">>), Dir(<<"a", "b">>), File(<<"bin">>), Dir(<<"bin">>),
            File(<<"..", "a">>), File(<<"", "a">>), [File(<<"l">>) EXCEPT !.link = TRUE],
            [File(<<"app.json">>) EXCEPT !.content = "text"], File(<<"in.json", "x">>)}
Archives == {Archive \o <<d, e>> : d, e \in Entries} \cup {<<d>> \o Archive \o <<e>> : d, e \in Entries}

\* Manifests: one with settings of every kind, and the ways to spoil it.
Rich == [H2 EXCEPT
    !.slashes = <<[command |-> "/Hermes", text |-> "ok", id |-> "chat"]>>,
    !.settings = <<[Field("share", "select") EXCEPT !.source = "file_sources"],
                   [Field("folder", "path") EXCEPT !.sourceField = "share"], Field("url", "url"),
                   [Field("password", "password") EXCEPT !.secret = TRUE, !.secretKey = "pin"],
                   [Field("mode", "select") EXCEPT !.options = <<Str("a"), Str("b")>>, !.default = Str("a")],
                   [Field("flag", "boolean") EXCEPT !.default = [kind |-> "boolean", val |-> "true"]],
                   [Field("size", "number") EXCEPT !.default = [kind |-> "number", val |-> "3"]]>>,
    !.network = <<[kind |-> "configured_base_url", field |-> "url"]>>,
    !.fileAccess = <<[kind |-> "configured_source", field |-> "share"]>>]
Spoilt == {
    Rich, [Rich EXCEPT !.version = "other"], [Rich EXCEPT !.id = "Bad Name"], [Rich EXCEPT !.name = "blank"], [Rich EXCEPT !.about = "long"],
    [Rich EXCEPT !.runtime = "http"], [Rich EXCEPT !.run = << >>], [Rich EXCEPT !.run = <<"bin", "other">>], [Rich EXCEPT !.commands = << >>],
    [Rich EXCEPT !.commands[2].id = "chat"], [Rich EXCEPT !.commands[1].timeout = 0], [Rich EXCEPT !.commands[1].timeout = 301],
    [Rich EXCEPT !.commands[1].mode = "stream"], [Rich EXCEPT !.commands[1].output = <<"..", "out.json">>],
    [Rich EXCEPT !.slashes[1].command = "/notes"], [Rich EXCEPT !.slashes[1].id = "sing"], [Rich EXCEPT !.slashes = @ \o @],
    [Rich EXCEPT !.schema = <<"config.json">>], [Rich EXCEPT !.secrets = <<"key", "key">>], [Rich EXCEPT !.secrets = <<"key">>],
    [Rich EXCEPT !.settings[1].source = ""], [Rich EXCEPT !.settings[1].source = "smb"], [Rich EXCEPT !.settings[2].type = "text"],
    [Rich EXCEPT !.settings[3].type = "text"], [Rich EXCEPT !.settings[3].key = "share"], [Rich EXCEPT !.settings[3].type = "colour"],
    [Rich EXCEPT !.settings[5].default = Str("c")], [Rich EXCEPT !.settings[5].options[1].kind = "array"],
    [Rich EXCEPT !.settings[6].default = Str("true")], [Rich EXCEPT !.settings[7].options = <<Str("a")>>],
    [Rich EXCEPT !.network[1].kind = "any"], [Rich EXCEPT !.fileAccess[1].field = "url"], [Rich EXCEPT !.events = TRUE]}
Install(m, entries) ==
    Start(<< >>, "admins_only", {[Preview("p1", Pkg(m, 7, TRUE)) EXCEPT !.pkg.entries = entries], Activate("a1", "p1", 7)})
Packages == {Install(H1, z) : z \in Archives} \cup {Install(m, Archive) : m \in Spoilt}

MCScenarios == Imports \cup Settings \cup Invocations \cup Packages
============================================================================

-------------------------- MODULE AssistantScenarios --------------------------
(***************************************************************************)
(* What happens to the assistant in a behaviour.  A scenario names the      *)
(* settings, the notes that exist, and the requests and events that may     *)
(* come, in any order and at any step of the others.                        *)
(***************************************************************************)
EXTENDS TLC

AssistantNotes == {"n1", "n2"}

All == {"notes", "files", "calendar", "homeassistant", "project_docs", "conversations"}

Prompt(n, tool) ==
    [n |-> n, kind |-> "message", session |-> "s1", tool |-> tool, finds |-> <<"n1", "n2">>, close |-> FALSE,
     match |-> "one", picks |-> FALSE, agent |-> TRUE, features |-> All, admin |-> TRUE, plan |-> "",
     planned |-> "", atts |-> {}, dest |-> ""]
Confirm(n, run, yes) ==
    [n |-> n, kind |-> "confirm", run |-> run, approved |-> yes, agent |-> TRUE, features |-> All]
Result(n, run, tool) ==
    [n |-> n, kind |-> "tool-result", run |-> run, tool |-> tool, files |-> {}, missing |-> {}]
Event(n, kind) == [n |-> n, kind |-> kind]
OnSession(kind, s) == [n |-> kind, kind |-> kind, session |-> s]
NoteEvent(k, kind, note) == [k |-> k, n |-> note, kind |-> kind]
Start(enabled, notes, events) == [settings |-> enabled, notes |-> notes, left |-> events]
Restart == Event("restart", "restart")
DeleteSession == OnSession("delete-session", "s1")

Broken(s) == [n |-> s, kind |-> "broken"]
Failing(kind) == Event(kind, kind)

Indexing == {
    Start({"notes"}, {}, {NoteEvent(1, "save", "n1"), NoteEvent(2, "save", "n1"), NoteEvent(3, "delete", "n1"),
                          Event("f1", "fail"), Restart}),
    Start({"notes"}, {"n1"}, {NoteEvent(1, "save", "n1"), NoteEvent(2, "unshare", "n1"), NoteEvent(3, "save", "n2"),
                          [n |-> "set", kind |-> "settings", on |-> {"files"}, off |-> {"notes"}]}),
    Start({"notes"}, {"n1"}, {NoteEvent(1, "save", "n1"), NoteEvent(2, "edited", "n1"), NoteEvent(3, "removed", "n1"),
                          NoteEvent(4, "save", "n1"), Failing("enqueues")}),
    Start({"notes"}, {}, {NoteEvent(1, "save", "n1"), NoteEvent(2, "save", "n1"), NoteEvent(3, "save", "n2"),
                          Broken("n2"), Failing("updates"), Restart}),
    Start({"notes", "calendar"}, {}, {NoteEvent(1, "save", "n1"), NoteEvent(2, "save", "n2"),
                          NoteEvent(3, "calendar-index", ""), Broken("n2"), Event("f1", "fail"), Restart}),
    Start({"calendar"}, {}, {NoteEvent(1, "calendar-index", ""), NoteEvent(2, "calendar-index", ""),
                          Event("f1", "fail"), Event("f2", "fail"), Event("f3", "fail"), Restart}),
    Start({"files", "homeassistant", "project_docs"}, {}, {Prompt("m1", "general"), NoteEvent(1, "changes", "files")}),
    Start({"files", "calendar"}, {}, {Prompt("m1", "general"), Prompt("m2", "general"), Failing("enqueues")})}

\* Actions that the user approves or cancels, twice over.
Approvals(p) == {Confirm("c1", "m1", TRUE), Confirm("c2", "m1", TRUE), Confirm("c3", "m1", FALSE), p, Restart}
Confirming == {
    Start({"notes"}, {"n1", "n2"}, Approvals([Prompt("m1", "notes.append") EXCEPT !.close = TRUE])),
    Start({"notes"}, {}, Approvals(Prompt("m1", "notes.create")) \ {Restart}),
    Start({"files", "conversations"}, {}, {[Prompt("m1", "media.search") EXCEPT !.plan = "confirm"],
        Confirm("c1", "m1", TRUE), [Confirm("c2", "m1", TRUE) EXCEPT !.agent = FALSE], DeleteSession}),
    Start({"files", "conversations"}, {}, {Prompt("m1", "files.create_folder"),
        Confirm("c1", "m1", TRUE), [Confirm("c2", "m1", TRUE) EXCEPT !.features = {}], DeleteSession}),
    Start({"calendar"}, {}, Approvals([Prompt("m1", "calendar.create_event") EXCEPT !.close = TRUE])
        \cup {Result("t1", "m1", "calendar.create_event")}),
    Start({"calendar", "conversations"}, {}, {Prompt("m1", "calendar.create_event"), Result("t1", "m1", "calendar.create_event"),
        Result("t2", "m1", "calendar.create_event"), Result("t3", "m1", "attachments.commit"), DeleteSession}),
    Start({"calendar"}, {}, {[Prompt("m1", "calendar.create_event") EXCEPT !.close = TRUE], Result("t1", "m1", ""),
        Confirm("c1", "m1", TRUE), Confirm("c2", "m1", TRUE), Confirm("c3", "m1", FALSE), Result("t2", "m1", "calendar.create_event")}),
    Start({"notes"}, {"n1", "n2"}, {[Prompt("m1", "notes.append") EXCEPT !.close = TRUE], Result("t1", "m1", ""),
        Confirm("c1", "m1", TRUE), Confirm("c2", "m1", TRUE), Confirm("c3", "m1", FALSE), Failing("requests")}),
    Start({"files"}, {}, {Prompt("m1", "files.create_folder"), Confirm("c1", "m1", TRUE), Confirm("c2", "m1", TRUE),
        Confirm("c3", "m1", TRUE), Result("t1", "m1", ""), Failing("requests")})}

Upload(n) == [Prompt(n, "general") EXCEPT !.atts = {"a", "b"}]
Attaching == {
    Start({"notes"}, {"n1"}, {Upload("m1"), [Prompt("m2", "general") EXCEPT !.dest = "note_attachment"],
        Confirm("c1", "m2", TRUE), [Result("t1", "m2", "attachments.commit") EXCEPT !.files = {"a"}, !.missing = {"b"}],
        [OnSession("discard", "s1") EXCEPT !.n = "d1"] @@ [atts |-> {"a"}], DeleteSession}),
    Start({"notes"}, {"n1", "n2"}, {[Upload("m1") EXCEPT !.dest = "note_attachment", !.close = TRUE],
        Prompt("m2", "general"), Confirm("c1", "m2", TRUE), [Result("t1", "m2", "attachments.commit") EXCEPT !.files = {"a", "b"}],
        [Result("t2", "m2", "attachments.commit") EXCEPT !.missing = {"a"}]}),
    Start({"files"}, {}, {[Upload("m1") EXCEPT !.dest = "smb"], [Prompt("m2", "general") EXCEPT !.close = TRUE],
        Confirm("c1", "m2", TRUE), Result("t1", "m2", "attachments.commit")}),
    Start({"notes"}, {"n1"}, {[Upload("m1") EXCEPT !.dest = "note_attachment"], Confirm("c1", "m1", TRUE),
        [Result("t1", "m1", "attachments.commit") EXCEPT !.files = {"a"}, !.missing = {"b"}], Failing("requests")}),
    Start({}, {}, {[Upload("m1") EXCEPT !.dest = "smb"], [Upload("m2") EXCEPT !.dest = "note_attachment"],
        [OnSession("create-session", "s2") EXCEPT !.n = "cs"], [Prompt("m3", "general") EXCEPT !.session = "s2"]})}

Choice(n) == [Prompt(n, "general") EXCEPT !.picks = TRUE]
Following == {
    Start({"files"}, {}, {[Prompt("m1", "media.search") EXCEPT !.match = "many"], [Choice("m2") EXCEPT !.plan = "seasons"]}),
    Start({"files"}, {}, {[Prompt("m1", "media.search") EXCEPT !.match = "many"], [Choice("m2") EXCEPT !.plan = "direct"],
        Event("e", "tool-error")}),
    Start({"calendar"}, {}, {NoteEvent(1, "calendar-index", ""), [Prompt("m1", "calendar.update_event") EXCEPT !.match = "many"],
        Choice("m2")}),
    Start({"calendar"}, {}, {NoteEvent(1, "calendar-index", ""), [Prompt("m1", "calendar.delete_event") EXCEPT !.match = "many"],
        Choice("m2")}),
    Start({"calendar"}, {}, {NoteEvent(1, "calendar-index", ""), Prompt("m1", "calendar.update_event"),
        Confirm("c1", "m1", TRUE), Result("t1", "m1", "calendar.update_event")}),
    Start({"calendar"}, {}, {NoteEvent(1, "calendar-index", ""), Prompt("m1", "read_only.synthesis")}),
    Start({"files"}, {}, {[Prompt("m1", "files.list_folder") EXCEPT !.match = "many"], Choice("m2")})}

Tools == {"notes.search", "notes.append", "notes.create", "files.search", "files.list_folder", "files.create_folder",
    "calendar.search", "calendar.update_event", "calendar.delete_event", "media.search", "ydownload.command",
    "installed_app.command", "read_only.synthesis", "general"}
Prompting ==
    {Start({TypeOfTool}, {"n1"}, {[Prompt("m1", tool) EXCEPT !.match = m, !.agent = a, !.plan = IF m = "one" THEN "direct" ELSE ""]}) :
        TypeOfTool \in {"notes", "files", "conversations"}, tool \in Tools, m \in {"none", "one"}, a \in BOOLEAN}
    \cup {Start({"notes"}, {}, {[Prompt("m1", "general") EXCEPT !.planned = "notes.create"]})}
    \cup {Start(All, {"n1"}, {[Prompt("m1", "ydownload.command") EXCEPT !.features = {}, !.admin = FALSE]})}

\* The last one leaves the assistant alone.
AssistantStarts == Indexing \cup Confirming \cup Attaching \cup Following \cup Prompting \cup {Start({}, {}, {})}
===============================================================================

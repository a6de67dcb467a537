------------------------------ MODULE MCRecords ------------------------------
(***************************************************************************)
(* The notes of a home with three members, and the assistant of one of them. *)
(* Four parts are checked apart, each with the requests that can disturb    *)
(* it: the notes service and the hub, the attachments, the reconciliation   *)
(* with the agent, and the assistant with its index.  The assistant has     *)
(* its own writes of notes (AssistantIndex), so it needs none of the rest.  *)
(***************************************************************************)
EXTENDS NoteAttachments, HomeSync, TLC

CONSTANT MaxAttempts

VARIABLES
    focus,      \* the part that moves
    jobs, documents, source, settings, worker, owed, adrift, stale, asks,
    sessions, messages, runs, staged, memory, doing, effects, spent, late

assistantVars ==
    <<jobs, documents, source, settings, worker, owed, adrift, stale, asks,
      sessions, messages, runs, staged, memory, doing, effects, spent, late>>

Asked == INSTANCE AssistantScenarios
Assistant == INSTANCE AssistantRuns
    WITH Notes <- Asked!AssistantNotes, Scenarios <- Asked!AssistantStarts, left <- asks

vars == <<noteVars, attVars, homeSyncVars>>

MCIds == {1, 2, 3}
MCNames == [k \in {"", "a.md"} |-> IF k = "" THEN <<"note.md">> ELSE <<"a.md", "a.md-1">>]
MCUserOf == [c1 |-> "owner", c2 |-> "owner", c3 |-> "guest"]
MCSessionOf == [c1 |-> "s1", c2 |-> "s1", c3 |-> "s3"]

Op(id, kind, value) == [id |-> id, kind |-> kind, at |-> 0, value |-> value]
Insert == Op("op1", "text_insert", 0)
Cut == Op("op2", "text_delete", 1)
Swap == Op("op3", "text_replace", 0)
Become == Op("op4", "page_type", "notebook")
MoveTo == Op("op5", "parent_id", "b.md")
Pin == Op("op6", "pinned", TRUE)
Twice == Op("op7", "text_insert", 0)
MCOperations == {Insert, Cut, Swap, Become, MoveTo, Pin, Twice}

\* Requests: n tells them apart, via is the handler.
Req(n, via, user, kind, scope, key) ==
    [n |-> n, via |-> via, user |-> user, kind |-> kind, scope |-> scope, key |-> key]
Http(n, user, kind, scope, key) == Req(n, n, user, kind, scope, key)
Put(n, user, scope, key, expect, type, parent, mcpx) ==
    [expect |-> expect, type |-> type, parent |-> parent, pinned |-> {}, mcpx |-> mcpx]
        @@ Http(n, user, "put", scope, key)
Submit(n, c, scope, key, batch) == [batch |-> batch] @@ Req(n, c, MCUserOf[c], "submit", scope, key)
About(target, r) == [target |-> target] @@ r
Att(a, r) == [att |-> a] @@ r
Open(c) == [n |-> "e0", kind |-> "connect", via |-> c]
Event(n, kind) == [n |-> n, kind |-> kind]

Page(key, owner, home, type) == [NewRow(key, owner, home) EXCEPT !.type = type, !.state.type = type, !.at = 1]
NoShares == [i \in MCIds |-> {}]
Shared == [NoShares EXCEPT ![1] = {"guest"}]
HomeNote == <<Page("a.md", "owner", TRUE, "text")>>
Locked == <<[Page("a.md", "owner", TRUE, "text") EXCEPT !.mcpx = TRUE]>>
Notebook == <<Page("a.md", "owner", FALSE, "text"), Page("b.md", "owner", FALSE, "notebook")>>
GuestNote == <<Page("a.md", "guest", TRUE, "text")>>
HomeBook == <<Page("b.md", "owner", TRUE, "notebook"), [Page("a.md", "owner", TRUE, "text") EXCEPT !.parent = "b.md"]>>
TwoNotes == <<Page("a.md", "owner", FALSE, "text"), Page("b.md", "owner", FALSE, "text")>>

Scenario(f, r, s, online, requests) ==
    [focus |-> f, rows |-> r, shares |-> s, online |-> online, left |-> requests]

MCScenarios == {
    Scenario("notes", HomeNote, Shared, FALSE,
             {Open("c1"), Open("c2"), Submit("r1", "c1", "home", "a.md", <<Insert>>),
              Submit("r2", "c2", "home", "a.md", <<Insert>>), Submit("r3", "c1", "profile", "a.md", <<Swap, Cut>>),
              Req("r4", "c2", "owner", "rename", "home", "a.md")}),
    Scenario("notes", HomeNote, Shared, FALSE,
             {Open("c1"), Open("c2"), Submit("r1", "c1", "home", "a.md", <<Twice, Twice>>),
              Submit("r2", "c2", "home", "a.md", <<Twice, Twice>>), Submit("r3", "c3", "home", "a.md", <<Twice>>),
              Open("c3")}),
    Scenario("notes", Notebook, NoShares, FALSE,
             {Put("r1", "owner", "profile", "a.md", FALSE, "text", {"b.md"}, {}),
              Put("r2", "owner", "profile", "b.md", FALSE, "text", {}, {}), Http("r3", "owner", "delete", "profile", "b.md"),
              Open("c1"), Submit("r4", "c1", "profile", "a.md", <<MoveTo, Pin>>),
              Submit("r5", "c1", "profile", "a.md", <<Become>>)}),
    Scenario("notes", HomeNote, Shared, TRUE,
             {Open("c1"), Open("c2"), Open("c3"), Event("e0", "restart"),
              Req("r1", "c1", "owner", "join", "home", "a.md"), Req("r2", "c2", "owner", "join", "profile", "a.md"),
              Req("r3", "c3", "guest", "join", "home", "a.md"), Req("r4", "c1", "owner", "leave", "home", "a.md"),
              About("guest", Http("r5", "owner", "revoke", "home", "a.md"))}),
    Scenario("notes", Notebook, NoShares, FALSE,
             {About("guest", Http("r1", "owner", "share", "home", "a.md")), About("guest", Http("r2", "owner", "remove", "", "")),
              Http("r3", "owner", "fetch", "profile", "a.md"),
              Put("r3", "owner", "profile", "a.md", TRUE, "text", {}, {}),
              [expect |-> TRUE] @@ Http("r4", "owner", "append", "profile", "a.md"),
              Put("r5", "guest", "home", "a.md", FALSE, "text", {}, {})}),
    Scenario("notes", HomeNote, Shared, FALSE,
             {Open("c1"), Req("r1", "c1", "owner", "fetch", "home", "a.md"),
              [Put("r2", "owner", "home", "a.md", TRUE, "text", {}, {TRUE}) EXCEPT !.via = "c1"],
              Req("r3", "c1", "owner", "delete", "home", "a.md"), Http("r4", "guest", "fetch", "home", "a.md"),
              [expect |-> TRUE] @@ Http("r4", "guest", "append", "home", "a.md")}),
    Scenario("att", HomeNote, Shared, FALSE,
             {Att("f1", Http("r1", "owner", "upload", "home", "a.md")), Att("f2", Http("r2", "guest", "upload", "home", "a.md")),
              Att("f1", Http("r3", "guest", "detach", "home", "a.md")), Event("e0", "restart")}),
    Scenario("att", HomeNote, Shared, FALSE,
             {Att("f1", Http("r1", "owner", "upload", "profile", "a.md")), Att("f1", Http("r2", "owner", "admin", "", "")),
              Att("f1", Http("r3", "owner", "detach", "home", "a.md")),
              Put("r4", "owner", "profile", "a.md", FALSE, "notebook", {""}, {})}),
    Scenario("sync", HomeNote, Shared, TRUE,
             {Put("r1", "guest", "home", "a.md", FALSE, "text", {}, {}), Http("r2", "owner", "delete", "home", "a.md"),
              [key |-> "a.md"] @@ Event("e3", "edit"), Event("e0", "fail")}),
    Scenario("sync", Locked, Shared, FALSE,
             {Put("r1", "owner", "home", "a.md", FALSE, "text", {}, {}), [key |-> "a.md"] @@ Event("e2", "edit"),
              Event("e0", "online"), Event("e0", "offline"), Event("e4", "online")}),
    Scenario("sync", HomeNote, Shared, FALSE,
             {[key |-> "b.md"] @@ Event("e1", "edit"), [key |-> "b.md"] @@ Event("e2", "edit"),
              Event("e0", "online"), Event("e0", "fail"), Http("r1", "owner", "delete", "home", "b.md")}),
    Scenario("sync", HomeNote, Shared, TRUE,
             {Put("r1", "owner", "home", "a.md", FALSE, "text", {}, {}), [key |-> "a.md"] @@ Event("e2", "unlink"),
              Event("e0", "restart"), Event("e0", "online")}),
    Scenario("sync", GuestNote, [NoShares EXCEPT ![1] = {"owner"}], FALSE,
             {[key |-> "a.md"] @@ Event("e1", "edit"), Event("e0", "online")}),
    Scenario("sync", GuestNote, [NoShares EXCEPT ![1] = {"other"}], FALSE,
             {[key |-> "a.md"] @@ Event("e1", "edit"), Event("e0", "online"), Event("e0", "fail"), Event("e0", "offline"),
              Event("e4", "online")}),
    Scenario("sync", HomeBook, [NoShares EXCEPT ![1] = {"guest"}, ![2] = {"guest"}], FALSE,
             {[key |-> "b.md"] @@ Event("e1", "edit"), Event("e0", "online")}),
    Scenario("att", TwoNotes, NoShares, FALSE,
             {Att("f1", Http("r1", "owner", "upload", "profile", "a.md")),
              Put("r2", "owner", "profile", "a.md", FALSE, "notebook", {}, {}),
              Put("r3", "owner", "profile", "b.md", FALSE, "text", {"a.md"}, {})}),
    Scenario("assistant", HomeNote, NoShares, FALSE, {})}

Init ==
    /\ NotesInit /\ AttachmentsInit /\ SyncInit /\ Assistant!Init
    /\ focus \in {s.focus : s \in {t \in Scenarios : t.left = left /\ t.rows = rows}}
    /\ focus = "assistant" <=> asks # {}

Next ==
    \/ NotesWork /\ UNCHANGED <<attVars, homeSyncVars, assistantVars, focus>>
    \/ focus = "notes" /\ Restart /\ UNCHANGED <<attVars, homeSyncVars, assistantVars, focus>>
    \/ focus = "att" /\ AttachmentsNext /\ UNCHANGED <<homeSyncVars, assistantVars, focus>>
    \/ focus = "sync" /\ HomeSyncNext /\ UNCHANGED <<attVars, assistantVars, focus>>
    \/ focus = "assistant" /\ Assistant!Next /\ UNCHANGED <<vars, focus>>

\* The goroutine of a run goes on, the maintenance loop prunes again and again
\* while it has met no error, and files grow old between its runs.
Fairness ==
    /\ WF_vars(focus = "sync" /\ SyncStep /\ UNCHANGED <<attVars, assistantVars, focus>>)
    /\ WF_vars(focus = "att" /\ (pruneStart \/ pruneFile \/ pruneEnd) /\ UNCHANGED <<homeSyncVars, assistantVars, focus>>)
    /\ SF_vars(focus = "att" /\ (\E f \in files : FileAges(f)) /\ UNCHANGED <<homeSyncVars, assistantVars, focus>>)

Spec == Init /\ [][Next]_<<vars, assistantVars, focus>> /\ Fairness /\ Assistant!Fairness
-----------------------------------------------------------------------------
\* Editing together is sound: an operation takes effect in one batch, however
\* often it is submitted, and the hub sends to no closed connection (CloudNotes:
\* OpsAppliedOnce, HubHoldsOpenConnections).
EditingIsShared == OpsAppliedOnce /\ HubHoldsOpenConnections

\* A run of reconcileHomeNotes ends however its commands fail (the deferred
\* Done clears the flag that keeps other runs out), and a file that a stopped
\* upload or a failed delete has left is pruned in the end unless an error
\* ended the maintenance loop (pruneNoteAttachmentFiles, Jobs.Run).
NotesSettle == <>[](~inFlight /\ (prune.pc = "over" \/ \A a \in Attachments : ~Orphan(a)))

\* No approval that comes after an answered one executes the action again, and
\* a run waits for exactly what its pending action is (AssistantRuns:
\* EffectOnce, RunsKeepTheirShape).
RunsActOnce == Assistant!EffectOnce /\ Assistant!RunsKeepTheirShape

\* Once a note's job is completed the index holds the note, unless it changed
\* since in a way that no job reads, and a deleted session has left neither
\* messages nor, without a handler in flight, memory (AssistantIndex,
\* AssistantRuns: IndexFollowsNotes, DeletedSessionLeavesNothing).
IndexFollowsSources == Assistant!IndexFollowsNotes /\ Assistant!DeletedSessionLeavesNothing

\* Every index job is worked off, however long one that can never succeed is
\* tried (AssistantIndex).
JobsSettle == Assistant!JobsSettle
==============================================================================

----------------------------- MODULE AssistantRuns -----------------------------
(***************************************************************************)
(* The assistant's conversations: a message is stored, planned or answered  *)
(* by a tool, and recorded as a run that is completed, waits for the user's *)
(* confirmation, or waits for a tool of the user's device.                  *)
(*                                                                         *)
(* Every request handler is a sequence of database statements; doing holds  *)
(* the handlers that are in flight, with what they have read, and a stop of *)
(* the server drops them.  Texts are abstracted to what later prompts read  *)
(* from a message: the kind of its cards, the action it asks to confirm,    *)
(* the question it puts, and whether it asks where attachments belong.      *)
(* What a prompt's words match is part of the request.                      *)
(***************************************************************************)
EXTENDS AssistantIndex

VARIABLES
    sessions,   \* sessions that exist
    messages,   \* session -> sequence of contents with a role
    runs,       \* run -> [session, state, tools, confirm, pending]
    staged,     \* session -> client attachment id -> status
    memory,     \* sessions that have a conversation document
    doing,      \* handlers in flight: request n -> what it has read, and where it is
    effects,    \* history: executions of actions [run, by, after]
    spent,      \* history: runs that a request has settled, with success
    late        \* history: sessions deleted under a handler

runVars == <<sessions, messages, runs, staged, memory, doing, effects, spent, late>>
vars == <<indexVars, runVars, left>>

NoContent == [role |-> "assistant", cards |-> "", ask |-> "", which |-> "", clar |-> "no", note |-> ""]
Cards(kind) == [NoContent EXCEPT !.cards = kind]
Ask(kind, action) == [NoContent EXCEPT !.cards = kind, !.ask = action]
Clarify(dest) == [NoContent EXCEPT !.clar = dest]
Which(kind, question) == [NoContent EXCEPT !.cards = kind, !.which = question]

\* An answer together with what the tool did on the way; a tool that only reads,
\* such as those that report the status of the home, does nothing.
Says(c) == {[c |-> c, effect |-> ""]}
Does(c, what) == {[c |-> c, effect |-> what]}

NoPending == [kind |-> "", note |-> "", atts |-> {}]
DeviceActions == {"calendar_create", "calendar_update", "calendar_delete", "attachment_commit"}
ToolOf(action) ==
    CASE action = "calendar_create" -> "calendar.create_event"
      [] action = "calendar_update" -> "calendar.update_event"
      [] action = "calendar_delete" -> "calendar.delete_event"
      [] action = "attachment_commit" -> "attachments.commit"

\* A confirmation and a tool's result end a run, each clearing its own flag.
Confirmed(run) == [run EXCEPT !.state = "completed", !.confirm = FALSE, !.pending = NoPending]
Resulted(run) == [run EXCEPT !.state = "completed", !.tools = FALSE, !.pending = NoPending]

\* The handler h continues at pc, or ends.
At(n, pc) == n \in DOMAIN doing /\ doing[n].pc = pc
Goes(n, h) == doing' = [m \in DOMAIN doing \cup {n} |-> IF m = n THEN h ELSE doing[m]]
Ends(n) == doing' = [m \in DOMAIN doing \ {n} |-> doing[m]]
InFlight(s) == {n \in DOMAIN doing : doing[n].session = s}
-----------------------------------------------------------------------------
(***************************************************************************)
(* What the tools read.                                                     *)
(***************************************************************************)
assistantVisibleNotes(h) ==
    IF "notes" \in h.settings THEN {n \in Notes : source[n].ver > 0 /\ source[n].state = "live"} ELSE {}

\* The notes that the prompt's words match, best first.
rankScoredNotes(h) == SelectSeq(h.req.finds, LAMBDA n : n \in assistantVisibleNotes(h))

\* The second one is about as good as the first.
needsNoteAppendConfirmation(h, ranked) == Len(ranked) > 1 /\ h.req.close

replies(s) == {i \in DOMAIN messages[s] : messages[s][i].role = "assistant"}
latest(s, found) == IF found = {} THEN NoContent ELSE messages[s][CHOOSE i \in found : \A j \in found : j <= i]

latestAssistantCards(s, kind) == latest(s, {i \in replies(s) : messages[s][i].cards = kind})
latestMediaCards(s) == latestAssistantCards(s, "media")
latestAttachmentClarificationDestination(s) ==
    LET c == latest(s, {i \in replies(s) : messages[s][i].clar # "no"}) IN IF c.clar = "no" THEN "" ELSE c.clar

\* The prompt names one of the cards that were shown.
selectAssistantCard(h) == h.req.picks

\* A tool answers in words unless the user has enabled its source; most need a
\* permission of the home as well, and those of the agent's apps an admin.
Enabled(h, type, answers) == IF type \in h.settings THEN answers ELSE Says(NoContent)
requireHomeFeature(h, feature, answers) == IF feature \in h.req.features THEN answers ELSE Says(NoContent)
Gated(h, type, answers) == Enabled(h, type, requireHomeFeature(h, type, answers))
Admin(h, answers) == IF h.req.admin THEN answers ELSE Says(NoContent)

\* A command to the agent is answered, or fails in one of many ways.
sendAgentCommand(h, answers) == IF h.req.agent THEN answers ELSE Says(NoContent)

Match(h, one, many) ==
    CASE h.req.match = "none" -> Says(NoContent) [] h.req.match = "one" -> one [] OTHER -> many
-----------------------------------------------------------------------------
(***************************************************************************)
(* The tools that act, ask, or show what a later prompt may pick.  The      *)
(* others only read, and no prompt looks at their answers again: Execute    *)
(* lets them answer in words.                                               *)
(***************************************************************************)
answerNoteCreatePrompt(h) == Says(IF h.req.match = "none" THEN NoContent ELSE Ask("", "note_create"))

\* The prompt says both what to append and to which note.
extractAppendIntent(h) == h.req.match # "none"

answerAppendNotePrompt(h) ==
    LET ranked == rankScoredNotes(h) IN
    IF ~extractAppendIntent(h) \/ ranked = <<>> THEN Says(NoContent)
    ELSE IF needsNoteAppendConfirmation(h, ranked)
         THEN Says([Ask("note", "note_append") EXCEPT !.note = ranked[1]])
         ELSE Does([NoContent EXCEPT !.note = ranked[1]], "append")

searchFiles(h) == sendAgentCommand(h, Match(h, Says(Cards("file")), Says(Cards("file"))))

\* The index answers before the agent is asked.
answerFilePrompt(h) ==
    IF "files" \in DOMAIN documents /\ h.req.match # "none" THEN Says(Cards("file")) ELSE searchFiles(h)

answerResolvedFileListFolder(h) == sendAgentCommand(h, Says(Cards("file")))

\* Folders come from the index alone; without one the files are searched.
resolveAssistantFileDirectory(h) ==
    IF "files" \in DOMAIN documents THEN h.req.match
    ELSE IF h.req.agent /\ h.req.match = "one" THEN "one" ELSE "none"

answerFileListFolderPrompt(h) ==
    LET found == resolveAssistantFileDirectory(h) IN
    CASE found = "one" -> answerResolvedFileListFolder(h)
      [] found = "many" -> Says(Which("file", "list"))
      [] OTHER -> Says(NoContent)

answerFileCreateFolderPrompt(h) == Says(IF h.req.match = "none" THEN NoContent ELSE Ask("", "file_create_folder"))

\* The uploaded snapshot of the device's calendar.
matchingCalendarEntries(h) == IF source["calendar"].ver = 1 THEN "none" ELSE h.req.match

answerCalendarSearchPrompt(h) == Says(IF matchingCalendarEntries(h) = "none" THEN NoContent ELSE Cards("calendar"))

\* What the index finds may be entries of the calendar as well, and so may the
\* answer that combines them with the snapshot.
answerRetrievedPrompt(h) ==
    Says(NoContent) \cup (IF "calendar" \in DOMAIN documents \cap h.settings THEN Says(Cards("calendar")) ELSE {})
executeAssistantReadOnlySynthesisTool(h) ==
    answerRetrievedPrompt(h) \cup Enabled(h, "calendar", answerCalendarSearchPrompt(h))

\* Without a new time or title the assistant asks for one.
calendarUpdateContentForEntry(h) == Says(IF h.req.close THEN NoContent ELSE Ask("calendar", "calendar_update"))
calendarDeleteContentForEntry(h) == Says(Ask("calendar", "calendar_delete"))

CalendarMatch(h, one, action) ==
    CASE matchingCalendarEntries(h) = "none" -> Says(NoContent)
      [] matchingCalendarEntries(h) = "many" -> Says(Which("calendar", action))
      [] OTHER -> one
answerCalendarUpdatePrompt(h) == CalendarMatch(h, calendarUpdateContentForEntry(h), "update")
answerCalendarDeletePrompt(h) == CalendarMatch(h, calendarDeleteContentForEntry(h), "delete")

\* The media app of the agent answers.
sendMediaCommand(h) == h.req.agent

startMediaDownload(h) == IF sendMediaCommand(h) THEN Does(NoContent, "media") ELSE Says(NoContent)

planMediaDownload(h) == IF sendMediaCommand(h) THEN h.req.plan ELSE "none"

answerMediaSelection(h) ==
    CASE planMediaDownload(h) = "none" -> Says(NoContent)
      [] planMediaDownload(h) = "seasons" -> Says(Cards("media"))
      [] planMediaDownload(h) = "confirm" -> Says(Ask("media", "media_download"))
      [] planMediaDownload(h) = "direct" -> startMediaDownload(h)

assistantContentFromMediaSearchResponse(h) == Match(h, answerMediaSelection(h), Says(Cards("media")))
answerMediaSearch(h) == IF sendMediaCommand(h) THEN assistantContentFromMediaSearchResponse(h) ELSE Says(NoContent)

answerYDownloadAppPrompt(h) == sendAgentCommand(h, Does(NoContent, "download"))
answerGenericInstalledAppPrompt(h) == sendAgentCommand(h,
    IF h.req.plan # "" THEN assistantContentFromMediaSearchResponse(h) ELSE Does(NoContent, "app"))

Execute(h, tool) ==
    CASE tool = "notes.append" -> Gated(h, "notes", answerAppendNotePrompt(h))
      [] tool = "notes.create" -> Gated(h, "notes", answerNoteCreatePrompt(h))
      [] tool = "files.search" -> Gated(h, "files", answerFilePrompt(h))
      [] tool = "files.list_folder" -> Gated(h, "files", answerFileListFolderPrompt(h))
      [] tool = "files.create_folder" -> Gated(h, "files", answerFileCreateFolderPrompt(h))
      [] tool = "calendar.search" -> Enabled(h, "calendar", answerCalendarSearchPrompt(h))
      [] tool = "calendar.update_event" -> Enabled(h, "calendar", answerCalendarUpdatePrompt(h))
      [] tool = "calendar.delete_event" -> Enabled(h, "calendar", answerCalendarDeletePrompt(h))
      [] tool = "media.search" -> Gated(h, "files", answerMediaSearch(h))
      [] tool = "media.selection" -> Gated(h, "files", answerMediaSelection(h))
      [] tool = "ydownload.command" -> Admin(h, Gated(h, "files", answerYDownloadAppPrompt(h)))
      [] tool = "installed_app.command" -> Admin(h, answerGenericInstalledAppPrompt(h))
      [] tool = "read_only.synthesis" -> executeAssistantReadOnlySynthesisTool(h)
      [] tool = "general" -> answerRetrievedPrompt(h)
      [] OTHER -> Says(NoContent)
-----------------------------------------------------------------------------
(***************************************************************************)
(* A message: what is read first, the user's message, the attachments.      *)
(***************************************************************************)
reusableAssistantAttachments(s, r) ==
    LET clarification == latestAttachmentClarificationDestination(s)
        destination == IF r.dest # "" THEN r.dest ELSE clarification
    IN  IF destination = "" THEN [atts |-> {}, dest |-> ""]
        ELSE [atts |-> {a \in DOMAIN staged[s] : staged[s][a] = "staged"}, dest |-> destination]

handleAssistantSessionMessages ==
    /\ \E r \in left :
         /\ Happens(r, "message")
         /\ IF r.session \in sessions
            THEN LET reuse == IF r.atts = {} THEN reusableAssistantAttachments(r.session, r)
                              ELSE [atts |-> r.atts, dest |-> ""]
                 IN  Goes(r.n, [req |-> r, pc |-> "post", session |-> r.session, settings |-> settings,
                                atts |-> reuse.atts, dest |-> reuse.dest, id |-> r.n,
                                content |-> NoContent, run |-> NoPending, after |-> FALSE])
            ELSE UNCHANGED doing
    /\ UNCHANGED <<indexVars, sessions, messages, runs, staged, memory, effects, spent, late>>

\* A row of a session that was deleted meanwhile is refused.
persistAssistantMessage(s, c) ==
    /\ s \in sessions
    /\ messages' = [messages EXCEPT ![s] = Append(@, c)]

PostsUserMessage(n) ==
    LET h == doing[n] IN
    /\ At(n, "post")
    /\ \/ /\ persistAssistantMessage(h.session, [NoContent EXCEPT !.role = "user"])
          /\ Goes(n, [h EXCEPT !.pc = IF h.atts = {} THEN "plan" ELSE "stage"])
       \/ h.session \notin sessions /\ Ends(n) /\ UNCHANGED messages
    /\ UNCHANGED <<indexVars, sessions, runs, staged, memory, effects, spent, late, left>>

\* Known attachments become staged again, whatever became of them.
UpsertAssistantAttachments(s, atts) ==
    staged' = [staged EXCEPT ![s] = [a \in DOMAIN @ \cup atts |-> IF a \in atts THEN "staged" ELSE @[a]]]

persistAssistantAttachments(n) ==
    LET h == doing[n] IN
    /\ At(n, "stage")
    /\ \/ /\ h.session \in sessions
          /\ UpsertAssistantAttachments(h.session, h.atts)
          /\ Goes(n, [h EXCEPT !.pc = "plan"])
       \/ h.session \notin sessions /\ Ends(n) /\ UNCHANGED staged
    /\ UNCHANGED <<indexVars, sessions, messages, runs, memory, effects, spent, late, left>>
-----------------------------------------------------------------------------
(***************************************************************************)
(* Planning: attachments first, then a new calendar event, then the tools.  *)
(***************************************************************************)
resolveAssistantSMBTargetPath(h) ==
    IF h.req.close THEN "one" ELSE IF "files" \in DOMAIN documents THEN h.req.match ELSE "none"

PlansNoteAttachment(h) ==
    LET ranked == rankScoredNotes(h) IN
    IF "notes" \notin h.settings THEN NoContent
    ELSE IF ranked = <<>> \/ needsNoteAppendConfirmation(h, ranked) THEN Clarify("note_attachment")
    ELSE [Ask("", "attachment_commit") EXCEPT !.note = ranked[1]]

PlansSMBAttachment(h) ==
    IF "files" \notin h.settings THEN NoContent
    ELSE IF resolveAssistantSMBTargetPath(h) # "one" THEN Clarify("smb")
    ELSE Ask("", "attachment_commit")

planAttachmentCommit(h) ==
    LET destination == IF h.req.dest # "" THEN h.req.dest ELSE h.dest IN
    CASE destination = "" -> Clarify("")
      [] destination = "note_attachment" -> PlansNoteAttachment(h)
      [] destination = "smb" -> PlansSMBAttachment(h)

\* The prompt is a new event with a day and a time.
parseCalendarCreateIntent(h) == h.req.tool = "calendar.create_event"

planCalendarTool(h) ==
    IF "calendar" \notin h.settings THEN NoContent
    ELSE IF h.req.close THEN Ask("", "calendar_create") ELSE [NoContent EXCEPT !.ask = "client_tool"]

resolvePreviousMediaSelection(h) == latestMediaCards(h.session).cards = "media" /\ selectAssistantCard(h)

\* A reply to the calendar entries or folders that the assistant showed.
CalendarFollowupAction(h) ==
    LET previous == latestAssistantCards(h.session, "calendar") IN
    CASE previous.cards = "" \/ ~selectAssistantCard(h) -> ""
      [] h.req.tool = "calendar.update_event" -> "update"
      [] h.req.tool = "calendar.delete_event" -> "delete"
      [] OTHER -> previous.which

resolvePreviousCalendarFollowup(h) ==
    IF matchingCalendarEntries(h) = "none" THEN Says(NoContent)
    ELSE IF CalendarFollowupAction(h) = "delete" THEN calendarDeleteContentForEntry(h)
    ELSE calendarUpdateContentForEntry(h)

IsFileFollowup(h) == latestAssistantCards(h.session, "file").which = "list" /\ selectAssistantCard(h)
resolvePreviousFileFollowup(h) == answerResolvedFileListFolder(h)

resolveAssistantToolWithLocalModel(h) ==
    IF h.req.tool = "general" /\ h.req.planned # "" THEN h.req.planned ELSE h.req.tool

resolveAssistantTool(h) ==
    IF resolvePreviousMediaSelection(h) THEN "media.selection" ELSE resolveAssistantToolWithLocalModel(h)

\* The answer, and the snapshots that are enqueued for the index before it.
generateAssistantResponseForSession(h) ==
    IF CalendarFollowupAction(h) # "" /\ ~resolvePreviousMediaSelection(h)
    THEN [answers |-> resolvePreviousCalendarFollowup(h), refresh |-> {}]
    ELSE IF IsFileFollowup(h) THEN [answers |-> resolvePreviousFileFollowup(h), refresh |-> {}]
    ELSE [answers |-> Execute(h, resolveAssistantTool(h)), refresh |-> h.settings]

assistantPendingActionFromContent(h, c) == [kind |-> c.ask, note |-> c.note, atts |-> h.atts]

\* The run that is recorded once the message has been said.
RunFor(h, c) ==
    CASE c.ask = "" -> [session |-> h.session, state |-> "completed", tools |-> FALSE, confirm |-> FALSE,
                        pending |-> NoPending]
      [] c.ask = "client_tool" -> [session |-> h.session, state |-> "waiting_client_tool", tools |-> TRUE,
                        confirm |-> FALSE, pending |-> [NoPending EXCEPT !.kind = "calendar.create_event"]]
      [] OTHER -> [session |-> h.session, state |-> "waiting_confirmation", tools |-> FALSE, confirm |-> TRUE,
                        pending |-> assistantPendingActionFromContent(h, c)]

\* History: the action is executed, for a request that came after another one
\* had settled the run.
Acts(h) == effects' = effects \cup {[run |-> h.id, by |-> h.req.n, after |-> h.after]}

\* A tool appends to the note, or hands the agent a command with an effect.
TakesEffect(h, what, note) ==
    /\ IF what = "" THEN UNCHANGED effects ELSE Acts(h)
    /\ IF what = "append"
       THEN Writes(note, source[note].state)
       ELSE UNCHANGED <<source, owed>>

Planned(h, c) == [h EXCEPT !.content = c, !.run = RunFor(h, c),
                      !.pc = IF c.ask = "client_tool" THEN "row" ELSE "say"]

processAssistantMessageWithAttachments(n) ==
    LET h == doing[n] IN
    /\ At(n, "plan")
    /\ IF h.atts # {} \/ parseCalendarCreateIntent(h)
       THEN /\ Goes(n, Planned(h, IF h.atts # {} THEN planAttachmentCommit(h) ELSE planCalendarTool(h)))
            /\ UNCHANGED <<jobs, adrift, stale, effects, source, owed>>
       ELSE LET g == generateAssistantResponseForSession(h) IN
            \E a \in g.answers :
                /\ Goes(n, Planned(h, a.c))
                /\ refreshAssistantIndex(g.refresh)
                /\ TakesEffect(h, a.effect, a.c.note)
    /\ UNCHANGED <<documents, settings, worker, sessions, messages, runs, staged, memory, spent, late, left>>

\* A tool fails with an error: the user's message stays without an answer.
ToolFails(n) ==
    /\ At(n, "plan")
    /\ \E r \in left : Happens(r, "tool-error")
    /\ Ends(n)
    /\ UNCHANGED <<indexVars, sessions, messages, runs, staged, memory, effects, spent, late>>
-----------------------------------------------------------------------------
(***************************************************************************)
(* The rest of every handler: say it, record the run, remember it.          *)
(***************************************************************************)
SaysAnswer(n) ==
    LET h == doing[n] IN
    /\ At(n, "say")
    /\ \/ persistAssistantMessage(h.session, h.content) /\ Goes(n, [h EXCEPT !.pc = "row"])
       \/ h.session \notin sessions /\ Ends(n) /\ UNCHANGED messages
    /\ UNCHANGED <<indexVars, sessions, runs, staged, memory, effects, spent, late, left>>

CreateAssistantRun(id, run) == runs' = [i \in DOMAIN runs \cup {id} |-> IF i = id THEN run ELSE runs[i]]

\* Mistake: the run is not saved.
UpdateIsLost(id, run) == runs' = runs

\* Writes every column but the message from what was read before.
UpdateAssistantRun(id, run) == runs' = [i \in DOMAIN runs |-> IF i = id THEN run ELSE runs[i]]

RecordsRun(n) ==
    LET h == doing[n] IN
    /\ At(n, "row")
    /\ IF h.req.kind = "message"
       THEN IF h.session \in sessions
            THEN /\ CreateAssistantRun(h.id, h.run)
                 /\ IF h.run.state = "completed" THEN Goes(n, [h EXCEPT !.pc = "touch"]) ELSE Ends(n)
            ELSE UNCHANGED runs /\ Ends(n)
       ELSE /\ UpdateAssistantRun(h.id, IF h.req.kind = "confirm" THEN Confirmed(h.run) ELSE Resulted(h.run))
            /\ Goes(n, [h EXCEPT !.pc = "touch"])
    /\ UNCHANGED <<indexVars, sessions, messages, staged, memory, effects, spent, late, left>>

\* The document is keyed by the session, and not bound to its row.
indexAssistantConversation(s) == memory' = memory \cup {s}

\* The request is answered with success; a run that it settled stays settled.
Answers(n) ==
    /\ spent' = IF doing[n].req.kind = "message" THEN spent ELSE spent \cup {doing[n].id}
    /\ Ends(n)

touchAssistantSessionAndMemory(n) ==
    LET h == doing[n]
        current == IF h.req.kind = "message" THEN h.settings ELSE settings
    IN
    /\ At(n, "touch")
    /\ IF "conversations" \in current THEN indexAssistantConversation(h.session) ELSE UNCHANGED memory
    /\ Answers(n)
    /\ UNCHANGED <<indexVars, sessions, messages, runs, staged, effects, late, left>>
-----------------------------------------------------------------------------
(***************************************************************************)
(* Confirmations, results of the device's tools, and the sessions.          *)
(***************************************************************************)
Reads(r, pc) ==
    [req |-> r, pc |-> pc, session |-> runs[r.run].session, settings |-> settings, atts |-> {}, dest |-> "",
     id |-> r.run, content |-> NoContent, run |-> runs[r.run], after |-> r.run \in spent]

\* A run with nothing pending can be cancelled and not be approved.
handleAssistantConfirm ==
    /\ \E r \in left :
         /\ Happens(r, "confirm")
         /\ IF r.run \in DOMAIN runs /\ runs[r.run].confirm /\ (r.approved => runs[r.run].pending # NoPending)
            THEN Goes(r.n, Reads(r, IF r.approved THEN "act" ELSE "cancel"))
            ELSE UNCHANGED doing
    /\ UNCHANGED <<indexVars, sessions, messages, runs, staged, memory, effects, spent, late>>

CancelsRun(n) ==
    /\ At(n, "cancel")
    /\ UpdateAssistantRun(doing[n].id, Confirmed(doing[n].run))
    /\ Answers(n)
    /\ UNCHANGED <<indexVars, sessions, messages, staged, memory, effects, late, left>>

\* Mistake: the approved run still requires a confirmation.
ArmedStillConfirming(run) == [run EXCEPT !.state = "waiting_client_tool", !.tools = TRUE,
                   !.pending = [NoPending EXCEPT !.kind = ToolOf(run.pending.kind)]]

\* The calendar and the attachments are the device's: the run waits for it.
Armed(run) == [run EXCEPT !.state = "waiting_client_tool", !.confirm = FALSE, !.tools = TRUE,
                   !.pending = [run.pending EXCEPT !.kind = ToolOf(@)]]

ArmsClientTool(n) ==
    LET h == doing[n] IN
    /\ At(n, "act") /\ h.run.pending.kind \in DeviceActions
    /\ UpdateAssistantRun(h.id, Armed(h.run))
    /\ Answers(n)
    /\ UNCHANGED <<indexVars, sessions, messages, staged, memory, effects, late, left>>

NewNote == CHOOSE x \in Notes : source[x].ver = 0

\* A download and a folder need the agent, a folder the permission as well.
AgentAllows(h, kind) ==
    /\ kind \in {"media_download", "file_create_folder"} => h.req.agent
    /\ kind = "file_create_folder" => "files" \in h.req.features

\* What an approval does itself; it is refused when the agent or the
\* permission is missing, and the run then still waits.
executeConfirmedAssistantAction(n) ==
    LET h == doing[n]
        kind == h.run.pending.kind
        note == IF kind = "note_create" THEN NewNote ELSE h.run.pending.note
    IN
    /\ At(n, "act") /\ kind \notin DeviceActions
    /\ IF AgentAllows(h, kind)
       THEN /\ Acts(h)
            /\ CASE kind = "note_append" -> Writes(note, source[note].state)
                 [] kind = "note_create" -> Writes(note, "live")
                 [] OTHER -> UNCHANGED <<source, owed>>
            /\ Goes(n, [h EXCEPT !.pc = "say", !.content = IF kind = "file_create_folder" THEN Cards("file") ELSE NoContent])
       ELSE Ends(n) /\ UNCHANGED <<effects, source, owed>>
    /\ UNCHANGED <<jobs, documents, settings, worker, adrift, stale, sessions, messages, runs, staged, memory, spent, late, left>>

\* The tool that the pending action names; an action that waits for a
\* confirmation names none.
ToolName(run) == IF run.state = "waiting_client_tool" THEN run.pending.kind ELSE ""

\* The state of the run is not looked at, only that something is pending and
\* which tool it names: a result without a tool's name completes a run that
\* waits for a confirmation.
handleAssistantClientToolResults ==
    /\ \E r \in left :
         /\ Happens(r, "tool-result")
         /\ IF r.run \in DOMAIN runs /\ runs[r.run].pending # NoPending /\ ToolName(runs[r.run]) = r.tool
            THEN Goes(r.n, Reads(r, "finalize"))
            ELSE UNCHANGED doing
    /\ UNCHANGED <<indexVars, sessions, messages, runs, staged, memory, effects, spent, late>>

MarkAssistantAttachmentsCommitted(st, atts) == [a \in DOMAIN st |-> IF a \in atts THEN "committed" ELSE st[a]]

MarkAssistantAttachmentsExpired(st, atts) ==
    [a \in DOMAIN st |-> IF a \in atts /\ st[a] = "staged" THEN "expired" ELSE st[a]]

\* Files that the device stored are committed; those it no longer has expire.
finalizeAssistantAttachmentCommit(st, r) ==
    MarkAssistantAttachmentsExpired(MarkAssistantAttachmentsCommitted(st, r.files), r.missing)

finalizeAssistantClientToolRun(n) ==
    LET h == doing[n] IN
    /\ At(n, "finalize")
    /\ staged' = IF h.req.tool = "attachments.commit"
                 THEN [staged EXCEPT ![h.session] = finalizeAssistantAttachmentCommit(@, h.req)]
                 ELSE staged
    /\ Goes(n, [h EXCEPT !.pc = "say",
                    !.content = CASE h.req.tool = "" -> NoContent
                                  [] h.req.tool = "attachments.commit" ->
                                        IF h.run.pending.note = "" THEN Cards("file") ELSE NoContent
                                  [] OTHER -> Cards("calendar")])
    /\ UNCHANGED <<indexVars, sessions, messages, runs, memory, effects, spent, late, left>>

\* A statement fails, the client goes away or the agent's answer is lost: the
\* handler ends where it is.  The agent may have acted, and of the marks of a
\* result the first ones may have been stored; the run is as it was.
RequestFails(n) ==
    LET h == doing[n] IN
    /\ Unreliable("requests") /\ h.pc # "plan"
    /\ Ends(n)
    /\ \/ /\ h.pc = "act" /\ h.run.pending.kind \in {"media_download", "file_create_folder"} /\ AgentAllows(h, h.run.pending.kind)
          /\ Acts(h) /\ UNCHANGED staged
       \/ /\ h.pc = "finalize" /\ h.req.tool = "attachments.commit"
          /\ staged' = [staged EXCEPT ![h.session] = MarkAssistantAttachmentsCommitted(@, h.req.files)]
          /\ UNCHANGED effects
       \/ UNCHANGED <<effects, staged>>
    /\ UNCHANGED <<indexVars, sessions, messages, runs, memory, spent, late, left>>

handleAssistantAttachmentDiscard ==
    /\ \E r \in left :
         /\ Happens(r, "discard")
         /\ staged' = IF r.session \in sessions
                      THEN [staged EXCEPT ![r.session] = MarkAssistantAttachmentsExpired(@, r.atts)] ELSE staged
    /\ UNCHANGED <<indexVars, sessions, messages, runs, memory, doing, effects, spent, late>>

handleAssistantSessions ==
    /\ \E r \in left : Happens(r, "create-session") /\ sessions' = sessions \cup {r.session}
    /\ UNCHANGED <<indexVars, messages, runs, staged, memory, doing, effects, spent, late>>

\* Mistake: the conversation stays in the index.
DeleteKeepingMemory(s) ==
    /\ sessions' = sessions \ {s}
    /\ messages' = [messages EXCEPT ![s] = <<>>]
    /\ runs' = [i \in {j \in DOMAIN runs : runs[j].session # s} |-> runs[i]]
    /\ staged' = [staged EXCEPT ![s] = <<>>]
    /\ memory' = memory

\* One transaction.
DeleteAssistantSession(s) ==
    /\ sessions' = sessions \ {s}
    /\ messages' = [messages EXCEPT ![s] = <<>>]
    /\ runs' = [i \in {j \in DOMAIN runs : runs[j].session # s} |-> runs[i]]
    /\ staged' = [staged EXCEPT ![s] = <<>>]
    /\ memory' = memory \ {s}

handleAssistantSession ==
    /\ \E r \in left :
         /\ Happens(r, "delete-session")
         /\ r.session \in sessions
         /\ DeleteAssistantSession(r.session)
         /\ late' = IF InFlight(r.session) # {} THEN late \cup {r.session} ELSE late
    /\ UNCHANGED <<indexVars, doing, effects, spent>>

ServerRestarts ==
    /\ \E r \in left : Happens(r, "restart")
    /\ RestartIndex
    /\ doing' = <<>>
    /\ UNCHANGED <<sessions, messages, runs, staged, memory, effects, spent, late>>
-----------------------------------------------------------------------------
AllSessions == {"s1", "s2"}

Init ==
    /\ IndexInit
    /\ sessions = {"s1"}
    /\ messages = [s \in AllSessions |-> <<>>] /\ runs = <<>> /\ staged = [s \in AllSessions |-> <<>>]
    /\ memory = {} /\ doing = <<>> /\ effects = {} /\ spent = {} /\ late = {}

HandlerStep(n) ==
    \/ PostsUserMessage(n)
    \/ persistAssistantAttachments(n)
    \/ processAssistantMessageWithAttachments(n)
    \/ ToolFails(n)
    \/ SaysAnswer(n)
    \/ RecordsRun(n)
    \/ touchAssistantSessionAndMemory(n)
    \/ CancelsRun(n)
    \/ ArmsClientTool(n)
    \/ executeConfirmedAssistantAction(n)
    \/ finalizeAssistantClientToolRun(n)
    \/ RequestFails(n)

Next ==
    \/ IndexWork /\ UNCHANGED runVars
    \/ handleAssistantSessionMessages
    \/ handleAssistantConfirm
    \/ handleAssistantClientToolResults
    \/ handleAssistantAttachmentDiscard
    \/ handleAssistantSessions
    \/ handleAssistantSession
    \/ \E n \in DOMAIN doing : HandlerStep(n)
    \/ ServerRestarts

(***************************************************************************)
(* The worker's loop and the clock go on, and a handler that wrote a note   *)
(* goes on to enqueue its job.  Requests may or may not come.               *)
(***************************************************************************)
Fairness ==
    /\ WF_vars((ClaimAssistantIndexJob \/ processAssistantIndexJob \/ WritesDocument \/ Completes) /\ UNCHANGED runVars)
    /\ \A s \in Sources : WF_vars(RunAfterPasses(s) /\ UNCHANGED runVars)
    /\ WF_vars((\E s \in owed : enqueueAssistantIndexJob(s)) /\ UNCHANGED runVars)

Spec == Init /\ [][Next]_vars /\ Fairness
-----------------------------------------------------------------------------
(***************************************************************************)
(* Once an approval, a cancellation or a device's result was answered with  *)
(* success, no approval that comes later executes the action: neither       *)
(* requests that were under way meanwhile, writing back the run as they     *)
(* read it, nor errors and stops bring the question back.  Approvals that   *)
(* overlap, or that repeat one that got no answer, may each execute it.     *)
(***************************************************************************)
EffectOnce == \A e \in effects : ~e.after

(***************************************************************************)
(* A run waits for exactly what its pending action is: the stale copies     *)
(* that approvals, cancellations and tool results write back never leave a  *)
(* waiting run with nothing to do, or a completed run with something        *)
(* pending.  (A completed run may still require a confirmation, when a      *)
(* result without a tool's name completed it; it cannot be approved.)       *)
(***************************************************************************)
RunsKeepTheirShape ==
    \A i \in DOMAIN runs :
        /\ runs[i].session \in sessions
        /\ runs[i].state = "waiting_confirmation" => runs[i].confirm
        /\ runs[i].confirm => runs[i].state # "waiting_client_tool"
        /\ runs[i].tools <=> runs[i].state = "waiting_client_tool"
        /\ runs[i].state = "completed" <=> runs[i].pending = NoPending
        /\ runs[i].tools => \E k \in DeviceActions : runs[i].pending.kind = ToolOf(k)

(***************************************************************************)
(* A deleted session leaves nothing behind: no message, run or attachment   *)
(* even of the handlers that it was deleted under, and no searchable copy   *)
(* of the conversation unless there was such a handler.                     *)
(***************************************************************************)
DeletedSessionLeavesNothing ==
    \A s \in AllSessions \ sessions :
        /\ messages[s] = <<>> /\ staged[s] = <<>>
        /\ \A i \in DOMAIN runs : runs[i].session # s
        /\ s \in memory => s \in late
===============================================================================

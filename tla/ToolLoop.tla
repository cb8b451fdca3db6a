------------------------------- MODULE ToolLoop -------------------------------
(***************************************************************************)
(* processTicket (src/cmd/agent/run.go) and the conversation with the      *)
(* model inside it (llm.go): one ticket from its acknowledgement to the    *)
(* completion comment, with the tools the model calls in the checkout and  *)
(* the progress updates posted under the acknowledgement.                  *)
(*                                                                         *)
(* The model is free: it may ask for any tools, known or not, with         *)
(* arguments that decode or not, and stop whenever it likes.  A request to *)
(* the server may fail, and then may or may not have been carried out.  A  *)
(* kill leaves the state as it is, so every prefix of a behaviour is one.  *)
(***************************************************************************)
EXTENDS Naturals, SequencesExt

CONSTANTS
  Root,      \* the checkout, as a sequence of path components
  Calls,     \* tool calls the model can make: [tool, path, decodes, shown]
  Contents,  \* texts the model can send: [text, blocks]
  MaxCalls,  \* bound: tool calls in one reply
  MaxIter    \* --max-iter

(* A call's shown says of which updates, tool_call or tool_result, the text  *)
(* still has the whole path after truncateForUpdate: of the arguments it     *)
(* keeps 1200 bytes, of the result 2000.                                     *)

ASSUME BoundsType == MaxIter \in Nat \ {0} /\ MaxCalls \in Nat \ {0}
None  == ""   \* no text, no call
Blank == [text |-> None, blocks |-> <<>>]

ASSUME ContentsType ==
  Blank \in Contents /\ \A c \in Contents : c.blocks \in Seq(STRING)

VARIABLES
  backend,   \* state.Mode
  collab,    \* --mode, as given on the command line
  pc,        \* progress of processTicket
  round,     \* replies received in the loop
  messages,  \* the conversation after the two opening messages
  calls,     \* the tool calls of the last reply
  index,     \* the one being worked on
  result,    \* what it returned
  last,      \* lastContent
  final,     \* the loop has got its answer
  answer,    \* the answer it returns
  todo,      \* updates that are left to post before it returns
  updates,   \* server: updates stored under the acknowledgement
  comments,  \* server: comments stored on the ticket
  files      \* files the tools have changed, with the call and its result

setting == <<backend, collab>>
loop    == <<round, messages, calls, index, result, last, final, answer>>
server  == <<updates, comments>>
vars    == <<setting, pc, loop, todo, server, files>>

Results == {"none", "unparsed", "unknown", "blocked", "error", "ok"}

\* A progress update: its kind, and the call and text it carries.
Update(kind, call, text) == [kind |-> kind, call |-> call, text |-> text]
Note(kind) == Update(kind, None, None)

\* What an update shows of a call; a path that is cut off is empty.
Shown(c, fits) == [tool |-> c.tool, path |-> IF fits THEN c.path ELSE <<>>]

Comment(kind, text) == [kind |-> kind, text |-> text]

TypeOK ==
  /\ backend \in {"lmstudio", "test-counter"}
  /\ collab \in {"default", "plan", "other"}
  /\ pc \in {"ack", "repository", "start", "count", "request", "announce",
             "execute", "report", "reply", "finalize", "complete", "error",
             "ended"}
  /\ round \in 0..MaxIter
  /\ \A k \in DOMAIN messages :
       messages[k].role = "assistant" => messages[k].calls \in Seq(Calls)
  /\ calls \in Seq(Calls) /\ index \in 0..MaxCalls
  /\ result \in Results
  /\ {last, answer} \subseteq Contents
  /\ final \in BOOLEAN
  /\ \A k \in DOMAIN comments : comments[k].kind \in {"ack", "completion"}

Init ==
  /\ backend \in {"lmstudio", "test-counter"}
  /\ collab \in {"default", "plan", "other"}
  /\ pc = "ack" /\ round = 0 /\ messages = <<>>
  /\ calls = <<>> /\ index = 0 /\ result = "none"
  /\ last = Blank /\ final = FALSE /\ answer = Blank /\ todo = <<>>
  /\ updates = <<>> /\ comments = <<>> /\ files = {}

Goto(from, to) == pc = from /\ pc' = to

-----------------------------------------------------------------------------
(* Requests to the server.                                                 *)

\* createTicketCommentUpdate: on success the run goes on; on failure, with or
\* without the update stored, it goes to onError.
PostUpdate(u, onOk, onError) ==
  /\ \/ updates' = Append(updates, u) /\ pc' \in {onOk, onError}
     \/ UNCHANGED updates /\ pc' = onError
  /\ UNCHANGED comments

\* createTicketComment, likewise.
PostComment(c, onOk, onError) ==
  /\ \/ comments' = Append(comments, c) /\ pc' \in {onOk, onError}
     \/ UNCHANGED comments /\ pc' = onError
  /\ UNCHANGED updates

Acknowledge ==
  /\ pc = "ack"
  /\ PostComment(Comment("ack", None), "repository", "ended")
  /\ UNCHANGED <<setting, loop, todo, files>>

\* getRepository and prepareTicketWorkspaceForRun; the checkout is fresh.
PrepareWorkspace ==
  /\ pc = "repository"
  /\ pc' \in {IF backend = "test-counter" THEN "count" ELSE "start", "error"}
  /\ todo' = IF backend = "test-counter"
             THEN [i \in 1..3 |-> Update("test-step", None, i)] ELSE <<>>
  /\ UNCHANGED <<setting, loop, server, files>>

\* The test-counter backend posts three updates, and stops at the first that
\* fails.
CountStep ==
  /\ pc = "count" /\ todo # <<>>
  /\ todo' = Tail(todo)
  /\ PostUpdate(Head(todo), IF Len(todo) = 1 THEN "finalize" ELSE "count",
                "ended")
  /\ UNCHANGED <<setting, loop, files>>

\* The first update of a run, then resolveCollaborationMode: a mode it does
\* not know ends the run without an agent_error update.
StartProcessing ==
  /\ pc = "start"
  /\ PostUpdate(Note("starting"),
                IF collab = "other" THEN "ended" ELSE "request", "ended")
  /\ UNCHANGED <<setting, loop, todo, files>>

-----------------------------------------------------------------------------
(* Tools.                                                                  *)

ToolReadOnly == {"list_dir", "read_file", "search_text"}
ToolMutating == {"write_file"}

ToolIsMutating(name) == name \notin ToolReadOnly

\* filepath.Clean on an absolute path.
Clean(path) ==
  FoldLeft(LAMBDA dirs, name :
             CASE name = "."                  -> dirs
               [] name = ".." /\ dirs = <<>>  -> dirs
               [] name = ".." /\ dirs # <<>>  -> Front(dirs)
               [] OTHER                       -> Append(dirs, name),
           <<>>, path)

\* The checkout is a cleaned path (prepareTicketWorkspace joins it).
ASSUME RootClean == Root \in Seq(STRING) /\ Clean(Root) = Root

Absolute(path) == path # <<>> /\ Head(path) = "/"
Sandboxed(path) == ~Absolute(path) /\ IsPrefix(Root, Clean(Root \o path))

Returned(r) == result' = r /\ UNCHANGED files

\* A write that fails may have emptied the file before; the checkout itself
\* is a directory and stays one.
WriteFile(c) ==
  LET abs == Clean(Root \o c.path) IN
  \/ \E r \in {"ok", "error"} :
       /\ abs # Root /\ result' = r
       /\ files' = files \union {[file |-> abs, call |-> c, result |-> r]}
  \/ Returned("error")

RunTool(c) ==
  \/ c.tool \notin ToolReadOnly \union ToolMutating /\ Returned("unknown")
  \/ ~Sandboxed(c.path) /\ c.tool \in ToolReadOnly \union ToolMutating
       /\ Returned("error")
  \/ Sandboxed(c.path) /\ c.tool \in ToolReadOnly
       /\ (Returned("ok") \/ Returned("error"))
  \/ Sandboxed(c.path) /\ c.tool \in ToolMutating /\ WriteFile(c)

\* Seeded fault: what could be decoded of the arguments is used.
ExecuteToolCall_Lenient(c) == RunTool(c)

ExecuteToolCall(c) ==
  \/ ~c.decodes /\ Returned("unparsed")
  \/ c.decodes /\ RunTool(c)

-----------------------------------------------------------------------------
(* runLMStudioTicketLoop.                                                  *)

\* Where the loop goes when it has n replies.
\* Seeded fault: it runs once more than --max-iter says.
NextRound_Once(n) == IF n <= MaxIter THEN "request" ELSE "reply"

NextRound(n) == IF n < MaxIter THEN "request" ELSE "reply"

\* The updates that go with an answer: its text, and in plan mode every plan
\* in it that is not blank.
ParseProposedPlans(c) ==
  LET at     == {k \in DOMAIN c.blocks : c.blocks[k] # None}
      nth(i) == CHOOSE k \in at : Cardinality({j \in at : j <= k}) = i
  IN [i \in 1..Cardinality(at) |-> c.blocks[nth(i)]]

AnswerUpdates(c) ==
  LET plans == IF collab = "plan" THEN ParseProposedPlans(c) ELSE <<>> IN
  IF c = Blank THEN <<>>
  ELSE <<Update("assistant", None, c.text)>>
         \o [k \in DOMAIN plans |-> Update("proposed_plan", None, plans[k])]

\* n replies are worked off and c is the last text; at the limit the loop
\* returns it together with an error.
EndRound(n, c) ==
  /\ pc' = NextRound(n)
  /\ IF n < MaxIter THEN UNCHANGED <<todo, answer>>
     ELSE todo' = AnswerUpdates(c) /\ answer' = c

\* The request fails, or what comes back is an error or holds no choice.
ModelFails ==
  /\ Goto("request", "error")
  /\ UNCHANGED <<setting, loop, todo, server, files>>

LastText(c) == IF c = Blank THEN last ELSE c

\* finish_reason "tool_calls", also with no call in the list.
ModelCallsTools(c, cs) ==
  /\ pc = "request"
  /\ round' = round + 1 /\ last' = LastText(c)
  /\ calls' = cs /\ index' = 1
  /\ messages' = Append(messages,
                   [role |-> "assistant", text |-> c.text, calls |-> cs])
  /\ IF cs = <<>> THEN EndRound(round + 1, LastText(c))
     ELSE pc' = "announce" /\ UNCHANGED <<todo, answer>>
  /\ UNCHANGED <<setting, result, final, server, files>>

\* Any other finish_reason ends the loop, whatever calls came with it.
ModelAnswers(c) ==
  /\ Goto("request", "reply")
  /\ round' = round + 1 /\ final' = TRUE
  /\ answer' = LastText(c) /\ todo' = AnswerUpdates(LastText(c))
  /\ UNCHANGED <<setting, messages, calls, index, result, last, server, files>>

Current == calls[index]

\* The update before a call has its name and what fits of its arguments.
Announcement ==
  Update("tool_call", Shown(Current, "tool_call" \in Current.shown), None)

\* Seeded fault: the run goes on when the update could not be posted.
AnnounceCall_BestEffort ==
  /\ pc = "announce"
  /\ PostUpdate(Announcement, "execute", "execute")
  /\ UNCHANGED <<setting, loop, todo, files>>

\* OnToolCall.
AnnounceCall ==
  /\ pc = "announce"
  /\ PostUpdate(Announcement, "execute", "error")
  /\ UNCHANGED <<setting, loop, todo, files>>

\* planModeApprovalFunc; arguments that do not decode are not put to it.
Blocked(c) == collab = "plan" /\ c.decodes /\ ToolIsMutating(c.tool)

\* Executes the current call, unless plan mode blocks it.
ExecuteCall ==
  /\ Goto("execute", "report")
  /\ IF Blocked(Current) THEN Returned("blocked") ELSE ExecuteToolCall(Current)
  /\ UNCHANGED <<setting, round, messages, calls, index, last, final, answer,
                 todo, server>>

\* OnToolResult; with the update stored the result joins the conversation and
\* the loop turns to the next call, or to the model.
Joins(answered) ==
  /\ messages' = IF answered
                 THEN Append(messages, [role |-> "tool", call |-> Current,
                                        result |-> result])
                 ELSE messages
  /\ result' = "none"
  /\ IF index < Len(calls)
     THEN pc' = "announce" /\ index' = index + 1 /\ UNCHANGED <<todo, answer>>
     ELSE EndRound(round, last) /\ UNCHANGED index

\* The update after a call has its result; that of a successful write holds
\* the path.
Report ==
  LET wrote == result = "ok" /\ Current.tool \in ToolMutating IN
  Update("tool_result",
         Shown(Current, wrote /\ "tool_result" \in Current.shown), result)

\* Seeded fault: a blocked call is passed over.
ReportResult_SkipsBlocked ==
  /\ pc = "report"
  /\ \/ /\ updates' = Append(updates, Report)
        /\ Joins(result # "blocked")
     \/ /\ updates' \in {updates, Append(updates, Report)}
        /\ pc' = "error"
        /\ UNCHANGED <<messages, result, index, todo, answer>>
  /\ UNCHANGED <<setting, round, calls, last, final, comments, files>>

ReportResult ==
  /\ pc = "report"
  /\ \/ /\ updates' = Append(updates, Report)
        /\ Joins(TRUE)
     \/ /\ updates' \in {updates, Append(updates, Report)}
        /\ pc' = "error"
        /\ UNCHANGED <<messages, result, index, todo, answer>>
  /\ UNCHANGED <<setting, round, calls, last, final, comments, files>>

\* OnAssistant and OnPlanProposed.
PostAnswer ==
  /\ pc = "reply" /\ todo # <<>>
  /\ todo' = Tail(todo)
  /\ PostUpdate(Head(todo), "reply", "error")
  /\ UNCHANGED <<setting, loop, files>>

\* Seeded fault: the iteration limit is not an error.
ReturnAnswer_NoLimit ==
  /\ todo = <<>> /\ Goto("reply", "finalize")
  /\ UNCHANGED <<setting, loop, todo, server, files>>

\* The loop returns; the iteration limit is an error.
ReturnAnswer ==
  /\ todo = <<>> /\ Goto("reply", IF final THEN "finalize" ELSE "error")
  /\ UNCHANGED <<setting, loop, todo, server, files>>

-----------------------------------------------------------------------------
(* The end of processTicket.                                               *)

FinalizeWorkspace ==
  /\ pc = "finalize" /\ pc' \in {"complete", "error"}
  /\ UNCHANGED <<setting, loop, todo, server, files>>

Complete ==
  /\ pc = "complete"
  /\ PostComment(Comment("completion", answer.text), "ended", "ended")
  /\ UNCHANGED <<setting, loop, todo, files>>

\* The agent_error update; whether it was stored is not looked at.
ReportError ==
  /\ pc = "error"
  /\ PostUpdate(Note("agent_error"), "ended", "ended")
  /\ UNCHANGED <<setting, loop, todo, files>>

CallLists == UNION {[1..n -> Calls] : n \in 0..MaxCalls}

Model ==
  \/ ModelFails
  \/ \E c \in Contents : ModelAnswers(c) \/ \E cs \in CallLists :
                                              ModelCallsTools(c, cs)

Agent ==
  \/ Acknowledge \/ PrepareWorkspace \/ CountStep \/ StartProcessing
  \/ AnnounceCall \/ ExecuteCall \/ ReportResult \/ PostAnswer \/ ReturnAnswer
  \/ FinalizeWorkspace \/ Complete \/ ReportError

Next == Model \/ Agent

Spec == Init /\ [][Next]_vars

-----------------------------------------------------------------------------
(* Properties.                                                             *)

Completed == \E k \in DOMAIN comments : comments[k].kind = "completion"

\* In plan mode no tool changes a file, whatever the model sends as a call's
\* name and arguments: the approval is skipped when the arguments do not
\* decode (llm.go:160-168), and then no tool may run (llm.go:220-223).
PlanModeReadOnly == collab = "plan" => files = {}

\* An update of this kind about a write, and one that names its file.
Tells(u, kind) == u.kind = kind /\ u.call.tool = "write_file"
Names(u, kind, file) ==
  /\ Tells(u, kind) /\ u.call.path # <<>>
  /\ Clean(Root \o u.call.path) = file

\* A reader of the ticket learns of a write no later than it happens, even
\* when the run ends on an update that failed (llm.go:152-172): for every file
\* changed there is a stored tool_call update of a write_file, which names the
\* file unless truncation cut the path off (run.go:168).  When the model is
\* asked again, or the run has completed, a tool_result update names the file
\* of every write that succeeded, unless it is cut off there (run.go:171).
WritesAnnounced ==
  \A w \in files :
    /\ \E k \in DOMAIN updates :
         /\ Tells(updates[k], "tool_call")
         /\ "tool_call" \in w.call.shown =>
              Names(updates[k], "tool_call", w.file)
    /\ /\ w.result = "ok" /\ "tool_result" \in w.call.shown
       /\ pc = "request" \/ Completed
       => \E k \in DOMAIN updates : Names(updates[k], "tool_result", w.file)

\* Whenever the model is asked, each of its earlier replies is followed by
\* the results of its tool calls, one each and in their order, blocked and
\* failed calls included (llm.go:149-184); a chat endpoint refuses a
\* conversation in which a call has no result.
ConversationAnswered ==
  pc = "request" =>
    \A k \in DOMAIN messages : messages[k].role = "assistant" =>
      LET cs == messages[k].calls IN
      /\ k + Len(cs) <= Len(messages)
      /\ \A j \in DOMAIN cs : /\ messages[k + j].role = "tool"
                              /\ messages[k + j].call = cs[j]
      /\ k + Len(cs) < Len(messages) =>
           messages[k + Len(cs) + 1].role = "assistant"

\* A completion comment of a model run says what the model answered: the model
\* had stopped by itself, the answer and its plans are the last updates under
\* the acknowledgement, and the comment leaves no text the model gave on the
\* way for an empty one (llm.go:186-217, run.go:189-203).
CompletionReportsAnswer ==
  Completed /\ backend = "lmstudio" =>
    /\ final
    /\ Last(comments) = Comment("completion", answer.text)
    /\ IsSuffix(AnswerUpdates(answer), updates)
    /\ answer = Blank => \A k \in DOMAIN messages :
         messages[k].role = "assistant" => messages[k].text = None
=============================================================================

---------------------------- MODULE ToolLoopProofs ----------------------------
(***************************************************************************)
(* The safety of ToolLoop for any model, tools, checkout and limits: what  *)
(* the tools may change, what the server has been told by then, and what   *)
(* the model and the completion comment get to see.                        *)
(***************************************************************************)
EXTENDS ToolLoop, SequenceTheorems, FiniteSetTheorems, TLAPS

-----------------------------------------------------------------------------
(* The inductive invariant.                                                *)

IsSeq(s) == s \in Seq(ToSet(s))

Lists == IsSeq(messages) /\ IsSeq(updates) /\ IsSeq(comments) /\ IsSeq(todo)

Working == pc \in {"announce", "execute", "report"}

\* Where the loop is in its rounds and in the calls of a reply.
Bounded ==
  /\ pc \in {"ack", "repository", "start"} => round = 0 /\ messages = <<>>
  /\ pc = "request" => round < MaxIter
  /\ Len(calls) <= MaxCalls
  /\ Working => index \in 1..Len(calls)

\* A call is executed only after it was announced.
Announced == pc = "execute" => \E k \in DOMAIN updates : updates[k] = Announcement

\* Only a write of the file it names changes a file.
ByWrites ==
  \A w \in files : /\ w.call.tool = "write_file" /\ w.call.path # <<>>
                   /\ w.file = Clean(Root \o w.call.path)

\* Before the change there was an update of its call.
WritesTold ==
  \A w \in files : \E k \in DOMAIN updates :
    /\ Tells(updates[k], "tool_call")
    /\ "tool_call" \in w.call.shown => Names(updates[k], "tool_call", w.file)

\* After it there is one of its result, or that is the next step.
WritesReported ==
  pc \notin {"error", "ended"} \/ Completed =>
    \A w \in files : w.result = "ok" /\ "tool_result" \in w.call.shown =>
      \/ \E k \in DOMAIN updates : Names(updates[k], "tool_result", w.file)
      \/ pc = "report" /\ result = "ok" /\ w.call = Current

\* Within the first n messages of a conversation, reply k has all its results.
Answered(ms, k, n) ==
  LET cs == ms[k].calls IN
  /\ k + Len(cs) <= n
  /\ \A j \in DOMAIN cs : ms[k + j].role = "tool" /\ ms[k + j].call = cs[j]
  /\ k + Len(cs) < n => ms[k + Len(cs) + 1].role = "assistant"

AllAnswered(ms, n) ==
  \A k \in 1..n : ms[k].role = "assistant" => Answered(ms, k, n)

\* The calls at hand are those of the reply at a, and the messages after it
\* are the results of the calls before the current one.
AtReply(a) ==
  /\ a \in 1..Len(messages) /\ Len(messages) = a + index - 1
  /\ messages[a].role = "assistant" /\ messages[a].calls = calls
  /\ AllAnswered(messages, a - 1)
  /\ \A j \in 1..index - 1 : /\ messages[a + j].role = "tool"
                             /\ messages[a + j].call = calls[j]

Conversing ==
  /\ pc = "request" => AllAnswered(messages, Len(messages))
  /\ Working => \E a \in Nat : AtReply(a)

\* The last text is blank only if all texts were; so is the answer.
Texts ==
  /\ last = Blank => \A k \in DOMAIN messages :
       messages[k].role = "assistant" => messages[k].text = None
  /\ pc \in {"ack", "repository", "count"} => last = Blank
  /\ pc \in {"reply", "finalize", "complete"} /\ answer = Blank => last = Blank

\* The answer's updates are posted, or are next.
Posting ==
  /\ pc = "count" => backend = "test-counter"
  /\ pc = "reply" => \E s : IsSeq(s) /\ updates \o todo = s \o AnswerUpdates(answer)
  /\ pc \in {"finalize", "complete"} /\ backend = "lmstudio" =>
       final /\ \E s : IsSeq(s) /\ updates = s \o AnswerUpdates(answer)
  /\ Completed => pc = "ended"

IInv ==
  /\ TypeOK /\ Lists /\ Bounded
  /\ Announced /\ PlanModeReadOnly
  /\ ByWrites /\ WritesTold /\ WritesReported
  /\ Conversing /\ Texts /\ Posting /\ CompletionReportsAnswer

-----------------------------------------------------------------------------
(* Lists.                                                                  *)

\* A list keeps its members when its set of members grows.
LEMMA ListIn ==
  ASSUME NEW S, NEW s \in Seq(S)
  PROVE  /\ IsSeq(s) /\ Len(s) \in Nat /\ DOMAIN s = 1..Len(s)
         /\ \A k \in 1..Len(s) : s[k] \in S
<1>1. Len(s) \in Nat /\ s \in [1..Len(s) -> S]
  OBVIOUS
<1>2. s \in [1..Len(s) -> ToSet(s)]
  BY <1>1 DEF ToSet
<1> QED BY <1>1, <1>2 DEF IsSeq

\* Appending an element.
LEMMA Appended ==
  ASSUME NEW s, IsSeq(s), NEW e
  PROVE  /\ IsSeq(Append(s, e)) /\ Len(s) \in Nat
         /\ Len(Append(s, e)) = Len(s) + 1
         /\ DOMAIN s = 1..Len(s) /\ DOMAIN Append(s, e) = 1..Len(s) + 1
         /\ \A k \in 1..Len(s) : Append(s, e)[k] = s[k]
         /\ Append(s, e)[Len(s) + 1] = e
<1>1. PICK S : S = ToSet(s) \union {e}
  OBVIOUS
<1>2. s \in Seq(S) /\ e \in S
  BY <1>1 DEF IsSeq
<1>3. Append(s, e) \in Seq(S)
  BY <1>2
<1>4. IsSeq(Append(s, e)) /\ DOMAIN s = 1..Len(s) /\ Len(s) \in Nat
      /\ DOMAIN Append(s, e) = 1..Len(Append(s, e))
  BY <1>2, <1>3, ListIn
<1> QED BY <1>2, <1>4

\* Concatenating lists.
LEMMA Joined ==
  ASSUME NEW s, NEW t, IsSeq(s), IsSeq(t)
  PROVE  /\ IsSeq(s \o t) /\ Len(s) \in Nat /\ Len(t) \in Nat
         /\ Len(s \o t) = Len(s) + Len(t)
         /\ \A k \in 1..Len(s) + Len(t) :
              (s \o t)[k] = IF k <= Len(s) THEN s[k] ELSE t[k - Len(s)]
<1>1. PICK S : S = ToSet(s) \union ToSet(t)
  OBVIOUS
<1>2. s \in Seq(S) /\ t \in Seq(S)
  BY <1>1 DEF IsSeq
<1>3. s \o t \in Seq(S)
  BY <1>2
<1>4. IsSeq(s \o t)
  BY <1>3, ListIn
<1> QED BY <1>2, <1>4

\* What is left of a list that was joined to another is its suffix.
LEMMA Suffix ==
  ASSUME NEW s, NEW t, IsSeq(s), IsSeq(t)
  PROVE  IsSuffix(t, s \o t)
<1>1. PICK u, m, n : u = s \o t /\ m = Len(s) /\ n = Len(t)
  OBVIOUS
<1>2. /\ m \in Nat /\ n \in Nat /\ Len(u) = m + n
      /\ \A k \in 1..m + n : u[k] = IF k <= m THEN s[k] ELSE t[k - m]
  BY <1>1, Joined
<1>3. \A k \in 1..n : m + n - k + 1 \in 1..m + n /\ m + n - k + 1 > m
                      /\ (m + n - k + 1) - m = n - k + 1
  BY <1>2
<1>4. \A k \in 1..n : u[m + n - k + 1] = t[n - k + 1]
  BY <1>2, <1>3
<1>5. /\ Reverse(t) = [k \in 1..n |-> t[n - k + 1]]
      /\ Reverse(u) = [k \in 1..m + n |-> u[m + n - k + 1]]
  BY <1>1, <1>2 DEF Reverse
<1>6. Len(Reverse(t)) = n /\ Len(Reverse(u)) = m + n
  BY <1>2, <1>5
<1>7. SubSeq(Reverse(t), 1, n) = SubSeq(Reverse(u), 1, n)
  <2>1. \A k \in 1..n : Reverse(t)[k] = Reverse(u)[k]
    BY <1>2, <1>4, <1>5
  <2> QED BY <1>2, <2>1
<1> QED BY <1>1, <1>2, <1>6, <1>7 DEF IsSuffix, IsPrefix

\* What is left to post after the first.
LEMMA Rest ==
  ASSUME NEW s, NEW t, IsSeq(s), IsSeq(t), t # <<>>
  PROVE  /\ IsSeq(Tail(t)) /\ Append(s, Head(t)) \o Tail(t) = s \o t
<1>1. PICK S : S = ToSet(s) \union ToSet(t)
  OBVIOUS
<1>2. s \in Seq(S) /\ t \in Seq(S)
  BY <1>1 DEF IsSeq
<1>3. Tail(t) \in Seq(S) /\ Head(t) \in S
  BY <1>2
<1>4. IsSeq(Tail(t))
  BY <1>3, ListIn
<1>5. Append(s, Head(t)) \o Tail(t) = s \o t
  BY <1>2, <1>3
<1> QED BY <1>4, <1>5

\* The updates that go with an answer are a list.
LEMMA AnswerUpdatesList == \A c \in Contents : IsSeq(AnswerUpdates(c))
<1> SUFFICES ASSUME NEW c \in Contents PROVE IsSeq(AnswerUpdates(c))
  OBVIOUS
<1>1. ASSUME NEW n \in Nat, NEW f, DOMAIN f = 1..n,
             f = [k \in DOMAIN f |-> f[k]]
      PROVE  IsSeq(f)
  <2>1. f \in [1..n -> {f[k] : k \in DOMAIN f}]
    BY <1>1
  <2> QED BY <2>1 DEF IsSeq, ToSet
<1>2. PICK n \in Nat : DOMAIN ParseProposedPlans(c) = 1..n
  <2>1. PICK at : at = {k \in DOMAIN c.blocks : c.blocks[k] # None}
    OBVIOUS
  <2>2. IsFiniteSet(at)
    <3>1. IsFiniteSet(1..Len(c.blocks)) /\ DOMAIN c.blocks = 1..Len(c.blocks)
      BY ContentsType, FS_Interval
    <3> QED BY <2>1, <3>1, FS_Subset
  <2>3. Cardinality(at) \in Nat
    BY <2>2, FS_CardinalityType
  <2>4. DOMAIN ParseProposedPlans(c) = 1..Cardinality(at)
    BY <2>1 DEF ParseProposedPlans
  <2> QED BY <2>3, <2>4
<1>3. PICK plans : plans = IF collab = "plan" THEN ParseProposedPlans(c) ELSE <<>>
  OBVIOUS
<1>4. PICK m \in Nat : DOMAIN plans = 1..m
  BY <1>2, <1>3
<1>5. IsSeq([k \in DOMAIN plans |-> Update("proposed_plan", None, plans[k])])
  BY <1>1, <1>4
<1>6. IsSeq(<<Update("assistant", None, c.text)>>) /\ IsSeq(<<>>)
  BY DEF IsSeq, ToSet
<1>7. AnswerUpdates(c) = IF c = Blank THEN <<>>
         ELSE <<Update("assistant", None, c.text)>>
                \o [k \in DOMAIN plans |-> Update("proposed_plan", None, plans[k])]
  BY <1>3 DEF AnswerUpdates
<1> QED BY <1>5, <1>6, <1>7, Joined

-----------------------------------------------------------------------------
(* What the steps have in common.                                          *)

\* A list of calls the model may send.
LEMMA CallListsFit ==
  \A cs \in CallLists : /\ cs \in Seq(Calls) /\ Len(cs) <= MaxCalls
                        /\ Len(cs) \in Nat /\ IsSeq(cs) /\ DOMAIN cs = 1..Len(cs)
                        /\ cs # <<>> => Len(cs) > 0
<1> SUFFICES ASSUME NEW n \in 0..MaxCalls, NEW cs \in [1..n -> Calls]
             PROVE  /\ cs \in Seq(Calls) /\ Len(cs) <= MaxCalls
                    /\ Len(cs) \in Nat /\ IsSeq(cs) /\ DOMAIN cs = 1..Len(cs)
                    /\ cs # <<>> => Len(cs) > 0
  BY DEF CallLists
<1>1. n \in Nat /\ MaxCalls \in Nat /\ n <= MaxCalls
  BY BoundsType
<1>2. cs \in Seq(Calls)
  BY <1>1
<1>3. Len(cs) = n
  BY <1>1
<1>4. cs # <<>> => Len(cs) > 0
  BY <1>2
<1> QED BY <1>1, <1>2, <1>3, <1>4, ListIn

\* The lists stay lists.
LEMMA ListsStep ==
  ASSUME TypeOK, Lists, Next
  PROVE  Lists'
<1>0. IsSeq(<<>>)
  BY DEF IsSeq, ToSet
<1>5. \A s, e : IsSeq(s) => IsSeq(Append(s, e))
  BY Appended
<1>1. IsSeq(updates')
  <2>1. updates' = updates \/ \E u : updates' = Append(updates, u)
    BY DEF Next, Model, Agent, ModelFails, ModelAnswers, ModelCallsTools,
           Acknowledge, PrepareWorkspace, CountStep, StartProcessing,
           AnnounceCall, ExecuteCall, ReportResult, PostAnswer, ReturnAnswer,
           FinalizeWorkspace, Complete, ReportError, PostUpdate, PostComment,
           server
  <2> QED BY <1>5, <2>1 DEF Lists
<1>2. IsSeq(comments')
  <2>1. comments' = comments \/ \E c : comments' = Append(comments, c)
    BY DEF Next, Model, Agent, ModelFails, ModelAnswers, ModelCallsTools,
           Acknowledge, PrepareWorkspace, CountStep, StartProcessing,
           AnnounceCall, ExecuteCall, ReportResult, PostAnswer, ReturnAnswer,
           FinalizeWorkspace, Complete, ReportError, PostUpdate, PostComment,
           server
  <2> QED BY <1>5, <2>1 DEF Lists
<1>3. IsSeq(messages')
  <2>1. messages' = messages \/ \E m : messages' = Append(messages, m)
    BY DEF Next, Model, Agent, ModelFails, ModelAnswers, ModelCallsTools,
           Acknowledge, PrepareWorkspace, CountStep, StartProcessing,
           AnnounceCall, ExecuteCall, ReportResult, PostAnswer, ReturnAnswer,
           FinalizeWorkspace, Complete, ReportError, Joins, loop
  <2> QED BY <1>5, <2>1 DEF Lists
<1>4. IsSeq(todo')
  <2>1. PICK three : three = [i \in 1..3 |-> Update("test-step", None, i)]
    OBVIOUS
  <2>2. IsSeq(three)
    BY <2>1 DEF IsSeq, ToSet
  <2>3. \/ todo' = todo \/ todo' = three \/ todo' = <<>>
        \/ todo # <<>> /\ todo' = Tail(todo)
        \/ \E c \in Contents : todo' = AnswerUpdates(c)
    <3>1. last \in Contents /\ \A c \in Contents : LastText(c) \in Contents
      BY DEF TypeOK, LastText
    <3> QED BY <2>1, <3>1
            DEF Next, Model, Agent, ModelFails, ModelAnswers, ModelCallsTools,
                Acknowledge, PrepareWorkspace, CountStep, StartProcessing,
                AnnounceCall, ExecuteCall, ReportResult, PostAnswer,
                ReturnAnswer, FinalizeWorkspace, Complete, ReportError, Joins,
                EndRound
  <2> QED BY <1>0, <2>2, <2>3, AnswerUpdatesList, Rest DEF Lists
<1> QED BY <1>1, <1>2, <1>3, <1>4 DEF Lists

\* Every step keeps the types.
LEMMA TypeStep ==
  ASSUME TypeOK, Lists, Bounded, Next
  PROVE  TypeOK'
<1>1. UNCHANGED setting
  BY DEF Next, Model, Agent, ModelFails, ModelAnswers, ModelCallsTools,
         Acknowledge, PrepareWorkspace, CountStep, StartProcessing,
         AnnounceCall, ExecuteCall, ReportResult, PostAnswer, ReturnAnswer,
         FinalizeWorkspace, Complete, ReportError
<1>2. pc' \in {"ack", "repository", "start", "count", "request", "announce",
               "execute", "report", "reply", "finalize", "complete", "error",
               "ended"}
  BY DEF Next, Model, Agent, ModelFails, ModelAnswers, ModelCallsTools,
         Acknowledge, PrepareWorkspace, CountStep, StartProcessing,
         AnnounceCall, ExecuteCall, ReportResult, PostAnswer, ReturnAnswer,
         FinalizeWorkspace, Complete, ReportError, PostUpdate,
         PostComment, Goto, EndRound, NextRound, Joins, TypeOK
<1>3. round' \in 0..MaxIter
  <2>1. round' = round \/ (pc = "request" /\ round' = round + 1)
    BY DEF Next, Model, Agent, ModelFails, ModelAnswers, ModelCallsTools,
           Acknowledge, PrepareWorkspace, CountStep, StartProcessing,
           AnnounceCall, ExecuteCall, ReportResult, PostAnswer, ReturnAnswer,
           FinalizeWorkspace, Complete, ReportError, loop, Goto
  <2> QED BY <2>1, BoundsType DEF TypeOK, Bounded
<1>4. \A k \in DOMAIN messages' :
        messages'[k].role = "assistant" => messages'[k].calls \in Seq(Calls)
  <2>1. \/ messages' = messages
        \/ \E t, c : messages' = Append(messages,
                       [role |-> "tool", call |-> c, result |-> t])
        \/ \E t : \E cs \in CallLists : messages' = Append(messages,
                       [role |-> "assistant", text |-> t, calls |-> cs])
    BY DEF Next, Model, Agent, ModelFails, ModelAnswers, ModelCallsTools,
           Acknowledge, PrepareWorkspace, CountStep, StartProcessing,
           AnnounceCall, ExecuteCall, ReportResult, PostAnswer, ReturnAnswer,
           FinalizeWorkspace, Complete, ReportError, Joins, loop
  <2>2. ASSUME NEW t, NEW c,
               messages' = Append(messages,
                             [role |-> "tool", call |-> c, result |-> t])
        PROVE  \A k \in DOMAIN messages' : messages'[k].role = "assistant"
                  => messages'[k].calls \in Seq(Calls)
    BY <2>2, Appended DEF Lists, TypeOK
  <2>3. ASSUME NEW t, NEW cs \in CallLists,
               messages' = Append(messages,
                             [role |-> "assistant", text |-> t, calls |-> cs])
        PROVE  \A k \in DOMAIN messages' : messages'[k].role = "assistant"
                  => messages'[k].calls \in Seq(Calls)
    BY <2>3, Appended, CallListsFit DEF Lists, TypeOK
  <2> QED BY <2>1, <2>2, <2>3 DEF TypeOK
<1>5. calls' \in Seq(Calls) /\ index' \in 0..MaxCalls
  <2>1. \/ UNCHANGED <<calls, index>>
        \/ calls' \in CallLists /\ index' = 1
        \/ pc = "report" /\ calls' = calls /\ index' = index + 1
             /\ index < Len(calls)
    BY DEF Next, Model, Agent, ModelFails, ModelAnswers, ModelCallsTools,
           Acknowledge, PrepareWorkspace, CountStep, StartProcessing,
           AnnounceCall, ExecuteCall, ReportResult, PostAnswer, ReturnAnswer,
           FinalizeWorkspace, Complete, ReportError, Joins, loop
  <2>2. 1 \in 0..MaxCalls
    BY BoundsType
  <2>3. pc = "report" /\ index < Len(calls) => index + 1 \in 0..MaxCalls
    BY BoundsType DEF Bounded, TypeOK, Working
  <2> QED BY <2>1, <2>2, <2>3, CallListsFit DEF TypeOK
<1>6. result' \in Results
  BY DEF Next, Model, Agent, ModelFails, ModelAnswers, ModelCallsTools,
         Acknowledge, PrepareWorkspace, CountStep, StartProcessing,
         AnnounceCall, ExecuteCall, ReportResult, PostAnswer, ReturnAnswer,
         FinalizeWorkspace, Complete, ReportError, Joins, loop,
         ExecuteToolCall, RunTool, WriteFile, Returned, Results, TypeOK
<1>7. {last', answer'} \subseteq Contents
  <2>1. {last, answer} \subseteq Contents
    BY DEF TypeOK
  <2>2. \A c \in Contents : LastText(c) \in Contents
    BY <2>1 DEF LastText
  <2>3. last' = last \/ \E c \in Contents : last' = LastText(c)
    BY DEF Next, Model, Agent, ModelFails, ModelAnswers, ModelCallsTools,
           Acknowledge, PrepareWorkspace, CountStep, StartProcessing,
           AnnounceCall, ExecuteCall, ReportResult, PostAnswer, ReturnAnswer,
           FinalizeWorkspace, Complete, ReportError, loop
  <2>4. answer' \in {answer, last} \/ \E c \in Contents : answer' = LastText(c)
    BY DEF Next, Model, Agent, ModelFails, ModelAnswers, ModelCallsTools,
           Acknowledge, PrepareWorkspace, CountStep, StartProcessing,
           AnnounceCall, ExecuteCall, ReportResult, PostAnswer, ReturnAnswer,
           FinalizeWorkspace, Complete, ReportError, loop, Joins, EndRound
  <2> QED BY <2>1, <2>2, <2>3, <2>4
<1>8. final' \in BOOLEAN
  <2>1. final' = final \/ final' = TRUE
    BY DEF Next, Model, Agent, ModelFails, ModelAnswers, ModelCallsTools,
           Acknowledge, PrepareWorkspace, CountStep, StartProcessing,
           AnnounceCall, ExecuteCall, ReportResult, PostAnswer, ReturnAnswer,
           FinalizeWorkspace, Complete, ReportError, loop
  <2> QED BY <2>1 DEF TypeOK
<1>9. \A k \in DOMAIN comments' : comments'[k].kind \in {"ack", "completion"}
  <2>1. \/ comments' = comments
        \/ \E t : comments' = Append(comments, Comment("ack", t))
        \/ \E t : comments' = Append(comments, Comment("completion", t))
    BY DEF Next, Model, Agent, ModelFails, ModelAnswers, ModelCallsTools,
           Acknowledge, PrepareWorkspace, CountStep, StartProcessing,
           AnnounceCall, ExecuteCall, ReportResult, PostAnswer, ReturnAnswer,
           FinalizeWorkspace, Complete, ReportError, server,
           PostUpdate, PostComment
  <2>2. ASSUME NEW t, NEW k \in {"ack", "completion"},
               comments' = Append(comments, Comment(k, t))
        PROVE  \A i \in DOMAIN comments' :
                 comments'[i].kind \in {"ack", "completion"}
    <3>1. Comment(k, t).kind = k
      BY DEF Comment
    <3> QED BY <2>2, <3>1, Appended DEF Lists, TypeOK
  <2> QED BY <2>1, <2>2 DEF TypeOK
<1> QED BY <1>1, <1>2, <1>3, <1>4, <1>5, <1>6, <1>7, <1>8, <1>9
        DEF TypeOK, setting

\* Every step keeps to the limits.
LEMMA BoundedStep ==
  ASSUME TypeOK, Lists, Bounded, Next
  PROVE  Bounded'
<1>1. pc' \in {"ack", "repository", "start"} => round' = 0 /\ messages' = <<>>
  BY DEF Next, Model, Agent, ModelFails, ModelAnswers, ModelCallsTools,
         Acknowledge, PrepareWorkspace, CountStep, StartProcessing,
         AnnounceCall, ExecuteCall, ReportResult, PostAnswer, ReturnAnswer,
         FinalizeWorkspace, Complete, ReportError, PostUpdate,
         PostComment, Goto, EndRound, NextRound, Joins, loop, Bounded
<1>2. pc' = "request" => round' < MaxIter
  <2>1. pc' = "request" => (pc = "start" /\ round' = round)
                             \/ pc' = NextRound(round')
    BY DEF Next, Model, Agent, ModelFails, ModelAnswers, ModelCallsTools,
           Acknowledge, PrepareWorkspace, CountStep, StartProcessing,
           AnnounceCall, ExecuteCall, ReportResult, PostAnswer, ReturnAnswer,
           FinalizeWorkspace, Complete, ReportError, PostUpdate,
           PostComment, Goto, EndRound, Joins, loop
  <2>2. pc' = NextRound(round') /\ pc' = "request" => round' < MaxIter
    BY DEF NextRound
  <2> QED BY <2>1, <2>2, BoundsType DEF Bounded
<1>3. Len(calls') <= MaxCalls
  <2>1. calls' = calls \/ calls' \in CallLists
    BY DEF Next, Model, Agent, ModelFails, ModelAnswers, ModelCallsTools,
           Acknowledge, PrepareWorkspace, CountStep, StartProcessing,
           AnnounceCall, ExecuteCall, ReportResult, PostAnswer, ReturnAnswer,
           FinalizeWorkspace, Complete, ReportError, loop
  <2> QED BY <2>1, CallListsFit DEF Bounded
<1>4. Working' => index' \in 1..Len(calls')
  <2>1. ASSUME NEW c \in Contents, NEW cs \in CallLists, ModelCallsTools(c, cs)
        PROVE  Working' => index' \in 1..Len(calls')
    BY <2>1, CallListsFit DEF ModelCallsTools, EndRound, NextRound, Working
  <2>2. CASE ReportResult
    BY <2>2 DEF ReportResult, Joins, EndRound, NextRound, Working, Bounded,
                TypeOK
  <2>3. CASE AnnounceCall \/ ExecuteCall
    BY <2>3 DEF AnnounceCall, ExecuteCall, PostUpdate, Goto, Working, Bounded,
                loop
  <2>4. CASE \/ ModelFails \/ (\E c \in Contents : ModelAnswers(c))
             \/ Acknowledge \/ PrepareWorkspace \/ CountStep \/ StartProcessing
             \/ PostAnswer \/ ReturnAnswer \/ FinalizeWorkspace \/ Complete
             \/ ReportError
    BY <2>4 DEF ModelFails, ModelAnswers, Acknowledge, PrepareWorkspace,
                CountStep, StartProcessing, PostAnswer, ReturnAnswer,
                FinalizeWorkspace, Complete, ReportError, PostUpdate,
                PostComment, Goto, Working
  <2> QED BY <2>1, <2>2, <2>3, <2>4, Zenon DEF Next, Model, Agent
<1> QED BY <1>1, <1>2, <1>3, <1>4 DEF Bounded

-----------------------------------------------------------------------------
(* What the tools may change.                                              *)

\* A call that is not blocked changes a file only by a write whose arguments
\* decode, and only the file it names.
LEMMA ToolChanges ==
  ASSUME ExecuteCall
  PROVE  \/ UNCHANGED files
         \/ /\ ~Blocked(Current) /\ Current.decodes
            /\ Current.tool = "write_file"
            /\ Clean(Root \o Current.path) # Root
            /\ \E r \in {"ok", "error"} :
                 /\ result' = r
                 /\ files' = files \union {[file |-> Clean(Root \o Current.path),
                                            call |-> Current, result |-> r]}
  BY DEF ExecuteCall, ExecuteToolCall, RunTool, WriteFile, Returned,
         ToolMutating

\* In plan mode no step changes a file.
LEMMA PlanStep ==
  ASSUME PlanModeReadOnly, Next
  PROVE  PlanModeReadOnly'
<1>1. CASE ExecuteCall
  <2>1. UNCHANGED collab
    BY <1>1 DEF ExecuteCall, setting
  <2>2. collab = "plan" /\ Current.decodes /\ Current.tool = "write_file"
          => Blocked(Current)
    BY DEF Blocked, ToolIsMutating, ToolReadOnly
  <2> QED BY <1>1, <2>1, <2>2, ToolChanges DEF PlanModeReadOnly
<1>2. ExecuteCall \/ UNCHANGED <<files, collab>>
  BY DEF Next, Model, Agent, ModelFails, ModelAnswers, ModelCallsTools,
         Acknowledge, PrepareWorkspace, CountStep, StartProcessing,
         AnnounceCall, ExecuteCall, ReportResult, PostAnswer, ReturnAnswer,
         FinalizeWorkspace, Complete, ReportError,
         setting
<1> QED BY <1>1, <1>2 DEF PlanModeReadOnly

\* What was posted stays posted.
LEMMA UpdatesKept ==
  ASSUME Lists, Next
  PROVE  \A k \in DOMAIN updates :
           k \in DOMAIN updates' /\ updates'[k] = updates[k]
<1>1. updates' = updates \/ \E u : updates' = Append(updates, u)
  BY DEF Next, Model, Agent, ModelFails, ModelAnswers, ModelCallsTools,
         Acknowledge, PrepareWorkspace, CountStep, StartProcessing,
         AnnounceCall, ExecuteCall, ReportResult, PostAnswer, ReturnAnswer,
         FinalizeWorkspace, Complete, ReportError,
         PostUpdate, PostComment, server
<1>2. \A u : \A k \in DOMAIN updates :
        k \in DOMAIN Append(updates, u) /\ Append(updates, u)[k] = updates[k]
  <2>1. ASSUME NEW u, NEW k \in DOMAIN updates
        PROVE  k \in DOMAIN Append(updates, u) /\ Append(updates, u)[k] = updates[k]
    BY Appended DEF Lists
  <2> QED BY <2>1
<1> QED BY <1>1, <1>2

\* The call that is executed next has been announced.
LEMMA AnnouncedStep ==
  ASSUME Lists, Announced, Next
  PROVE  Announced'
<1>1. CASE AnnounceCall
  <2>1. UNCHANGED <<calls, index>>
    BY <1>1 DEF AnnounceCall, loop
  <2>2. pc' = "execute" => updates' = Append(updates, Announcement)
    BY <1>1 DEF AnnounceCall, PostUpdate
  <2>3. PICK u : u = Announcement
    OBVIOUS
  <2>4. pc' = "execute" => \E k \in DOMAIN updates' : updates'[k] = u
    BY <2>2, <2>3, Appended DEF Lists
  <2>5. Announcement' = u
    BY <2>1, <2>3 DEF Announcement, Current
  <2> QED BY <2>4, <2>5 DEF Announced
<1>2. AnnounceCall \/ pc' # "execute"
  BY DEF Next, Model, Agent, ModelFails, ModelAnswers, ModelCallsTools,
         Acknowledge, PrepareWorkspace, CountStep, StartProcessing,
         AnnounceCall, ExecuteCall, ReportResult, PostAnswer, ReturnAnswer,
         FinalizeWorkspace, Complete, ReportError,
         PostUpdate, PostComment, Goto, EndRound, NextRound, Joins
<1> QED BY <1>1, <1>2 DEF Announced

\* What a change of a file looks like, and that only ExecuteCall makes one.
LEMMA Changes ==
  ASSUME Next
  PROVE  \/ UNCHANGED files
         \/ /\ ExecuteCall /\ pc = "execute" /\ pc' = "report"
            /\ UNCHANGED <<updates, calls, index, comments>>
            /\ Current.tool = "write_file" /\ Current.path # <<>>
            /\ \E w : /\ files' = files \union {w}
                     /\ w.file = Clean(Root \o Current.path)
                     /\ w.call = Current /\ w.result = result'
<1>1. CASE ExecuteCall
  <2>1. /\ pc = "execute" /\ pc' = "report"
        /\ UNCHANGED <<updates, calls, index, comments>>
    BY <1>1 DEF ExecuteCall, Goto, server
  <2>2. Current.path = <<>> => Clean(Root \o Current.path) = Root
    <3>1. Root \o <<>> = Root
      BY RootClean, ConcatEmptySeq
    <3> QED BY <3>1, RootClean
  <2>3. CASE ~ UNCHANGED files
    <3>1. PICK f, c, r, w :
            /\ f = Clean(Root \o Current.path) /\ c = Current /\ result' = r
            /\ w = [file |-> f, call |-> c, result |-> r]
            /\ files' = files \union {w}
      BY <1>1, <2>3, ToolChanges
    <3>2. w.file = f /\ w.call = c /\ w.result = r
      BY <3>1
    <3>3. Current.tool = "write_file" /\ Current.path # <<>>
      BY <1>1, <2>2, <2>3, ToolChanges
    <3> QED BY <1>1, <2>1, <3>1, <3>2, <3>3
  <2> QED BY <2>3
<1>2. ExecuteCall \/ UNCHANGED files
  BY DEF Next, Model, Agent, ModelFails, ModelAnswers, ModelCallsTools,
         Acknowledge, PrepareWorkspace, CountStep, StartProcessing,
         AnnounceCall, ExecuteCall, ReportResult, PostAnswer, ReturnAnswer,
         FinalizeWorkspace, Complete, ReportError
<1> QED BY <1>1, <1>2

LEMMA ByWritesStep ==
  ASSUME ByWrites, Next
  PROVE  ByWrites'
BY Changes DEF ByWrites

\* A file changes only after its change was announced.
LEMMA ToldStep ==
  ASSUME Lists, Announced, WritesTold, Next
  PROVE  WritesTold'
<1>1. \A w \in files : \E k \in DOMAIN updates' :
        /\ Tells(updates'[k], "tool_call")
        /\ "tool_call" \in w.call.shown => Names(updates'[k], "tool_call", w.file)
  BY UpdatesKept DEF WritesTold
<1>2. CASE UNCHANGED files
  BY <1>1, <1>2 DEF WritesTold
<1>3. ASSUME NEW w, files' = files \union {w}, w.call = Current, pc = "execute",
             w.file = Clean(Root \o Current.path), UNCHANGED updates,
             Current.tool = "write_file", Current.path # <<>>
      PROVE  WritesTold'
  <2>1. PICK k \in DOMAIN updates : updates[k] = Announcement
    BY <1>3 DEF Announced
  <2>2. /\ updates[k].kind = "tool_call"
        /\ updates[k].call.tool = "write_file"
        /\ "tool_call" \in w.call.shown => updates[k].call.path = Current.path
    BY <1>3, <2>1 DEF Announcement, Update, Shown
  <2>3. /\ Tells(updates[k], "tool_call")
        /\ "tool_call" \in w.call.shown => Names(updates[k], "tool_call", w.file)
    BY <1>3, <2>2 DEF Tells, Names
  <2> QED BY <1>1, <1>3, <2>3 DEF WritesTold
<1> QED BY <1>2, <1>3, Changes

\* The report of a successful write names its file.
LEMMA ReportNames ==
  ASSUME Current.tool = "write_file", Current.path # <<>>, result = "ok",
         "tool_result" \in Current.shown
  PROVE  Names(Report, "tool_result", Clean(Root \o Current.path))
<1>1. /\ Report.kind = "tool_result" /\ Report.call.tool = "write_file"
      /\ Report.call.path = Current.path
  BY DEF Report, Update, Shown, ToolMutating
<1> QED BY <1>1 DEF Names, Tells

\* A run goes on from a write only when its result was posted.
LEMMA ReportedStep ==
  ASSUME Lists, ByWrites, WritesReported, Posting, Next
  PROVE  WritesReported'
<1> DEFINE Named(w) ==
      \E k \in DOMAIN updates : Names(updates[k], "tool_result", w.file)
<1>1. \A w : Named(w) => Named(w)'
  BY UpdatesKept
<1>2. ASSUME pc' \notin {"error", "ended"} \/ Completed'
      PROVE  pc \notin {"error", "ended"} \/ Completed
  BY <1>2 DEF Next, Model, Agent, ModelFails, ModelAnswers, ModelCallsTools,
         Acknowledge, PrepareWorkspace, CountStep, StartProcessing,
         AnnounceCall, ExecuteCall, ReportResult, PostAnswer, ReturnAnswer,
         FinalizeWorkspace, Complete, ReportError, PostUpdate, PostComment,
         Goto, Completed, server
<1>3. SUFFICES ASSUME pc' \notin {"error", "ended"} \/ Completed',
                      NEW w \in files', w.result = "ok",
                      "tool_result" \in w.call.shown
               PROVE  Named(w)' \/ (pc' = "report" /\ result' = "ok"
                                    /\ w.call = Current')
  BY DEF WritesReported
<1>4. CASE w \notin files
  BY <1>3, <1>4, Changes DEF Current
<1>5. CASE w \in files /\ Named(w)
  BY <1>1, <1>5
<1>6. CASE w \in files /\ ~Named(w)
  <2>1. pc = "report" /\ result = "ok" /\ w.call = Current
    BY <1>2, <1>3, <1>6 DEF WritesReported
  <2>2. ReportResult /\ pc' # "error"
    <3>1. ~Completed
      BY <2>1 DEF Posting
    <3>2. ReportResult
      BY <2>1 DEF Next, Model, Agent, ModelFails, ModelAnswers,
         ModelCallsTools, Acknowledge, PrepareWorkspace, CountStep,
         StartProcessing, AnnounceCall, ExecuteCall, PostAnswer, ReturnAnswer,
         FinalizeWorkspace, Complete, ReportError, Goto
    <3>3. UNCHANGED comments
      BY <3>2 DEF ReportResult
    <3> QED BY <1>3, <3>1, <3>2, <3>3 DEF Completed
  <2>3. updates' = Append(updates, Report)
    BY <2>2 DEF ReportResult
  <2>4. Names(Report, "tool_result", w.file)
    BY <1>3, <1>6, <2>1, ReportNames DEF ByWrites
  <2>5. PICK u : u = Report
    OBVIOUS
  <2>6. \E k \in DOMAIN updates' : updates'[k] = u
    BY <2>3, <2>5, Appended DEF Lists
  <2> QED BY <2>4, <2>5, <2>6
<1> QED BY <1>4, <1>5, <1>6

-----------------------------------------------------------------------------
(* The conversation.                                                       *)

\* A conversation: its replies carry lists of calls.
IsConversation(ms) ==
  /\ IsSeq(ms)
  /\ \A k \in DOMAIN ms : ms[k].role = "assistant" => ms[k].calls \in Seq(Calls)

\* Answers stay answers while the messages they are in stay.
LEMMA AnswersKept ==
  ASSUME NEW ms, NEW new, IsConversation(ms), NEW n \in 0..Len(ms),
         AllAnswered(ms, n), \A k \in 1..n : new[k] = ms[k]
  PROVE  AllAnswered(new, n)
<1>1. DOMAIN ms = 1..Len(ms) /\ Len(ms) \in Nat
  BY ListIn DEF IsConversation, IsSeq
<1>2. ASSUME NEW k \in 1..n, ms[k].role = "assistant"
      PROVE  Answered(new, k, n)
  <2>1. PICK cs : cs = ms[k].calls
    OBVIOUS
  <2>2. Len(cs) \in Nat /\ DOMAIN cs = 1..Len(cs)
    <3>1. cs \in Seq(Calls)
      BY <1>1, <1>2, <2>1 DEF IsConversation
    <3> QED BY <3>1, ListIn
  <2>3. /\ k + Len(cs) <= n
        /\ \A j \in DOMAIN cs : ms[k + j].role = "tool"
                                /\ ms[k + j].call = cs[j]
        /\ k + Len(cs) < n => ms[k + Len(cs) + 1].role = "assistant"
    BY <1>2, <2>1 DEF AllAnswered, Answered
  <2>4. \A j \in 1..Len(cs) : k + j \in 1..n
    BY <1>1, <2>2, <2>3
  <2>5. k + Len(cs) < n => k + Len(cs) + 1 \in 1..n
    BY <1>1, <2>2
  <2>6. new[k].calls = cs
    BY <2>1
  <2> QED BY <2>2, <2>3, <2>4, <2>5, <2>6 DEF Answered
<1> QED BY <1>2 DEF AllAnswered

\* Answers stay complete when the model's next reply comes after them.
LEMMA AnswersExtend ==
  ASSUME NEW ms, IsConversation(ms), NEW n \in Nat, NEW m \in Nat, n < m,
         m <= Len(ms), AllAnswered(ms, n), ms[n + 1].role = "assistant",
         NEW k \in 1..n, ms[k].role = "assistant"
  PROVE  Answered(ms, k, m)
<1>1. DOMAIN ms = 1..Len(ms) /\ Len(ms) \in Nat
  BY ListIn DEF IsConversation, IsSeq
<1>2. PICK cs : cs = ms[k].calls
  OBVIOUS
<1>3. Len(cs) \in Nat
  <2>1. cs \in Seq(Calls)
    BY <1>1, <1>2 DEF IsConversation
  <2> QED BY <2>1
<1>4. /\ k + Len(cs) <= n
      /\ \A j \in DOMAIN cs : ms[k + j].role = "tool" /\ ms[k + j].call = cs[j]
      /\ k + Len(cs) < n => ms[k + Len(cs) + 1].role = "assistant"
  BY <1>2 DEF AllAnswered, Answered
<1>5. k + Len(cs) <= m
  BY <1>3, <1>4
<1>6. ms[k + Len(cs) + 1].role = "assistant"
  <2>1. k + Len(cs) = n => k + Len(cs) + 1 = n + 1
    OBVIOUS
  <2> QED BY <1>3, <1>4, <2>1
<1> QED BY <1>2, <1>4, <1>5, <1>6 DEF Answered

\* The model's reply joins the conversation.
LEMMA ReplyJoins ==
  ASSUME IsConversation(messages), IsConversation(messages'), Conversing,
         NEW c \in Contents, NEW cs \in CallLists, ModelCallsTools(c, cs)
  PROVE  Conversing'
<1>1. PICK n, new : n = Len(messages) /\ new = messages'
  OBVIOUS
<1>2. /\ pc = "request" /\ calls' = cs /\ index' = 1
      /\ messages' = Append(messages,
           [role |-> "assistant", text |-> c.text, calls |-> cs])
      /\ cs # <<>> => pc' = "announce"
      /\ cs = <<>> => pc' \in {"request", "reply"}
  BY DEF ModelCallsTools, EndRound, NextRound
<1>3. /\ n \in Nat /\ Len(new) = n + 1
      /\ \A k \in 1..n : new[k] = messages[k]
      /\ new[n + 1] = [role |-> "assistant", text |-> c.text, calls |-> cs]
  BY <1>1, <1>2, Appended DEF IsConversation
<1>4. new[n + 1].role = "assistant" /\ new[n + 1].calls = cs
  BY <1>3
<1>5. AllAnswered(new, n)
  <2>1. AllAnswered(messages, n) /\ n \in 0..Len(messages)
    BY <1>1, <1>2, <1>3 DEF Conversing
  <2> QED BY <1>3, <2>1, AnswersKept
<1>6. CASE cs = <<>>
  <2>1. ASSUME NEW k \in 1..n + 1, new[k].role = "assistant"
        PROVE  Answered(new, k, n + 1)
    <3>1. CASE k = n + 1
      <4>1. Len(cs) = 0 /\ DOMAIN cs = {}
        BY <1>6
      <4> QED BY <1>3, <1>4, <3>1, <4>1 DEF Answered
    <3>2. CASE k \in 1..n
      <4>1. n + 1 \in Nat /\ n < n + 1 /\ n + 1 <= Len(new)
        BY <1>3
      <4> QED BY <1>1, <1>3, <1>4, <1>5, <2>1, <3>2, <4>1, AnswersExtend
    <3> QED BY <1>3, <3>1, <3>2
  <2>2. AllAnswered(new, Len(new))
    BY <1>3, <2>1 DEF AllAnswered
  <2> QED BY <1>1, <1>2, <1>6, <2>2 DEF Conversing, Working
<1>7. CASE cs # <<>>
  <2>1. n + 1 - 1 = n /\ n + 1 \in 1..n + 1 /\ n + 1 = n + 1 + 1 - 1
        /\ 1..1 - 1 = {}
    BY <1>3
  <2>2. AtReply(n + 1)'
    BY <1>1, <1>2, <1>3, <1>4, <1>5, <2>1 DEF AtReply
  <2> QED BY <1>2, <1>3, <1>7, <2>2 DEF Conversing, Working
<1> QED BY <1>6, <1>7

\* The result of a call joins the conversation.
LEMMA ResultJoins ==
  ASSUME IsConversation(messages), IsConversation(messages'), Conversing,
         TypeOK, Bounded, ReportResult, pc' # "error"
  PROVE  Conversing'
<1>1. PICK new, i, cs : new = messages' /\ i = index /\ cs = calls
  OBVIOUS
<1>2. /\ pc = "report" /\ calls' = calls
      /\ messages' = Append(messages, [role |-> "tool", call |-> Current,
                                       result |-> result])
      /\ \/ i < Len(cs) /\ pc' = "announce" /\ index' = i + 1
         \/ ~(i < Len(cs)) /\ pc' \in {"request", "reply"}
  BY <1>1 DEF ReportResult, Joins, EndRound, NextRound
<1>3. PICK a \in Nat : AtReply(a)
  BY <1>2 DEF Conversing, Working
<1>4. /\ cs \in Seq(Calls) /\ Len(cs) \in Nat /\ DOMAIN cs = 1..Len(cs)
      /\ i \in 1..Len(cs)
  BY <1>1, <1>2 DEF TypeOK, Bounded, Working
<1>5. /\ Len(messages) \in Nat /\ Len(new) = Len(messages) + 1
      /\ \A k \in 1..Len(messages) : new[k] = messages[k]
      /\ new[Len(messages) + 1] = [role |-> "tool", call |-> Current,
                                   result |-> result]
  BY <1>1, <1>2, Appended DEF IsConversation
<1>6. /\ a \in 1..Len(messages) /\ Len(messages) = a + i - 1
      /\ messages[a].role = "assistant" /\ messages[a].calls = cs
      /\ AllAnswered(messages, a - 1)
      /\ \A j \in 1..i - 1 : /\ messages[a + j].role = "tool"
                             /\ messages[a + j].call = cs[j]
  BY <1>1, <1>3 DEF AtReply
<1>7. /\ Len(new) = a + i /\ Len(messages) + 1 = a + i
      /\ \A j \in 1..i - 1 : a + j \in 1..Len(messages)
      /\ a - 1 \in 0..Len(messages) /\ 1..a - 1 \subseteq 1..Len(messages)
  BY <1>4, <1>5, <1>6
<1>8. \A j \in 1..i : new[a + j].role = "tool" /\ new[a + j].call = cs[j]
  <2>1. new[a + i].role = "tool" /\ new[a + i].call = cs[i]
    BY <1>1, <1>5, <1>7 DEF Current
  <2>2. \A j \in 1..i - 1 : new[a + j].role = "tool" /\ new[a + j].call = cs[j]
    BY <1>5, <1>6, <1>7
  <2>3. \A j \in 1..i : j = i \/ j \in 1..i - 1
    BY <1>4
  <2> QED BY <2>1, <2>2, <2>3
<1>9. new[a].role = "assistant" /\ new[a].calls = cs
  BY <1>5, <1>6
<1>10. AllAnswered(new, a - 1)
  BY <1>5, <1>6, <1>7, AnswersKept
<1>11. CASE i < Len(cs)
  <2>1. (i + 1) - 1 = i /\ a \in 1..Len(new) /\ Len(new) = a + (i + 1) - 1
    BY <1>4, <1>6, <1>7
  <2>2. AtReply(a)'
    <3>1. messages' = new /\ index' = i + 1 /\ calls' = cs
      BY <1>1, <1>2, <1>11
    <3>2. /\ a \in 1..Len(messages') /\ Len(messages') = a + index' - 1
          /\ index' - 1 = i
      BY <2>1, <3>1
    <3>3. \A j \in 1..index' - 1 : /\ messages'[a + j].role = "tool"
                                   /\ messages'[a + j].call = calls'[j]
      BY <1>8, <3>1, <3>2
    <3>4. /\ messages'[a].role = "assistant" /\ messages'[a].calls = calls'
          /\ AllAnswered(messages', a - 1)
      BY <1>9, <1>10, <3>1
    <3> QED BY <3>2, <3>3, <3>4 DEF AtReply
  <2> QED BY <1>2, <1>11, <2>2 DEF Conversing, Working
<1>12. CASE ~(i < Len(cs))
  <2>1. i = Len(cs)
    <3>1. \A n \in Nat : \A m \in 1..n : ~(m < n) => m = n
      OBVIOUS
    <3>2. Len(cs) \in Nat /\ i \in 1..Len(cs)
      BY <1>4
    <3> QED BY <3>1, <3>2, <1>12
  <2>2. ASSUME NEW k \in 1..a + i, new[k].role = "assistant"
        PROVE  Answered(new, k, a + i)
    <3>1. CASE k = a
      BY <1>4, <1>8, <1>9, <2>1, <3>1 DEF Answered
    <3>2. CASE k \in 1..a - 1
      <4>1. PICK n : n = a - 1
        OBVIOUS
      <4>2. n \in Nat /\ a + i \in Nat /\ n < a + i /\ n + 1 = a /\ k \in 1..n
            /\ a + i <= Len(new)
        BY <1>4, <1>6, <1>7, <3>2, <4>1
      <4> QED BY <1>1, <1>9, <1>10, <2>2, <4>1, <4>2, AnswersExtend
    <3>3. CASE k > a
      <4>1. PICK j \in 1..i : k = a + j
        <5>1. k - a \in 1..i /\ k = a + (k - a)
          BY <1>4, <2>2, <3>3
        <5> QED BY <5>1
      <4> QED BY <1>8, <2>2, <4>1
    <3>4. k = a \/ k \in 1..a - 1 \/ k > a
      BY <1>4
    <3> QED BY <3>1, <3>2, <3>3, <3>4
  <2>3. AllAnswered(new, Len(new))
    BY <1>7, <2>2 DEF AllAnswered
  <2> QED BY <1>1, <1>2, <1>12, <2>3 DEF Conversing, Working
<1> QED BY <1>11, <1>12

\* Every step leaves the conversation in order.
LEMMA ConversingStep ==
  ASSUME TypeOK, Lists, TypeOK', Lists', Bounded, Conversing, Next
  PROVE  Conversing'
<1>1. IsConversation(messages) /\ IsConversation(messages')
  BY DEF IsConversation, TypeOK, Lists
<1>2. ASSUME NEW c \in Contents, NEW cs \in CallLists, ModelCallsTools(c, cs)
      PROVE  Conversing'
  BY <1>1, <1>2, ReplyJoins
<1>3. CASE ReportResult
  <2>1. CASE pc' = "error"
    BY <2>1 DEF Conversing, Working
  <2> QED BY <1>1, <1>3, <2>1, ResultJoins
<1>4. CASE AnnounceCall \/ ExecuteCall
  <2>1. UNCHANGED <<messages, calls, index>> /\ Working
    BY <1>4 DEF AnnounceCall, ExecuteCall, Goto, loop, Working
  <2>2. pc' # "request"
    BY <1>4 DEF AnnounceCall, ExecuteCall, Goto, PostUpdate
  <2>3. \A a : AtReply(a)' <=> AtReply(a)
    BY <2>1 DEF AtReply
  <2> QED BY <2>1, <2>2, <2>3 DEF Conversing
<1>5. CASE StartProcessing
  <2>1. messages' = <<>> /\ pc' \in {"request", "ended"}
    BY <1>5 DEF StartProcessing, PostUpdate, Bounded, loop
  <2>2. Len(messages') = 0 /\ 1..0 = {}
    BY <2>1
  <2> QED BY <2>1, <2>2 DEF Conversing, Working, AllAnswered
<1>6. CASE \/ ModelFails \/ (\E c \in Contents : ModelAnswers(c))
           \/ Acknowledge \/ PrepareWorkspace \/ CountStep
           \/ PostAnswer \/ ReturnAnswer \/ FinalizeWorkspace \/ Complete
           \/ ReportError
  <2>1. pc' # "request" /\ ~Working'
    BY <1>6 DEF ModelFails, ModelAnswers, Acknowledge, PrepareWorkspace,
                CountStep, PostAnswer, ReturnAnswer, FinalizeWorkspace,
                Complete, ReportError, PostUpdate, PostComment, Goto, Working
  <2> QED BY <2>1 DEF Conversing
<1> QED BY <1>2, <1>3, <1>4, <1>5, <1>6, Zenon DEF Next, Model, Agent

-----------------------------------------------------------------------------
(* The answer.                                                             *)

Silent(ms) == \A k \in DOMAIN ms : ms[k].role = "assistant" => ms[k].text = None

\* A blank answer means that the model never gave a text.
LEMMA TextsStep ==
  ASSUME Lists, Texts, Next
  PROVE  Texts'
<1>1. last' = Blank => Silent(messages')
  <2>1. \/ UNCHANGED <<messages, last>>
        \/ \E m : messages' = Append(messages, m) /\ m.role = "tool"
             /\ last' = last
        \/ \E cs : \E c \in Contents : last' = LastText(c) /\ messages' =
             Append(messages, [role |-> "assistant", text |-> c.text, calls |-> cs])
    BY DEF Next, Model, Agent, ModelFails, ModelAnswers, ModelCallsTools,
           Acknowledge, PrepareWorkspace, CountStep, StartProcessing,
           AnnounceCall, ExecuteCall, ReportResult, PostAnswer, ReturnAnswer,
           FinalizeWorkspace, Complete, ReportError,
           Joins, loop
  <2>2. last = Blank => Silent(messages)
    BY DEF Texts, Silent
  <2>3. ASSUME NEW m, messages' = Append(messages, m), Silent(messages),
               m.role = "assistant" => m.text = None
        PROVE  Silent(messages')
    BY <2>3, Appended DEF Silent, Lists
  <2>4. \A c \in Contents : LastText(c) = Blank => last = Blank /\ c.text = None
    BY DEF LastText, Blank
  <2>5. ASSUME NEW c \in Contents, NEW cs, last' = LastText(c), messages' =
               Append(messages, [role |-> "assistant", text |-> c.text, calls |-> cs])
        PROVE  last' = Blank => Silent(messages')
    BY <2>2, <2>3, <2>4, <2>5
  <2> QED BY <2>1, <2>2, <2>3, <2>5
<1>2. ASSUME pc' \in {"reply", "finalize", "complete"}, answer' = Blank
      PROVE  last' = Blank
  <2>1. \/ answer' = last'
        \/ \E c \in Contents : answer' = LastText(c) /\ last' = last
        \/ UNCHANGED <<answer, last>> /\ pc \in {"reply", "finalize", "complete"}
        \/ UNCHANGED <<answer, last>> /\ pc = "count"
    BY <1>2 DEF Next, Model, Agent, ModelFails, ModelAnswers, ModelCallsTools,
                Acknowledge, PrepareWorkspace, CountStep, StartProcessing,
                AnnounceCall, ExecuteCall, ReportResult, PostAnswer, ReturnAnswer,
                FinalizeWorkspace, Complete, ReportError,
                Joins, EndRound, NextRound, PostUpdate,
                PostComment, Goto, loop
  <2>2. \A c \in Contents : LastText(c) = Blank => last = Blank
    BY DEF LastText
  <2> QED BY <1>2, <2>1, <2>2 DEF Texts
<1>3. pc' \in {"ack", "repository", "count"} => last' = Blank
  <2>1. pc' \in {"ack", "repository", "count"} =>
          last' = last /\ pc \in {"ack", "repository", "count"}
    BY DEF Next, Model, Agent, ModelFails, ModelAnswers, ModelCallsTools,
           Acknowledge, PrepareWorkspace, CountStep, StartProcessing,
           AnnounceCall, ExecuteCall, ReportResult, PostAnswer, ReturnAnswer,
           FinalizeWorkspace, Complete, ReportError,
           Joins, EndRound, NextRound, PostUpdate,
           PostComment, Goto, loop
  <2> QED BY <2>1 DEF Texts
<1> QED BY <1>1, <1>2, <1>3 DEF Texts, Silent

\* The step to a list of updates is the answer's: nothing comes between them.
LEMMA PostingStep ==
  ASSUME TypeOK, Lists, TypeOK', Lists', Bounded, Posting, Next
  PROVE  Posting'
<1>0. UNCHANGED setting
  BY DEF Next, Model, Agent, ModelFails, ModelAnswers, ModelCallsTools,
         Acknowledge, PrepareWorkspace, CountStep, StartProcessing,
         AnnounceCall, ExecuteCall, ReportResult, PostAnswer, ReturnAnswer,
         FinalizeWorkspace, Complete, ReportError
<1>1. pc' = "count" => backend' = "test-counter"
  BY <1>0 DEF Next, Model, Agent, ModelFails, ModelAnswers, ModelCallsTools,
              Acknowledge, PrepareWorkspace, CountStep, StartProcessing,
              AnnounceCall, ExecuteCall, ReportResult, PostAnswer, ReturnAnswer,
              FinalizeWorkspace, Complete, ReportError,
              Joins, EndRound, NextRound, PostUpdate,
              PostComment, Goto, Posting, setting
<1>2. \A c : AnswerUpdates(c)' = AnswerUpdates(c)
  BY <1>0 DEF AnswerUpdates, setting
<1>3. ASSUME pc' = "reply"
      PROVE  \E s : IsSeq(s) /\ updates' \o todo' = s \o AnswerUpdates(answer')
  <2>1. \/ todo' = AnswerUpdates(answer')
        \/ pc = "reply" /\ PostAnswer
    BY <1>3 DEF Next, Model, Agent, ModelFails, ModelAnswers, ModelCallsTools,
                Acknowledge, PrepareWorkspace, CountStep, StartProcessing,
                AnnounceCall, ExecuteCall, ReportResult, PostAnswer, ReturnAnswer,
                FinalizeWorkspace, Complete, ReportError,
                Joins, EndRound, NextRound, PostUpdate,
                PostComment, Goto
  <2>2. CASE todo' = AnswerUpdates(answer')
    BY <2>2 DEF Lists
  <2>3. CASE pc = "reply" /\ PostAnswer
    <3>1. /\ todo # <<>> /\ todo' = Tail(todo) /\ answer' = answer
          /\ updates' = Append(updates, Head(todo))
      BY <1>3, <2>3 DEF PostAnswer, PostUpdate, loop
    <3>2. updates' \o todo' = updates \o todo
      BY <3>1, Rest DEF Lists
    <3> QED BY <2>3, <3>1, <3>2 DEF Posting
  <2> QED BY <2>1, <2>2, <2>3
<1>4. ASSUME pc' \in {"finalize", "complete"}, backend' = "lmstudio"
      PROVE  /\ final'
             /\ \E s : IsSeq(s) /\ updates' = s \o AnswerUpdates(answer')
  <2>1. backend = "lmstudio" /\ UNCHANGED <<updates, answer, final>>
        /\ \/ pc = "reply" /\ todo = <<>> /\ final
           \/ pc \in {"finalize", "complete"}
    BY <1>0, <1>4 DEF Next, Model, Agent, ModelFails, ModelAnswers, ModelCallsTools,
                      Acknowledge, PrepareWorkspace, CountStep, StartProcessing,
                      AnnounceCall, ExecuteCall, ReportResult, PostAnswer, ReturnAnswer,
                      FinalizeWorkspace, Complete, ReportError,
                      Joins, EndRound, NextRound, PostUpdate,
                      PostComment, Goto, Posting, setting, loop, server
  <2>2. todo = <<>> => updates \o todo = updates
    BY DEF Lists, IsSeq
  <2> QED BY <2>1, <2>2 DEF Posting
<1>5. Completed' => pc' = "ended"
  <2>1. \/ comments' = comments /\ pc # "ended"
        \/ \E t : comments' = Append(comments, Comment("ack", t)) /\ pc # "ended"
        \/ pc' = "ended"
    BY DEF Next, Model, Agent, ModelFails, ModelAnswers, ModelCallsTools,
           Acknowledge, PrepareWorkspace, CountStep, StartProcessing,
           AnnounceCall, ExecuteCall, ReportResult, PostAnswer, ReturnAnswer,
           FinalizeWorkspace, Complete, ReportError,
           PostUpdate, PostComment, Goto, server
  <2>2. ASSUME pc # "ended", NEW t, comments' = Append(comments, Comment("ack", t))
        PROVE  ~Completed'
    <3>1. Comment("ack", t).kind = "ack"
      BY DEF Comment
    <3> QED BY <2>2, <3>1, Appended DEF Completed, Posting, Lists
  <2> QED BY <2>1, <2>2 DEF Posting, Completed
<1> QED BY <1>1, <1>2, <1>3, <1>4, <1>5 DEF Posting

\* The completion comment is the answer, and comes after its updates.
LEMMA CompletionStep ==
  ASSUME TypeOK, Lists, Posting, Texts, CompletionReportsAnswer, Next
  PROVE  CompletionReportsAnswer'
<1>0. UNCHANGED setting
  BY DEF Next, Model, Agent, ModelFails, ModelAnswers, ModelCallsTools,
         Acknowledge, PrepareWorkspace, CountStep, StartProcessing,
         AnnounceCall, ExecuteCall, ReportResult, PostAnswer, ReturnAnswer,
         FinalizeWorkspace, Complete, ReportError
<1>1. CASE Complete
  <2>1. /\ pc = "complete" /\ UNCHANGED <<backend, answer, final, updates, messages>>
        /\ \/ comments' = Append(comments, Comment("completion", answer.text))
           \/ comments' = comments
    BY <1>1 DEF Complete, PostComment, setting, loop
  <2>2. CASE comments' = comments
    BY <2>1, <2>2 DEF Posting, Completed, CompletionReportsAnswer
  <2>3. ASSUME comments' = Append(comments, Comment("completion", answer.text)),
               backend = "lmstudio"
        PROVE  CompletionReportsAnswer'
    <3>1. Last(comments') = Comment("completion", answer'.text)
      BY <2>1, <2>3, Appended DEF Last, Lists
    <3>2. final' /\ IsSuffix(AnswerUpdates(answer), updates)
      <4>1. PICK s : IsSeq(s) /\ updates = s \o AnswerUpdates(answer)
        BY <2>1, <2>3 DEF Posting
      <4>2. IsSeq(AnswerUpdates(answer))
        BY AnswerUpdatesList DEF TypeOK
      <4> QED BY <2>1, <2>3, <4>1, <4>2, Suffix DEF Posting
    <3>3. AnswerUpdates(answer)' = AnswerUpdates(answer)
      BY <1>0, <2>1 DEF AnswerUpdates, setting
    <3>4. answer' = Blank => Silent(messages')
      BY <2>1 DEF Texts, Silent
    <3> QED BY <2>1, <3>1, <3>2, <3>3, <3>4 DEF CompletionReportsAnswer, Silent
  <2>4. backend # "lmstudio" => CompletionReportsAnswer'
    BY <2>1 DEF CompletionReportsAnswer
  <2> QED BY <2>1, <2>2, <2>3, <2>4
<1>2. ASSUME ~Complete PROVE ~Completed'
  <2>1. /\ pc # "ended"
        /\ \/ comments' = comments
           \/ \E t : comments' = Append(comments, Comment("ack", t))
    BY <1>2 DEF Next, Model, Agent, ModelFails, ModelAnswers, ModelCallsTools,
                Acknowledge, PrepareWorkspace, CountStep, StartProcessing,
                AnnounceCall, ExecuteCall, ReportResult, PostAnswer, ReturnAnswer,
                FinalizeWorkspace, Complete, ReportError,
                PostUpdate, PostComment, Goto, server
  <2>2. ASSUME NEW t, comments' = Append(comments, Comment("ack", t))
        PROVE  ~Completed'
    <3>1. Comment("ack", t).kind = "ack"
      BY DEF Comment
    <3> QED BY <2>1, <2>2, <3>1, Appended DEF Completed, Posting, Lists
  <2> QED BY <2>1, <2>2 DEF Posting, Completed
<1> QED BY <1>1, <1>2 DEF CompletionReportsAnswer

-----------------------------------------------------------------------------
(* The invariant holds.                                                    *)

LEMMA InitIInv ==
  ASSUME Init
  PROVE  IInv
<1>0. /\ IsSeq(<<>>) /\ Len(<<>>) = 0
      /\ DOMAIN messages = {} /\ DOMAIN updates = {} /\ DOMAIN comments = {}
  BY DEF Init, IsSeq, ToSet
<1>1. TypeOK
  <2>1. round \in 0..MaxIter /\ index \in 0..MaxCalls
    BY BoundsType DEF Init
  <2>2. calls \in Seq(Calls) /\ {last, answer} \subseteq Contents
    BY ContentsType DEF Init
  <2> QED BY <1>0, <2>1, <2>2 DEF Init, TypeOK, Results
<1>2. Lists
  BY <1>0 DEF Init, Lists
<1>3. Bounded
  BY <1>0, BoundsType DEF Init, Bounded, Working
<1>4. /\ Announced /\ PlanModeReadOnly
      /\ ByWrites /\ WritesTold /\ WritesReported
  BY DEF Init, Announced, PlanModeReadOnly, ByWrites, WritesTold,
         WritesReported
<1>5. Conversing
  BY DEF Init, Conversing, Working
<1>6. Texts
  BY <1>0 DEF Init, Texts
<1>7. Posting /\ CompletionReportsAnswer
  BY <1>0 DEF Init, Posting, Completed, CompletionReportsAnswer
<1> QED BY <1>1, <1>2, <1>3, <1>4, <1>5, <1>6, <1>7 DEF IInv

LEMMA NextIInv ==
  ASSUME IInv, Next
  PROVE  IInv'
<1>1. Lists' /\ TypeOK' /\ Bounded'
  BY ListsStep, TypeStep, BoundedStep DEF IInv
<1>2. /\ PlanModeReadOnly' /\ Announced'
      /\ ByWrites' /\ WritesTold' /\ WritesReported'
  BY PlanStep, AnnouncedStep, ByWritesStep, ToldStep, ReportedStep DEF IInv
<1>3. Conversing' /\ Texts'
  BY <1>1, ConversingStep, TextsStep DEF IInv
<1>4. Posting' /\ CompletionReportsAnswer'
  BY <1>1, PostingStep, CompletionStep DEF IInv
<1> QED BY <1>1, <1>2, <1>3, <1>4 DEF IInv

LEMMA StutterIInv ==
  ASSUME IInv, UNCHANGED vars
  PROVE  IInv'
<1>1. TypeOK' /\ Lists' /\ Bounded'
  BY DEF IInv, vars, setting, loop, server, TypeOK, Lists, Bounded, Working
<1>2. Announced' /\ PlanModeReadOnly' /\ ByWrites' /\ WritesTold'
  BY DEF IInv, vars, setting, loop, server, Announced, Announcement,
         PlanModeReadOnly, ByWrites, WritesTold, Current
<1>3. Conversing'
  BY DEF IInv, vars, loop, Conversing, Working, AtReply
<1>4. Texts'
  BY DEF IInv, vars, loop, server, Texts
<1>5. Posting' /\ CompletionReportsAnswer'
  <2>1. AnswerUpdates(answer)' = AnswerUpdates(answer)
    BY DEF vars, setting, loop, AnswerUpdates
  <2> QED BY <2>1 DEF IInv, vars, setting, loop, server, Posting, Completed,
                      CompletionReportsAnswer
<1>6. WritesReported'
  BY DEF IInv, vars, loop, server, WritesReported, Completed, Current
<1> QED BY <1>1, <1>2, <1>3, <1>4, <1>5, <1>6 DEF IInv

\* The loop, its conversation and the updates on the server fit together in
\* every state.
THEOREM Invariance == Spec => []IInv
<1>1. Init => IInv
  BY InitIInv
<1>2. IInv /\ [Next]_vars => IInv'
  BY NextIInv, StutterIInv
<1> QED BY <1>1, <1>2, PTL DEF Spec

-----------------------------------------------------------------------------
(* The properties.                                                         *)

\* Every variable keeps its type.
THEOREM TypeCorrect == Spec => []TypeOK
<1>1. IInv => TypeOK
  BY DEF IInv
<1> QED BY <1>1, Invariance, PTL

\* In plan mode no tool changes a file, whatever calls the model sends.
THEOREM PlanReadOnly == Spec => []PlanModeReadOnly
<1>1. IInv => PlanModeReadOnly
  BY DEF IInv
<1> QED BY <1>1, Invariance, PTL

\* For every file a tool changed an update of that write was stored before, and
\* it names the file unless the path was cut off; when the run goes on or has
\* completed, so does an update of the result of a write that succeeded.
THEOREM WritesKnown == Spec => []WritesAnnounced
<1>1. IInv => WritesAnnounced
  <2>1. ASSUME IInv, pc = "request" \/ Completed
        PROVE  pc # "report" /\ (pc \notin {"error", "ended"} \/ Completed)
    BY <2>1 DEF IInv, Posting
  <2> QED BY <2>1 DEF IInv, WritesTold, WritesReported, WritesAnnounced
<1> QED BY <1>1, Invariance, PTL

\* Whenever the model is asked, each call in the conversation has its result.
THEOREM ConversationOrdered == Spec => []ConversationAnswered
<1>1. IInv => ConversationAnswered
  <2> SUFFICES ASSUME IInv, pc = "request", NEW k \in DOMAIN messages,
                      messages[k].role = "assistant"
               PROVE  Answered(messages, k, Len(messages))
    BY DEF ConversationAnswered, Answered
  <2>1. DOMAIN messages = 1..Len(messages)
    BY ListIn DEF IInv, Lists, IsSeq
  <2> QED BY <2>1 DEF IInv, Conversing, AllAnswered
<1> QED BY <1>1, Invariance, PTL

\* A completion comment of a model run is the model's answer, with its updates
\* before it.
THEOREM CompletionSaysAnswer == Spec => []CompletionReportsAnswer
<1>1. IInv => CompletionReportsAnswer
  BY DEF IInv
<1> QED BY <1>1, Invariance, PTL
===============================================================================

---------------------------- MODULE AgentRunsProofs ----------------------------
(***************************************************************************)
(* The safety of AgentRuns for any number of tickets, tokens and           *)
(* invocations.  IInv holds whatever fails and however invocations         *)
(* overlap; it gives the type invariant, one completion comment and the    *)
(* survival of completed work.  With one invocation at a time (OneSlot)    *)
(* the token file stays usable and every step is one of TicketQueue.       *)
(***************************************************************************)
EXTENDS AgentRuns, FiniteSetTheorems, TLAPS

Working == {"ack", "prepare", "work", "finalize", "complete"}

\* Invocations that process a ticket are those past the list.
TicketWhileWorking ==
  \A r \in Slots : ticket[r] # 0 <=> pc[r] \in Working

\* Without overlap a ticket has one invocation, and that before its completion.
OneWorker ==
  \A t \in Tickets \ overlapped :
    /\ \A r, q \in Slots : ticket[r] = t /\ ticket[q] = t => r = q
    /\ \A r \in Slots : ticket[r] = t => completions[t] = 0
    /\ completions[t] <= 1

\* What an invocation wrote is in the checkout until it is recorded.
WrittenOrRecorded ==
  \A r \in wrote :
    /\ pc[r] \in {"finalize", "complete"}
    /\ ticket[r] \notin overlapped =>
         checkout[ticket[r]] = IF pc[r] = "finalize" THEN "dirty" ELSE "recorded"

\* Completed work is recorded, and its ticket is no longer pending.
ProducedStays ==
  \A t \in produced :
    /\ completions[t] > 0
    /\ t \notin overlapped => checkout[t] = "recorded"

Workers(t) == {r \in Slots : ticket[r] = t}

\* Each invocation that processes a ticket adds at most one comment.
CommentsBounded ==
  \A t \in Tickets :
    completions[t] + Cardinality(Workers(t)) <= Cardinality(Slots)

IInv ==
  /\ TypeOK /\ TicketWhileWorking /\ OneWorker /\ WrittenOrRecorded
  /\ ProducedStays /\ CommentsBounded

OneSlot == \A r, q \in Slots : r = q

\* The failures between the rotation and the state file are left out, as in
\* the run that checks StateFileUsable.
FileSafe == Faults \intersect {"refresh", "profile", "save"} = {}

\* One invocation at a time always holds the newest token of the file's family.
TokensWork ==
  /\ \A k \in Tokens : k > issued => token[k] = "none"
  /\ \A r \in Slots :
       /\ pc[r] # "idle" => token[mine[r]] = "active"
       /\ pc[r] \notin {"profile", "save"} => token[file] = "active"
  /\ Slots = {} => token[file] = "active"

\* What gets as far as the comment can be completed.
Completable ==
  \A r \in Slots : pc[r] \in {"finalize", "complete"} => ticket[r] \notin Failing

-----------------------------------------------------------------------------
(* How many invocations process a ticket.                                  *)

\* 0 stands for no ticket, every other number for one.
LEMMA TicketNumbers ==
  Tickets \subseteq 0..NumTickets /\ \A t \in 0..NumTickets : t # 0 <=> t \in Tickets
BY ParameterTypes DEF Tickets

\* A ticket with an invocation at work still has room for its comment.
LEMMA RoomForComment ==
  ASSUME TypeOK, CommentsBounded, NEW r \in Slots, NEW t \in Tickets,
         ticket[r] = t
  PROVE  /\ completions[t] + 1 <= Cardinality(Slots)
         /\ Cardinality(Workers(t) \ {r}) = Cardinality(Workers(t)) - 1
<1>1. /\ IsFiniteSet(Workers(t)) /\ Cardinality(Workers(t)) \in Nat
      /\ Cardinality(Slots) \in Nat
  <2>1. Workers(t) \subseteq Slots
    BY DEF Workers
  <2> QED BY <2>1, SlotsFinite, FS_Subset, FS_CardinalityType
<1>2. r \in Workers(t)
  BY DEF Workers
<1>3. Cardinality(Workers(t) \ {r}) = Cardinality(Workers(t)) - 1
  BY <1>1, <1>2, FS_RemoveElement
<1>4. Cardinality(Workers(t) \ {r}) \in Nat
  <2>1. IsFiniteSet(Workers(t) \ {r})
    BY <1>1, FS_RemoveElement
  <2> QED BY <2>1, FS_CardinalityType
<1>5. completions[t] \in Nat
  BY DEF TypeOK
<1> QED BY <1>1, <1>3, <1>4, <1>5 DEF CommentsBounded

\* No step makes the comments and the invocations at work outnumber the slots.
LEMMA BoundStep ==
  TypeOK /\ TicketWhileWorking /\ CommentsBounded /\ [Next]_vars
    => CommentsBounded'
<1> SUFFICES ASSUME TypeOK, TicketWhileWorking, CommentsBounded, [Next]_vars,
                    NEW t \in Tickets
             PROVE  (completions[t] + Cardinality(Workers(t))
                       <= Cardinality(Slots))'
  BY DEF CommentsBounded
<1> DEFINE W == Workers(t)  Bounded == completions[t] + Cardinality(W) <= Cardinality(Slots)
<1>0. /\ Bounded /\ completions[t] \in Nat
      /\ IsFiniteSet(W) /\ Cardinality(W) \in Nat /\ Cardinality(Slots) \in Nat
  <2>1. W \subseteq Slots
    BY DEF Workers
  <2> QED BY <2>1, SlotsFinite, FS_Subset, FS_CardinalityType
          DEF CommentsBounded, TypeOK
<1>1. ASSUME UNCHANGED <<ticket, completions>> PROVE Bounded'
  BY <1>0, <1>1 DEF Workers
<1>2. ASSUME NEW r \in Slots, Leave(r),
             \/ UNCHANGED completions
             \/ completions' = [completions EXCEPT ![ticket[r]] = @ + 1]
                /\ ticket[r] # 0
      PROVE Bounded'
  <2>1. CASE ticket[r] = t
    <3>1. W' = W \ {r}
      BY <1>2, <2>1 DEF Leave, Workers, TypeOK, Tickets
    <3>2. completions'[t] \in {completions[t], completions[t] + 1}
      BY <1>2, <2>1 DEF TypeOK
    <3> HIDE DEF W
    <3> QED BY <1>0, <2>1, <3>1, <3>2, RoomForComment DEF W
  <2>2. CASE ticket[r] # t
    <3>1. W' = W
      BY <1>2, <2>2 DEF Leave, Workers, TypeOK, Tickets
    <3>2. completions'[t] = completions[t]
      BY <1>2, <2>2 DEF TypeOK
    <3> QED BY <1>0, <3>1, <3>2
  <2> QED BY <2>1, <2>2
<1>3. ASSUME NEW r \in Slots, AcquireTicket(r) PROVE Bounded'
  <2>1. CASE UNCHANGED ticket
    BY <1>1, <1>3, <2>1 DEF AcquireTicket, board
  <2>2. CASE \E u \in Pending : ticket' = [ticket EXCEPT ![r] = u]
    <3>1. PICK u \in Pending : ticket' = [ticket EXCEPT ![r] = u]
      BY <2>2
    <3>2. UNCHANGED completions
      BY <1>3 DEF AcquireTicket, board
    <3>3. CASE u = t
      <4>1. completions'[t] = 0
        BY <3>1, <3>2, <3>3 DEF Pending
      <4>2. W' \subseteq Slots
        BY DEF Workers
      <4>3. Cardinality(W') <= Cardinality(Slots) /\ Cardinality(W') \in Nat
        BY <4>2, SlotsFinite, FS_Subset, FS_CardinalityType
      <4> QED BY <4>1, <4>3, <1>0
    <3>4. CASE u # t
      <4>1. pc[r] = "list"
        BY <1>3 DEF AcquireTicket, Call, Goto
      <4>2. ticket[r] = 0
        BY <4>1 DEF TicketWhileWorking, Working
      <4>3. W' = W
        BY <3>1, <3>4, <4>2 DEF Workers, TypeOK, Tickets
      <4> QED BY <1>0, <3>2, <4>3
    <3> QED BY <3>3, <3>4
  <2> QED BY <1>3, <2>1, <2>2 DEF AcquireTicket
<1>4. ASSUME Environment PROVE Bounded'
  BY <1>1, <1>4 DEF Environment, Assign, Unassign, Age, InitAgent, board
<1>5. ASSUME NEW r \in Slots, Start(r) PROVE Bounded'
  BY <1>1, <1>5 DEF Start, board
<1>6. ASSUME NEW r \in Slots, Progress(r) PROVE Bounded'
  <2>1. CASE Complete(r)
    <3>1. ticket[r] # 0
      BY <2>1 DEF Complete, Call, Goto, TicketWhileWorking, Working
    <3> QED BY <1>2, <2>1, <3>1 DEF Complete
  <2> QED BY <1>1, <1>3, <1>6, <2>1
          DEF Progress, Refresh, FetchProfile, SaveState, Acknowledge,
              PrepareWorkspace, Work, Finalize, board
<1>7. ASSUME NEW r \in Slots, Failure(r) PROVE Bounded'
  BY <1>1, <1>2, <1>7
     DEF Failure, RefreshLost, RefreshReused, GiveUp, Unauthorized, board
<1> QED BY <1>1, <1>4, <1>5, <1>6, <1>7 DEF Next, vars, board

-----------------------------------------------------------------------------
(* The other conjuncts of IInv.                                            *)

\* Every variable keeps its type.
LEMMA TypeStep ==
  TypeOK /\ TicketWhileWorking /\ CommentsBounded /\ [Next]_vars => TypeOK'
<1> SUFFICES ASSUME TypeOK, TicketWhileWorking, CommentsBounded, [Next]_vars
             PROVE  TypeOK'
  OBVIOUS
<1> USE DEF TypeOK, Steps, server, work, board, ghost
<1>0. /\ Cardinality(Slots) \in Nat /\ MaxTokens \in Nat
      /\ NumTickets \in Nat /\ issued \in Nat /\ issued <= MaxTokens
  BY ParameterTypes, SlotsFinite, FS_CardinalityType
<1>1. ASSUME Environment PROVE TypeOK'
  <2>1. CASE \E t \in Tickets : Assign(t) \/ Unassign(t)
    BY <2>1 DEF Assign, Unassign
  <2>2. CASE Age
    BY <2>2 DEF Age
  <2>3. CASE InitAgent
    <3>1. /\ issued + 1 \in 1..MaxTokens /\ issued' = issued + 1
          /\ 1..issued \subseteq 1..issued'
      BY <1>0, <2>3 DEF InitAgent
    <3>2. mine \in [Slots -> 1..issued']
      BY <3>1
    <3>3. token' \in [Tokens -> {"none", "active", "used", "revoked"}]
      BY <2>3 DEF InitAgent
    <3> QED BY <2>3, <3>1, <3>2, <3>3 DEF InitAgent
  <2> QED BY <1>1, <2>1, <2>2, <2>3 DEF Environment
<1>2. ASSUME NEW r \in Slots, Start(r) PROVE TypeOK'
  BY <1>2 DEF Start
<1>3. ASSUME NEW r \in Slots, Rotate(mine[r])
      PROVE  /\ issued + 1 \in 1..MaxTokens /\ issued' = issued + 1
             /\ 1..issued \subseteq 1..issued'
             /\ mine \in [Slots -> 1..issued']
             /\ token' \in [Tokens -> {"none", "active", "used", "revoked"}]
             /\ family' \in [Tokens -> Tokens]
             /\ near' = near
  <2>1. mine[r] \in Tokens
    BY <1>0 DEF Tokens
  <2>2. /\ issued + 1 \in 1..MaxTokens /\ issued' = issued + 1
        /\ 1..issued \subseteq 1..issued'
    BY <1>0, <1>3 DEF Rotate
  <2>3. mine \in [Slots -> 1..issued']
    BY <2>2
  <2> QED BY <1>3, <2>1, <2>2, <2>3 DEF Rotate, Tokens
<1>4. ASSUME NEW r \in Slots, Progress(r) PROVE TypeOK'
  <2>1. CASE Refresh(r)
    <3>1. mine' \in [Slots -> 1..issued']
      BY <1>3, <2>1 DEF Refresh
    <3> QED BY <1>3, <2>1, <3>1 DEF Refresh, Goto
  <2>2. CASE FetchProfile(r) \/ SaveState(r) \/ Acknowledge(r)
    BY <2>2 DEF FetchProfile, SaveState, Acknowledge, Call, Goto
  <2>3. CASE AcquireTicket(r)
    <3>1. Pending \subseteq 0..NumTickets
      BY TicketNumbers DEF Pending
    <3>2. ticket' \in [Slots -> 0..NumTickets] /\ overlapped' \subseteq Tickets
      BY <2>3, <3>1 DEF AcquireTicket, Pending
    <3> QED BY <2>3, <3>2 DEF AcquireTicket, Call, Goto
  <2>4. CASE PrepareWorkspace(r) \/ Work(r) \/ Finalize(r)
    <3>2. /\ checkout' \in [Tickets -> {"none", "clean", "dirty", "recorded"}]
          /\ wrote' \subseteq Slots
      BY <2>4 DEF PrepareWorkspace, Work, Finalize
    <3>3. pc' \in [Slots -> Steps \union {"idle"}]
      BY <2>4 DEF PrepareWorkspace, Work, Finalize, Call, Goto
    <3> QED BY <2>4, <3>2, <3>3 DEF PrepareWorkspace, Work, Finalize
  <2>5. CASE Complete(r)
    <3>1. ticket[r] \in Tickets
      BY TicketNumbers, <2>5 DEF Complete, Call, Goto, TicketWhileWorking, Working
    <3>3. completions[ticket[r]] + 1 \in 0..Cardinality(Slots)
      <4>1. completions[ticket[r]] + 1 <= Cardinality(Slots)
        BY <3>1, RoomForComment
      <4>2. completions[ticket[r]] \in Nat
        BY <3>1
      <4> QED BY <1>0, <4>1, <4>2
    <3>4. completions' \in [Tickets -> 0..Cardinality(Slots)]
      BY <2>5, <3>1, <3>3 DEF Complete
    <3>5. pc' \in [Slots -> Steps \union {"idle"}]
      BY <2>5 DEF Complete, Call, Goto
    <3>6. ticket' \in [Slots -> 0..NumTickets] /\ wrote' \subseteq Slots
      BY <1>0, <2>5 DEF Complete, Leave
    <3> QED BY <2>5, <3>1, <3>4, <3>5, <3>6 DEF Complete
  <2> QED BY <1>4, <2>1, <2>2, <2>3, <2>4, <2>5 DEF Progress
<1>5. ASSUME NEW r \in Slots, Failure(r) PROVE TypeOK'
  <2>1. CASE RefreshLost(r)
    BY <1>3, <2>1 DEF RefreshLost, Goto
  <2>2. CASE RefreshReused(r)
    BY <2>2 DEF RefreshReused, Goto
  <2>3. CASE GiveUp(r)
    <3>1. checkout' \in [Tickets -> {"none", "clean", "dirty", "recorded"}]
      BY <2>3 DEF GiveUp
    <3>2. /\ ticket' \in [Slots -> 0..NumTickets] /\ wrote' \subseteq Slots
      BY <1>0, <2>3 DEF GiveUp, Leave
    <3> QED BY <2>3, <3>1, <3>2 DEF GiveUp
  <2>4. CASE Unauthorized(r)
    BY <1>0, <2>4 DEF Unauthorized, Leave
  <2> QED BY <1>5, <2>1, <2>2, <2>3, <2>4 DEF Failure
<1>6. CASE UNCHANGED vars
  BY <1>6 DEF vars
<1> QED BY <1>1, <1>2, <1>4, <1>5, <1>6 DEF Next

\* An invocation has a ticket from the list to the comment.
LEMMA TicketStep ==
  TypeOK /\ TicketWhileWorking /\ [Next]_vars => TicketWhileWorking'
<1> SUFFICES ASSUME TypeOK, TicketWhileWorking, [Next]_vars
             PROVE  TicketWhileWorking'
  OBVIOUS
<1> USE DEF TypeOK, TicketWhileWorking, Working, server, work, board, ghost
<1>1. ASSUME Environment PROVE TicketWhileWorking'
  BY <1>1 DEF Environment, Assign, Unassign, Age, InitAgent
<1>2. ASSUME NEW r \in Slots, Start(r) PROVE TicketWhileWorking'
  BY <1>2 DEF Start
<1>3. ASSUME NEW r \in Slots, Progress(r) PROVE TicketWhileWorking'
  <2>1. CASE Refresh(r) \/ FetchProfile(r) \/ SaveState(r)
    BY <2>1 DEF Refresh, FetchProfile, SaveState, Call, Goto
  <2>2. CASE AcquireTicket(r)
    BY <2>2, TicketNumbers DEF AcquireTicket, Pending, Call, Goto
  <2>3. CASE Acknowledge(r) \/ PrepareWorkspace(r)
    BY <2>3 DEF Acknowledge, PrepareWorkspace, Call, Goto
  <2>4. CASE Work(r) \/ Finalize(r)
    BY <2>4 DEF Work, Finalize, Call, Goto
  <2>5. CASE Complete(r)
    BY <2>5 DEF Complete, Leave, Call, Goto
  <2> QED BY <1>3, <2>1, <2>2, <2>3, <2>4, <2>5 DEF Progress
<1>4. ASSUME NEW r \in Slots, Failure(r) PROVE TicketWhileWorking'
  BY <1>4 DEF Failure, RefreshLost, RefreshReused, GiveUp, Unauthorized, Leave,
              Goto
<1>5. CASE UNCHANGED vars
  BY <1>5 DEF vars
<1> QED BY <1>1, <1>2, <1>3, <1>4, <1>5 DEF Next

\* Only the list gives an invocation a ticket, and it notes an overlap.
LEMMA OneWorkerStep ==
  TypeOK /\ TicketWhileWorking /\ OneWorker /\ [Next]_vars => OneWorker'
<1> SUFFICES ASSUME TypeOK, TicketWhileWorking, OneWorker, [Next]_vars
             PROVE  OneWorker'
  OBVIOUS
<1> USE DEF TypeOK, OneWorker, server, work, board, ghost
<1>1. ASSUME UNCHANGED <<ticket, completions, overlapped>> PROVE OneWorker'
  BY <1>1
<1>2. ASSUME NEW r \in Slots, Leave(r), UNCHANGED <<completions, overlapped>>
      PROVE OneWorker'
  BY <1>2, TicketNumbers DEF Leave
<1>3. ASSUME NEW r \in Slots, AcquireTicket(r) PROVE OneWorker'
  <2>1. CASE UNCHANGED <<ticket, overlapped>>
    BY <1>1, <1>3, <2>1 DEF AcquireTicket
  <2>2. CASE \E t \in Pending :
               /\ ticket' = [ticket EXCEPT ![r] = t]
               /\ overlapped' = overlapped \union
                    {u \in {t} : \E q \in Slots : ticket[q] = t}
    <3>1. PICK t \in Pending :
               /\ ticket' = [ticket EXCEPT ![r] = t]
               /\ overlapped' = overlapped \union
                    {u \in {t} : \E q \in Slots : ticket[q] = t}
      BY <2>2
    <3>2. UNCHANGED completions /\ completions[t] = 0 /\ t \in Tickets
      BY <1>3 DEF AcquireTicket, Pending
    <3>3. overlapped \subseteq overlapped'
      BY <3>1
    <3>4. ASSUME t \notin overlapped', NEW q \in Slots PROVE ticket[q] # t
      BY <3>1, <3>4
    <3> QED BY <3>1, <3>2, <3>3, <3>4
  <2> QED BY <1>3, <2>1, <2>2 DEF AcquireTicket
<1>4. ASSUME NEW r \in Slots, Complete(r) PROVE OneWorker'
  <2>1. ticket[r] \in Tickets /\ Leave(r) /\ UNCHANGED overlapped
    BY <1>4, TicketNumbers DEF TicketWhileWorking, Working, Complete, Call, Goto
  <2>2. completions' = [completions EXCEPT ![ticket[r]] = @ + 1]
    BY <1>4 DEF Complete
  <2>3. ticket' = [ticket EXCEPT ![r] = 0]
    BY <2>1 DEF Leave
  <2> SUFFICES ASSUME NEW t \in Tickets \ overlapped
               PROVE  /\ \A q, p \in Slots : ticket'[q] = t /\ ticket'[p] = t => q = p
                      /\ \A q \in Slots : ticket'[q] = t => completions'[t] = 0
                      /\ completions'[t] <= 1
    BY <2>1
  <2>4. CASE ticket[r] = t
    BY <2>1, <2>2, <2>3, <2>4, TicketNumbers
  <2>5. CASE ticket[r] # t
    BY <2>1, <2>2, <2>3, <2>5, TicketNumbers
  <2> QED BY <2>4, <2>5
<1>5. ASSUME NEW r \in Slots, Progress(r) PROVE OneWorker'
  BY <1>1, <1>3, <1>4, <1>5
     DEF Progress, Refresh, FetchProfile, SaveState, Acknowledge,
         PrepareWorkspace, Work, Finalize
<1>6. ASSUME NEW r \in Slots, Failure(r) PROVE OneWorker'
  BY <1>1, <1>2, <1>6
     DEF Failure, RefreshLost, RefreshReused, GiveUp, Unauthorized
<1> QED
  BY <1>1, <1>5, <1>6
     DEF Next, Environment, Assign, Unassign, Age, InitAgent, Start, vars

\* The checkout of a ticket follows its one invocation.
LEMMA WrittenStep ==
  /\ TypeOK /\ TicketWhileWorking /\ OneWorker /\ WrittenOrRecorded
  /\ [Next]_vars
  => WrittenOrRecorded'
<1> SUFFICES ASSUME TypeOK, TicketWhileWorking, OneWorker, WrittenOrRecorded,
                    [Next]_vars
             PROVE  WrittenOrRecorded'
  OBVIOUS
<1> USE TicketNumbers
    DEF TypeOK, WrittenOrRecorded, server, work, board, ghost
<1>0. \A r \in wrote : r \in Slots /\ ticket[r] \in Tickets
  BY DEF TicketWhileWorking, Working
<1>1. ASSUME Environment PROVE WrittenOrRecorded'
  BY <1>1 DEF Environment, Assign, Unassign, Age, InitAgent
<1>2. ASSUME NEW r \in Slots, Start(r) PROVE WrittenOrRecorded'
  BY <1>2 DEF Start
<1>3. ASSUME NEW r \in Slots, Progress(r) PROVE WrittenOrRecorded'
  <2>1. CASE Refresh(r) \/ FetchProfile(r) \/ SaveState(r) \/ Acknowledge(r)
    BY <2>1 DEF Refresh, FetchProfile, SaveState, Acknowledge, Call, Goto
  <2>2. CASE AcquireTicket(r)
    BY <2>2 DEF AcquireTicket, Call, Goto
  <2>3. CASE PrepareWorkspace(r)
    BY <1>0, <2>3 DEF PrepareWorkspace, Call, Goto, OneWorker, TicketWhileWorking,
                      Working
  <2>4. CASE Work(r)
    BY <1>0, <2>4 DEF Work, Call, Goto, OneWorker, TicketWhileWorking, Working
  <2>5. CASE Finalize(r)
    BY <1>0, <2>5 DEF Finalize, Goto, OneWorker, TicketWhileWorking, Working
  <2>6. CASE Complete(r)
    BY <2>6 DEF Complete, Leave, Call, Goto
  <2> QED BY <1>3, <2>1, <2>2, <2>3, <2>4, <2>5, <2>6 DEF Progress
<1>4. ASSUME NEW r \in Slots, Failure(r) PROVE WrittenOrRecorded'
  <2>1. CASE RefreshLost(r) \/ RefreshReused(r)
    BY <2>1 DEF RefreshLost, RefreshReused, Goto
  <2>2. CASE GiveUp(r)
    BY <1>0, <2>2 DEF GiveUp, Leave, OneWorker, TicketWhileWorking, Working
  <2>3. CASE Unauthorized(r)
    BY <2>3 DEF Unauthorized, Leave
  <2> QED BY <1>4, <2>1, <2>2, <2>3 DEF Failure
<1>5. CASE UNCHANGED vars
  BY <1>5 DEF vars
<1> QED BY <1>1, <1>2, <1>3, <1>4, <1>5 DEF Next

\* Nobody touches the checkout of a completed ticket.
LEMMA ProducedStep ==
  /\ TypeOK /\ TicketWhileWorking /\ OneWorker /\ WrittenOrRecorded
  /\ ProducedStays /\ [Next]_vars
  => ProducedStays'
<1> SUFFICES ASSUME TypeOK, TicketWhileWorking, OneWorker, WrittenOrRecorded,
                    ProducedStays, [Next]_vars
             PROVE  ProducedStays'
  OBVIOUS
<1> USE TicketNumbers DEF TypeOK, ProducedStays, server, work, board, ghost
<1>0. ASSUME NEW r \in Slots, pc[r] \in Working, ticket[r] \notin overlapped
      PROVE  ticket[r] \in Tickets \ produced
  BY <1>0 DEF OneWorker, TicketWhileWorking
<1>1. ASSUME UNCHANGED <<produced, overlapped, checkout, completions>>
      PROVE ProducedStays'
  BY <1>1
<1>2. ASSUME NEW r \in Slots, pc[r] \in Working,
             \A u \in Tickets \ {ticket[r]} : checkout'[u] = checkout[u],
             UNCHANGED <<produced, overlapped, completions>>
      PROVE  ProducedStays'
  BY <1>0, <1>2
<1>3. ASSUME NEW r \in Slots, Progress(r) PROVE ProducedStays'
  <2>1. CASE AcquireTicket(r)
    BY <2>1 DEF AcquireTicket
  <2>2. CASE PrepareWorkspace(r) \/ Work(r) \/ Finalize(r)
    <3>1. pc[r] \in Working
      BY <2>2 DEF PrepareWorkspace, Work, Finalize, Call, Goto, Working
    <3>2. \A u \in Tickets \ {ticket[r]} : checkout'[u] = checkout[u]
      BY <2>2 DEF PrepareWorkspace, Work, Finalize
    <3> QED BY <1>2, <2>2, <3>1, <3>2 DEF PrepareWorkspace, Work, Finalize
  <2>3. CASE Complete(r)
    <3>1. ticket[r] \in Tickets /\ pc[r] = "complete"
      BY <2>3 DEF Complete, Call, Goto, TicketWhileWorking, Working
    <3>2. r \in wrote /\ ticket[r] \notin overlapped => checkout[ticket[r]] = "recorded"
      BY <3>1 DEF WrittenOrRecorded
    <3>3. \A t \in Tickets : completions'[t] >= completions[t]
      BY <2>3, <3>1 DEF Complete
    <3>4. completions'[ticket[r]] > 0
      BY <2>3, <3>1 DEF Complete
    <3> QED BY <2>3, <3>2, <3>3, <3>4 DEF Complete
  <2> QED BY <1>1, <1>3, <2>1, <2>2, <2>3
          DEF Progress, Refresh, FetchProfile, SaveState, Acknowledge
<1>4. ASSUME NEW r \in Slots, Failure(r) PROVE ProducedStays'
  <2>1. CASE UNCHANGED checkout
    BY <1>1, <1>4, <2>1 DEF Failure, RefreshLost, RefreshReused, GiveUp, Unauthorized
  <2>2. CASE GiveUp(r) /\ pc[r] \in Working
    <3>1. \A u \in Tickets \ {ticket[r]} : checkout'[u] = checkout[u]
      BY <2>2 DEF GiveUp
    <3> QED BY <1>2, <2>2, <3>1 DEF GiveUp
  <2> QED BY <1>4, <2>1, <2>2
          DEF Failure, RefreshLost, RefreshReused, GiveUp, Unauthorized, Working
<1> QED
  BY <1>1, <1>3, <1>4
     DEF Next, Environment, Assign, Unassign, Age, InitAgent, Start, vars

-----------------------------------------------------------------------------
(* What holds however invocations overlap.                                 *)

\* The initial states satisfy the inductive invariant.
LEMMA InitIInv == Init => IInv
<1> SUFFICES ASSUME Init PROVE IInv
  OBVIOUS
<1>0. Cardinality(Slots) \in Nat /\ 1 \in 1..MaxTokens /\ NumTickets \in Nat
  BY ParameterTypes, SlotsFinite, FS_CardinalityType
<1>1. TypeOK
  <2>1. family \in [Tokens -> Tokens]
    BY DEF Init
  <2>2. token \in [Tokens -> {"none", "active", "used", "revoked"}]
    BY DEF Init
  <2> QED BY <1>0, <2>1, <2>2 DEF Init, TypeOK
<1>2. TicketWhileWorking /\ WrittenOrRecorded /\ ProducedStays
  BY DEF Init, TicketWhileWorking, Working, WrittenOrRecorded, ProducedStays
<1>3. OneWorker
  BY TicketNumbers DEF Init, OneWorker
<1>4. CommentsBounded
  <2> SUFFICES ASSUME NEW t \in Tickets
               PROVE  completions[t] + Cardinality(Workers(t)) <= Cardinality(Slots)
    BY DEF CommentsBounded
  <2>1. Workers(t) = {}
    BY TicketNumbers DEF Init, Workers
  <2>2. Cardinality(Workers(t)) = 0
    BY <2>1, FS_EmptySet
  <2> QED BY <1>0, <2>2 DEF Init
<1> QED BY <1>1, <1>2, <1>3, <1>4 DEF IInv

\* Every step preserves the inductive invariant.
LEMMA StepIInv == IInv /\ [Next]_vars => IInv'
BY TypeStep, TicketStep, OneWorkerStep, WrittenStep, ProducedStep, BoundStep
   DEF IInv

\* The inductive invariant holds in every reachable state.
THEOREM Invariance == Spec => []IInv
BY InitIInv, StepIInv, PTL DEF Spec

\* Every variable keeps its type; in particular no ticket collects more
\* comments than there are invocations.
THEOREM TypeCorrect == Spec => []TypeOK
<1>1. IInv => TypeOK
  BY DEF IInv
<1> QED BY <1>1, Invariance, PTL

\* A ticket that two invocations never processed at once gets at most one
\* completion comment (run.go:115-203).
THEOREM CompletesOnce == Spec => []CompletedOnce
<1>1. IInv => CompletedOnce
  BY DEF IInv, OneWorker, CompletedOnce
<1> QED BY <1>1, Invariance, PTL

\* The change such a comment reports stays recorded (workspace.go:60).
THEOREM WorkSurvives == Spec => []CompletedWorkSurvives
<1>1. IInv => CompletedWorkSurvives
  BY DEF IInv, ProducedStays, CompletedWorkSurvives
<1> QED BY <1>1, Invariance, PTL

-----------------------------------------------------------------------------
(* One invocation at a time.                                               *)

\* No failure falls between a rotation and the state file, and there is no
\* second invocation to rotate the token: it stays the newest.
LEMMA TokensStep ==
  ASSUME OneSlot, FileSafe
  PROVE  TypeOK /\ TokensWork /\ [Next]_vars => TokensWork'
<1> SUFFICES ASSUME TypeOK, TokensWork, [Next]_vars
             PROVE  TokensWork'
  OBVIOUS
<1> USE DEF TypeOK, Steps, server, work, board, ghost
<1>0. /\ MaxTokens \in Nat /\ issued \in Nat /\ issued <= MaxTokens
      /\ \A k \in 1..issued : k \in Tokens /\ k # issued + 1
      /\ \A k \in Tokens : k \in Nat
  BY ParameterTypes DEF Tokens
<1>1. ASSUME UNCHANGED <<issued, token, file, mine>>,
             \A r \in Slots : pc'[r] # "idle" => pc[r] # "idle",
             \A r \in Slots : pc'[r] \notin {"profile", "save"}
                               => pc[r] \notin {"profile", "save"}
      PROVE  TokensWork'
  BY <1>1 DEF TokensWork
<1>2. ASSUME issued < MaxTokens
      PROVE  /\ issued + 1 \in Tokens /\ issued + 1 > issued
             /\ \A k \in Tokens : k > issued + 1 => k > issued /\ k # issued + 1
  BY <1>0, <1>2 DEF Tokens
<1>3. ASSUME Environment PROVE TokensWork'
  <2>1. CASE InitAgent
    BY <1>0, <1>2, <2>1 DEF InitAgent, TokensWork
  <2> QED BY <1>1, <1>3, <2>1 DEF Environment, Assign, Unassign, Age
<1>4. ASSUME NEW r \in Slots, Start(r) PROVE TokensWork'
  <2>1. \A q \in Slots : q = r
    BY DEF OneSlot
  <2>2. token[file] = "active"
    BY <1>4 DEF Start, TokensWork
  <2> QED BY <1>4, <2>1, <2>2 DEF Start, TokensWork
<1>5. ASSUME NEW r \in Slots, Progress(r) PROVE TokensWork'
  <2>0. \A q \in Slots : q = r
    BY DEF OneSlot
  <2>1. CASE Refresh(r)
    <3>1. issued < MaxTokens
      BY <2>1 DEF Refresh, Rotate
    <3>2. token'[issued + 1] = "active"
      BY <1>0, <1>2, <2>1, <3>1 DEF Refresh, Rotate
    <3>3. mine'[r] = issued + 1 /\ pc'[r] = "profile" /\ issued' = issued + 1
      BY <2>1 DEF Refresh, Rotate, Goto
    <3>4. \A k \in Tokens : k > issued + 1 => token'[k] = "none"
      BY <1>0, <1>2, <2>1, <3>1 DEF Refresh, Rotate, TokensWork
    <3> QED BY <2>0, <3>2, <3>3, <3>4 DEF TokensWork
  <2>2. CASE SaveState(r)
    BY <2>0, <2>2 DEF SaveState, Goto, TokensWork
  <2>3. CASE FetchProfile(r)
    BY <1>1, <2>3 DEF FetchProfile, Call, Goto
  <2>4. CASE AcquireTicket(r) \/ Acknowledge(r) \/ PrepareWorkspace(r)
    BY <1>1, <2>4 DEF AcquireTicket, Acknowledge, PrepareWorkspace, Call, Goto
  <2>5. CASE Work(r) \/ Finalize(r) \/ Complete(r)
    BY <1>1, <2>5 DEF Work, Finalize, Complete, Call, Goto
  <2> QED BY <1>5, <2>1, <2>2, <2>3, <2>4, <2>5 DEF Progress
<1>6. ASSUME NEW r \in Slots, Failure(r) PROVE TokensWork'
  <2>1. ~RefreshLost(r)
    BY DEF RefreshLost, FileSafe
  <2>2. ~RefreshReused(r)
    BY DEF RefreshReused, Goto, TokensWork
  <2>3. CASE GiveUp(r)
    BY <1>1, <2>3 DEF GiveUp, FileSafe
  <2>4. ~Unauthorized(r)
    BY DEF Unauthorized, TokensWork
  <2> QED BY <1>6, <2>1, <2>2, <2>3, <2>4 DEF Failure
<1> QED BY <1>1, <1>3, <1>4, <1>5, <1>6 DEF Next, vars

\* With one invocation at a time, and no failure between a rotation and the
\* rename of the state file, the file always holds a working token when no
\* invocation runs (run.go:90-113).
THEOREM FileUsable ==
  ASSUME OneSlot, FileSafe
  PROVE  Spec => []StateFileUsable
<1>1. Init => TokensWork
  <2>1. ParameterTypes => 1 \in Tokens /\ Tokens \subseteq Nat
    BY DEF ParameterTypes, Tokens
  <2> QED BY <2>1, ParameterTypes DEF Init, TokensWork
<1>2. TypeOK /\ TokensWork /\ [Next]_vars => TokensWork'
  BY TokensStep
<1>3. TokensWork => StateFileUsable
  BY DEF TokensWork, StateFileUsable
<1> QED BY <1>1, <1>2, <1>3, TypeCorrect, PTL DEF Spec

-----------------------------------------------------------------------------
(* The agent as a TicketQueue.                                             *)

\* One invocation at a time overlaps with none, and gets to the comment only
\* with a ticket that can be worked on.
QueueInv == IInv /\ Completable /\ overlapped = {}

\* Tickets in work, as the mapping counts them.
Taken == {ticket[r] : r \in Slots} \ {0}

\* QueueInv is inductive when invocations do not overlap.
LEMMA QueueInvStep ==
  ASSUME OneSlot
  PROVE  QueueInv /\ [Next]_vars => QueueInv'
<1> SUFFICES ASSUME QueueInv, [Next]_vars PROVE QueueInv'
  OBVIOUS
<1> USE DEF server, work, board, ghost
<1>1. IInv'
  BY StepIInv DEF QueueInv
<1>2. Completable'
  <2> USE DEF Completable, QueueInv, IInv, TypeOK, TicketWhileWorking, Working
  <2>1. ASSUME UNCHANGED ticket,
               \A r \in Slots : pc'[r] \in {"finalize", "complete"}
                  => pc[r] \in {"finalize", "complete"} \/ ticket[r] \notin Failing
        PROVE  Completable'
    BY <2>1
  <2>2. ASSUME NEW r \in Slots, Leave(r), pc' = [pc EXCEPT ![r] = "idle"]
        PROVE  Completable'
    BY <2>2 DEF Leave
  <2>3. ASSUME NEW r \in Slots, AcquireTicket(r) PROVE Completable'
    BY <2>3 DEF AcquireTicket, Call, Goto
  <2>4. ASSUME NEW r \in Slots, Progress(r) PROVE Completable'
    <3>1. CASE Work(r)
      BY <2>1, <3>1 DEF Work, Call, Goto
    <3>2. CASE Complete(r)
      BY <2>2, <3>2 DEF Complete, Call, Goto
    <3> QED BY <2>1, <2>3, <2>4, <3>1, <3>2
            DEF Progress, Refresh, FetchProfile, SaveState, Acknowledge,
                PrepareWorkspace, Finalize, Call, Goto
  <2>5. ASSUME NEW r \in Slots, Failure(r) PROVE Completable'
    BY <2>1, <2>2, <2>5
       DEF Failure, RefreshLost, RefreshReused, GiveUp, Unauthorized, Goto
  <2> QED BY <2>1, <2>4, <2>5
          DEF Next, Environment, Assign, Unassign, Age, InitAgent, Start, vars
<1>3. overlapped' = {}
  <2>1. ASSUME NEW r \in Slots, AcquireTicket(r) PROVE overlapped' = {}
    <3>1. ticket[r] = 0
      BY <2>1 DEF AcquireTicket, Call, Goto, QueueInv, IInv, TypeOK,
                  TicketWhileWorking, Working
    <3>2. \A q \in Slots : ticket[q] \notin Pending
      BY <3>1, TicketNumbers DEF OneSlot, QueueInv, IInv, TypeOK, Pending
    <3> QED BY <2>1, <3>2 DEF AcquireTicket, QueueInv
  <2> QED BY <2>1
          DEF QueueInv, Next, Environment, Assign, Unassign, Age, InitAgent,
              Start, Progress, Refresh, FetchProfile, SaveState, Acknowledge,
              PrepareWorkspace, Work, Finalize, Complete, Failure, RefreshLost,
              RefreshReused, GiveUp, Unauthorized, vars
<1> QED BY <1>1, <1>2, <1>3 DEF QueueInv

\* A step of the agent is a step of the queue, or leaves the queue alone.
LEMMA QueueStep ==
  ASSUME OneSlot
  PROVE  QueueInv /\ [Next]_vars => [Queue!Next]_(Queue!vars)
<1> SUFFICES ASSUME QueueInv, [Next]_vars PROVE [Queue!Next]_(Queue!vars)
  OBVIOUS
<1> USE DEF server, work, board, ghost
<1> DEFINE Abstract == [Queue!Next]_(Queue!vars)
<1>1. ASSUME UNCHANGED <<assigned, Taken, completions>> PROVE Abstract
  BY <1>1 DEF Queue!vars, Taken
<1>2. ASSUME UNCHANGED <<assigned, ticket, completions>> PROVE Abstract
  BY <1>1, <1>2 DEF Taken
<1>3. ASSUME NEW r \in Slots
      PROVE  /\ Taken = {ticket[r]} \ {0}
             /\ \A n \in 0..NumTickets : ticket' = [ticket EXCEPT ![r] = n]
                                           => Taken' = {n} \ {0}
             /\ ticket[r] \in 0..NumTickets /\ 0 \in 0..NumTickets
  BY ParameterTypes DEF OneSlot, Taken, QueueInv, IInv, TypeOK
<1>4. ASSUME NEW r \in Slots, Leave(r), UNCHANGED <<assigned, completions>>
      PROVE  Abstract
  <2>1. Taken' = {}
    BY <1>3, <1>4 DEF Leave
  <2>2. CASE ticket[r] = 0
    BY <1>1, <1>3, <1>4, <2>1, <2>2
  <2>3. CASE ticket[r] # 0
    <3>1. PICK t \in Tickets : t = ticket[r]
      BY <1>3, <2>3, TicketNumbers
    <3>2. Queue!GiveUp(t)
      BY <1>3, <1>4, <2>1, <2>3, <3>1 DEF Queue!GiveUp, Taken
    <3> QED BY <3>2 DEF Queue!Next
  <2> QED BY <2>2, <2>3
<1>5. ASSUME NEW r \in Slots, AcquireTicket(r) PROVE Abstract
  <2>1. CASE UNCHANGED ticket
    BY <1>2, <1>5, <2>1 DEF AcquireTicket
  <2>2. CASE \E t \in Pending : ticket' = [ticket EXCEPT ![r] = t]
    <3>1. PICK t \in Pending : ticket' = [ticket EXCEPT ![r] = t]
      BY <2>2
    <3>2. t \in Tickets /\ t \in assigned /\ completions[t] = 0
      BY DEF Pending, QueueInv, IInv, TypeOK
    <3>3. ticket[r] = 0
      BY <1>5 DEF AcquireTicket, Call, Goto, QueueInv, IInv, TypeOK,
                  TicketWhileWorking, Working
    <3>4. Taken = {} /\ Taken' = {t}
      BY <1>3, <3>1, <3>2, <3>3, TicketNumbers
    <3>5. UNCHANGED <<assigned, completions>>
      BY <1>5 DEF AcquireTicket
    <3>6. Queue!Take(t)
      BY <3>2, <3>4, <3>5 DEF Queue!Take, Taken
    <3> QED BY <3>2, <3>6 DEF Queue!Next
  <2> QED BY <1>5, <2>1, <2>2 DEF AcquireTicket
<1>6. ASSUME NEW r \in Slots, Complete(r) PROVE Abstract
  <2>1. PICK t \in Tickets \ Failing : t = ticket[r] /\ t # 0
    BY <1>3, <1>6, TicketNumbers
       DEF Complete, Call, Goto, QueueInv, IInv, Completable,
           TicketWhileWorking, Working
  <2>2. completions[t] = 0
    BY <2>1 DEF QueueInv, IInv, OneWorker
  <2>3. completions' = [completions EXCEPT ![t] = 1]
    BY <1>6, <2>1, <2>2 DEF Complete
  <2>4. Taken = {t} /\ Taken' = {} /\ UNCHANGED assigned
    BY <1>3, <1>6, <2>1 DEF Complete, Leave
  <2>5. Queue!Complete(t)
    BY <2>1, <2>2, <2>3, <2>4 DEF Queue!Complete, Taken
  <2> QED BY <2>5 DEF Queue!Next
<1>7. ASSUME Environment PROVE Abstract
  <2>1. CASE \E t \in Tickets : Assign(t) \/ Unassign(t)
    <3>1. PICK t \in Tickets : Assign(t) \/ Unassign(t)
      BY <2>1
    <3>2. UNCHANGED <<Taken, completions>>
      BY <3>1 DEF Assign, Unassign, Taken
    <3>3. Queue!Assign(t) \/ Queue!Unassign(t)
      BY <3>1, <3>2 DEF Assign, Unassign, Queue!Assign, Queue!Unassign, Taken
    <3> QED BY <3>3 DEF Queue!Next
  <2> QED BY <1>2, <1>7, <2>1 DEF Environment, Age, InitAgent
<1>8. ASSUME NEW r \in Slots, Progress(r) PROVE Abstract
  BY <1>2, <1>5, <1>6, <1>8
     DEF Progress, Refresh, FetchProfile, SaveState, Acknowledge,
         PrepareWorkspace, Work, Finalize
<1>9. ASSUME NEW r \in Slots, Failure(r) PROVE Abstract
  BY <1>2, <1>4, <1>9
     DEF Failure, RefreshLost, RefreshReused, GiveUp, Unauthorized
<1> QED BY <1>2, <1>7, <1>8, <1>9 DEF Next, Start, vars

\* One invocation at a time does what TicketQueue allows and nothing else: it
\* takes assigned pending tickets and completes each at most once, none that
\* always fails (run.go:79-203).
THEOREM RefinesQueue ==
  ASSUME OneSlot
  PROVE  Spec => Queue!Safety
<1>1. Init => QueueInv
  BY InitIInv DEF Init, QueueInv, Completable
<1>2. QueueInv /\ [Next]_vars => QueueInv'
  BY QueueInvStep
<1>3. Init => Queue!Init
  BY DEF Init, Queue!Init
<1>4. QueueInv /\ [Next]_vars => [Queue!Next]_(Queue!vars)
  BY QueueStep
<1> QED BY <1>1, <1>2, <1>3, <1>4, PTL DEF Spec, Queue!Safety

=============================================================================

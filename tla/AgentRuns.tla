------------------------------- MODULE AgentRuns -------------------------------
(***************************************************************************)
(* Invocations of `agent run` (src/cmd/agent/run.go) against the server:   *)
(* the state file with the OAuth token, the refresh that rotates it, the   *)
(* ticket picked from GET /api/v1/ticket/assigned, the checkout it works   *)
(* in and the completion comment that ends it.                             *)
(*                                                                         *)
(* An invocation runs in a slot; one slot is an agent started by hand or   *)
(* by a timer that waits, several slots are invocations that overlap,      *)
(* which nothing in the code prevents.  Tokens are numbered in the order   *)
(* the server issues them, and an access token works as long as its        *)
(* refresh token is active, because rotation and revocation end both.      *)
(* Comments other than completions change nothing an invocation reads.     *)
(***************************************************************************)
EXTENDS Naturals, FiniteSets

CONSTANTS
  NumTickets,  \* tickets, numbered in the order the server lists them
  Slots,       \* invocations that can run at the same time
  MaxTokens,   \* bound: tokens issued
  Faults,      \* steps at which a call may fail or the process may stop
  Failing,     \* tickets that cannot be worked on, however often it is tried
  Withdrawable \* bound: tickets whose assignment may be withdrawn

Tickets == 1..NumTickets
Tokens  == 1..MaxTokens

Steps == {"refresh", "profile", "save", "list", "ack", "prepare", "work",
          "finalize", "complete"}

ASSUME ParameterTypes ==
  /\ NumTickets \in Nat /\ MaxTokens \in Nat \ {0} /\ Faults \subseteq Steps
  /\ Failing \subseteq Tickets /\ (Failing # {} => "work" \in Faults)
  /\ Withdrawable \subseteq Tickets

ASSUME SlotsFinite == IsFiniteSet(Slots)

VARIABLES
  issued,      \* number of tokens issued
  token,       \* server: state of each refresh token
  family,      \* server: the first token of each token's family
  near,        \* tokens whose access token is about to expire, or has
  file,        \* token in state.json
  pc,          \* progress of each invocation
  mine,        \* the token it holds in memory
  ticket,      \* the ticket it processes, 0 for none
  wrote,       \* invocations whose tool calls changed the checkout
  checkout,    \* working copy of each ticket under --workspace
  assigned,    \* tickets assigned to the agent's user
  completions, \* completion comments on each ticket
  produced,    \* ghost: tickets completed by an invocation that changed files
  overlapped   \* ghost: tickets two invocations have processed at once

server == <<issued, token, family, near>>
work   == <<wrote, checkout>>
board  == <<assigned, completions>>
ghost  == <<produced, overlapped>>
vars   == <<server, file, pc, mine, ticket, work, board, ghost>>

TypeOK ==
  /\ issued \in 1..MaxTokens
  /\ token \in [Tokens -> {"none", "active", "used", "revoked"}]
  /\ family \in [Tokens -> Tokens]
  /\ near \subseteq 1..issued
  /\ file \in 1..issued
  /\ pc \in [Slots -> Steps \union {"idle"}]
  /\ mine \in [Slots -> 1..issued]
  /\ ticket \in [Slots -> 0..NumTickets]
  /\ wrote \subseteq Slots
  /\ checkout \in [Tickets -> {"none", "clean", "dirty", "recorded"}]
  /\ assigned \subseteq Tickets
  /\ completions \in [Tickets -> 0..Cardinality(Slots)]
  /\ produced \subseteq Tickets /\ overlapped \subseteq Tickets

\* `agent init` has run once.
Init ==
  /\ issued = 1 /\ near = {} /\ file = 1
  /\ token = [k \in Tokens |-> IF k = 1 THEN "active" ELSE "none"]
  /\ family = [k \in Tokens |-> k]
  /\ pc = [r \in Slots |-> "idle"] /\ mine = [r \in Slots |-> 1]
  /\ ticket = [r \in Slots |-> 0] /\ wrote = {}
  /\ checkout = [t \in Tickets |-> "none"]
  /\ assigned = {} /\ completions = [t \in Tickets |-> 0]
  /\ produced = {} /\ overlapped = {}

Goto(r, from, to) == pc[r] = from /\ pc' = [pc EXCEPT ![r] = to]

\* The server lists the tickets without a completion comment of the user.
Pending == {t \in assigned : completions[t] = 0}

-----------------------------------------------------------------------------
(* Around the agent.                                                       *)

Assign(t) ==
  /\ t \notin assigned
  /\ assigned' = assigned \union {t}
  /\ UNCHANGED <<server, file, pc, mine, ticket, work, completions, ghost>>

\* Nothing tells an invocation that works on the ticket.
Unassign(t) ==
  /\ t \in assigned \intersect Withdrawable
  /\ assigned' = assigned \ {t}
  /\ UNCHANGED <<server, file, pc, mine, ticket, work, completions, ghost>>

\* Time passes; the bound leaves room for the refresh this leads to.
Age ==
  /\ issued < MaxTokens /\ near # 1..issued
  /\ near' = 1..issued
  /\ UNCHANGED <<issued, token, family, file, pc, mine, ticket, work, board,
                 ghost>>

\* `agent init`: a new consent, a new family, a new state file.
InitAgent ==
  /\ issued < MaxTokens /\ near # 1..issued
  /\ issued' = issued + 1
  /\ token' = [token EXCEPT ![issued + 1] = "active"]
  /\ file' = issued + 1
  /\ UNCHANGED <<family, near, pc, mine, ticket, work, board, ghost>>

-----------------------------------------------------------------------------
(* runAgentOnce.                                                           *)

\* loadAgentState; a token that expires within a minute is refreshed.
Start(r) ==
  /\ pc[r] = "idle"
  /\ mine' = [mine EXCEPT ![r] = file]
  /\ pc' = [pc EXCEPT ![r] = IF file \in near THEN "refresh" ELSE "list"]
  /\ UNCHANGED <<server, file, ticket, work, board, ghost>>

\* The server exchanges an active refresh token for the next pair.
Rotate(k) ==
  /\ token[k] = "active" /\ issued < MaxTokens
  /\ issued' = issued + 1
  /\ token' = [token EXCEPT ![k] = "used", ![issued + 1] = "active"]
  /\ family' = [family EXCEPT ![issued + 1] = family[k]]
  /\ UNCHANGED near

\* Seeded fault: the state file is written before the refresh is sent.
Refresh_KeepsOld(r) ==
  /\ Goto(r, "refresh", "list")
  /\ Rotate(mine[r])
  /\ mine' = [mine EXCEPT ![r] = issued + 1]
  /\ UNCHANGED <<file, ticket, work, board, ghost>>

Refresh(r) ==
  /\ Goto(r, "refresh", "profile")
  /\ Rotate(mine[r])
  /\ mine' = [mine EXCEPT ![r] = issued + 1]
  /\ UNCHANGED <<file, ticket, work, board, ghost>>

\* The request arrives and the answer does not.
RefreshLost(r) ==
  /\ "refresh" \in Faults /\ Goto(r, "refresh", "idle")
  /\ Rotate(mine[r])
  /\ UNCHANGED <<file, mine, ticket, work, board, ghost>>

\* The token was used or revoked before: reuse ends the whole family.
RefreshReused(r) ==
  /\ token[mine[r]] # "active" /\ Goto(r, "refresh", "idle")
  /\ token' = [k \in Tokens |->
                 IF k <= issued /\ family[k] = family[mine[r]] THEN "revoked"
                 ELSE token[k]]
  /\ UNCHANGED <<issued, family, near, file, mine, ticket, work, board, ghost>>

\* A call the server authorises: the access token must still work.
Call(r, from, to) == token[mine[r]] = "active" /\ Goto(r, from, to)

FetchProfile(r) ==
  /\ Call(r, "profile", "save")
  /\ UNCHANGED <<server, file, mine, ticket, work, board, ghost>>

\* saveAgentState writes a temporary file and renames it.
SaveState(r) ==
  /\ Goto(r, "save", "list")
  /\ file' = mine[r]
  /\ UNCHANGED <<server, mine, ticket, work, board, ghost>>

\* Seeded fault: the server's list keeps tickets that are completed.
AcquireTicket_KeepsDone(r) ==
  \/ /\ assigned # {} /\ Call(r, "list", "ack")
     /\ \E t \in assigned :
          /\ \A u \in assigned : t <= u
          /\ ticket' = [ticket EXCEPT ![r] = t]
          /\ UNCHANGED overlapped
     /\ UNCHANGED <<server, file, mine, work, board, produced>>
  \/ /\ assigned = {} /\ Call(r, "list", "idle")
     /\ UNCHANGED <<server, file, mine, ticket, work, board, ghost>>

\* Seeded fault: the list is ordered newest first.
AcquireTicket_NewestFirst(r) ==
  /\ Pending # {} /\ Call(r, "list", "ack")
  /\ \E t \in Pending :
       /\ \A u \in Pending : u <= t
       /\ ticket' = [ticket EXCEPT ![r] = t]
  /\ UNCHANGED <<server, file, mine, work, board, ghost>>

\* acquireNextTicket, and the exit when nothing is pending.
AcquireTicket(r) ==
  \/ /\ Pending # {} /\ Call(r, "list", "ack")
     /\ \E t \in Pending :
          /\ \A u \in Pending : t <= u
          /\ ticket' = [ticket EXCEPT ![r] = t]
          /\ overlapped' = overlapped \union
               {u \in {t} : \E q \in Slots : ticket[q] = t}
     /\ UNCHANGED <<server, file, mine, work, board, produced>>
  \/ /\ Pending = {} /\ Call(r, "list", "idle")
     /\ UNCHANGED <<server, file, mine, ticket, work, board, ghost>>

\* The acknowledgement comment is posted, then the repository is read.
Acknowledge(r) ==
  /\ Call(r, "ack", "prepare")
  /\ UNCHANGED <<server, file, mine, ticket, work, board, ghost>>

\* The checkout is removed, and cloned again.
PrepareWorkspace(r) ==
  /\ Call(r, "prepare", "work")
  /\ checkout' = [checkout EXCEPT ![ticket[r]] = "clean"]
  /\ wrote' = wrote \ {r}
  /\ UNCHANGED <<server, file, mine, ticket, board, ghost>>

\* The tool loop, with its progress updates, may or may not write files.
Work(r) ==
  /\ ticket[r] \notin Failing /\ Call(r, "work", "finalize")
  /\ \/ /\ checkout' = [checkout EXCEPT ![ticket[r]] = "dirty"]
        /\ wrote' = wrote \union {r}
     \/ UNCHANGED work
  /\ UNCHANGED <<server, file, mine, ticket, board, ghost>>

\* Seeded fault: nothing is recorded unless a tracked file has changed.
Finalize_TrackedOnly(r) ==
  /\ Goto(r, "finalize", "complete")
  /\ UNCHANGED <<server, file, mine, ticket, work, board, ghost>>

\* Changes are recorded as one local Pijul change; without any there is none.
Finalize(r) ==
  /\ Goto(r, "finalize", "complete")
  /\ checkout' = [checkout EXCEPT ![ticket[r]] = IF @ = "dirty" THEN "recorded"
                                                 ELSE @]
  /\ UNCHANGED <<server, file, mine, ticket, wrote, board, ghost>>

Leave(r) == ticket' = [ticket EXCEPT ![r] = 0] /\ wrote' = wrote \ {r}

\* Whether or not the answer arrives, the invocation ends here.
Complete(r) ==
  /\ Call(r, "complete", "idle")
  /\ completions' = [completions EXCEPT ![ticket[r]] = @ + 1]
  /\ produced' = produced \union {t \in {ticket[r]} : r \in wrote}
  /\ Leave(r)
  /\ UNCHANGED <<server, file, mine, checkout, assigned, overlapped>>

\* A call fails or the process is killed.  When it got as far as the
\* acknowledgement, it may still post an agent_error update.  Inside the tool
\* loop some files may have been written.
GiveUp(r) ==
  /\ pc[r] \in Faults
  /\ pc' = [pc EXCEPT ![r] = "idle"]
  /\ Leave(r)
  /\ \/ UNCHANGED checkout
     \/ /\ pc[r] = "work"
        /\ checkout' = [checkout EXCEPT ![ticket[r]] = "dirty"]
     \/ /\ pc[r] = "prepare"
        /\ checkout' = [checkout EXCEPT ![ticket[r]] = "none"]
  /\ UNCHANGED <<server, file, mine, board, ghost>>

\* The server answers 401: the token was rotated or revoked meanwhile.
Unauthorized(r) ==
  /\ pc[r] \notin {"idle", "refresh", "save", "finalize"}
  /\ token[mine[r]] # "active"
  /\ pc' = [pc EXCEPT ![r] = "idle"]
  /\ Leave(r)
  /\ UNCHANGED <<server, file, mine, checkout, board, ghost>>

-----------------------------------------------------------------------------
Environment ==
  (\E t \in Tickets : Assign(t) \/ Unassign(t)) \/ Age \/ InitAgent

Progress(r) ==
  \/ Refresh(r) \/ FetchProfile(r) \/ SaveState(r) \/ AcquireTicket(r)
  \/ Acknowledge(r) \/ PrepareWorkspace(r) \/ Work(r) \/ Finalize(r)
  \/ Complete(r)

Failure(r) == RefreshLost(r) \/ RefreshReused(r) \/ GiveUp(r) \/ Unauthorized(r)

Next == Environment \/ \E r \in Slots : Start(r) \/ Progress(r) \/ Failure(r)

\* The agent is started again and again, every invocation ends (HTTP calls
\* time out), and no call fails for ever.  doc/tla/AgentRun.tla assumes the
\* same of its PostAckComment and CompleteRun.
Fairness == \A r \in Slots :
  /\ WF_vars(Start(r)) /\ WF_vars(Failure(r))
  /\ SF_vars(Refresh(r)) /\ SF_vars(FetchProfile(r)) /\ SF_vars(SaveState(r))
  /\ SF_vars(AcquireTicket(r)) /\ SF_vars(Acknowledge(r))
  /\ SF_vars(PrepareWorkspace(r)) /\ SF_vars(Work(r)) /\ SF_vars(Finalize(r))
  /\ SF_vars(Complete(r))

Spec == Init /\ [][Next]_vars /\ Fairness

-----------------------------------------------------------------------------
(* Properties.                                                             *)

\* A ticket gets one completion comment, crashes and lost answers included,
\* unless two invocations processed it at the same time (run.go:115-203).
CompletedOnce ==
  \A t \in Tickets \ overlapped : completions[t] <= 1

\* The change a completion comment reports is recorded in the checkout and no
\* later invocation removes it, under the same condition (workspace.go:60).
CompletedWorkSurvives ==
  \A t \in produced \ overlapped : checkout[t] = "recorded"

\* Between invocations the state file holds a token that works
\* (run.go:90-113, doc/spec/agent.md:60: "Refreshes OAuth token when near
\* expiry and persists rotated token/profile state").
StateFileUsable ==
  (\A r \in Slots : pc[r] = "idle") => token[file] = "active"

Queue == INSTANCE TicketQueue WITH
           Tickets <- Tickets, Failing <- Failing, assigned <- assigned,
           taken <- {ticket[r] : r \in Slots} \ {0},
           completions <- completions

\* The agent does what TicketQueue promises: a ticket that stays assigned is
\* completed, unless one that fails every time is ahead of it in the list
\* (run.go:115); one whose assignment is withdrawn is not begun again.
ImplementsQueue == Queue!Spec
=============================================================================

------------------------------ MODULE TicketQueue ------------------------------
(***************************************************************************)
(* What the agent promises to the people who assign tickets to it          *)
(* (doc/spec/agent.md sections 4 and 8): a ticket that stays assigned gets *)
(* a completion comment, no ticket gets two, and none is begun that is not *)
(* assigned or is completed.  The agent tries the first pending ticket and *)
(* no other, so the promise ends at the first assigned ticket that fails   *)
(* at every attempt.                                                       *)
(***************************************************************************)
EXTENDS Naturals

CONSTANTS
  Tickets,   \* in the order in which they are listed
  Failing    \* those no attempt completes

VARIABLES
  assigned,     \* tickets assigned to the agent's user
  taken,        \* tickets the agent is working on
  completions   \* completion comments on each ticket

vars == <<assigned, taken, completions>>

Init == assigned = {} /\ taken = {} /\ completions = [t \in Tickets |-> 0]

Assign(t) ==
  /\ t \notin assigned
  /\ assigned' = assigned \union {t}
  /\ UNCHANGED <<taken, completions>>

Unassign(t) ==
  /\ t \in assigned
  /\ assigned' = assigned \ {t}
  /\ UNCHANGED <<taken, completions>>

Take(t) ==
  /\ t \in assigned /\ t \notin taken /\ completions[t] = 0
  /\ taken' = taken \union {t}
  /\ UNCHANGED <<assigned, completions>>

GiveUp(t) ==
  /\ t \in taken
  /\ taken' = taken \ {t}
  /\ UNCHANGED <<assigned, completions>>

\* Work that has begun is completed even if the assignment is withdrawn.
Complete(t) ==
  /\ t \in taken \ Failing /\ completions[t] = 0
  /\ completions' = [completions EXCEPT ![t] = 1]
  /\ taken' = taken \ {t}
  /\ UNCHANGED assigned

\* A ticket that stays assigned and pending, with no ticket ahead of it that
\* keeps the agent busy for ever.
InTurn(t) ==
  /\ t \in assigned /\ completions[t] = 0
  /\ \A u \in assigned \intersect Failing : t < u

Served(t) == []<>(~InTurn(t))

Next ==
  \E t \in Tickets :
    Assign(t) \/ Unassign(t) \/ Take(t) \/ GiveUp(t) \/ Complete(t)

Safety == Init /\ [][Next]_vars

Spec == Safety /\ \A t \in Tickets : Served(t)
=============================================================================

---------------------------- MODULE MCTicketStore ----------------------------
(* TLC instances of TicketStore.  Which of three seeds is which does not   *)
(* matter: OrderedSpec starts with three tickets, with two tickets and a   *)
(* comment, or with one ticket and two comments, always in that order and  *)
(* the comment on the first ticket.                                        *)
EXTENDS TicketStore

CONSTANTS s1, s2, s3

AllKinds   == {"create", "assign", "unassign", "addMember", "removeMember",
               "addAssignee", "removeAssignee", "comment", "updateTicket",
               "updateComment"}

OrderedInit ==
  /\ Init
  /\ obj[s1].type = "ticket"
  /\ obj[s2].type = "comment" => obj[s3].type = "comment"
  /\ \A s \in {s2, s3} : obj[s].type = "comment" => obj[s].ticket = s1

OrderedSpec == OrderedInit /\ [][Next]_vars /\ Fairness
=============================================================================

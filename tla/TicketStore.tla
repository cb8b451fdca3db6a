----------------------------- MODULE TicketStore -----------------------------
(***************************************************************************)
(* Tickets, comments, assignees and repository membership under concurrent *)
(* requests (src/internal/common/store_ticket.go, store_repository.go and  *)
(* store_helpers_tx.go).                                                   *)
(*                                                                         *)
(* A store method is one PostgreSQL transaction at READ COMMITTED.  Its    *)
(* loaders are SELECT ... FOR UPDATE and lock the rows they join, one after *)
(* the other in the order of the FROM clause; the locks are kept to the    *)
(* end, and a row is read again once its lock is granted.  The access      *)
(* check is a statement of its own on rows nobody locks, and the writes    *)
(* become visible at the commit.                                           *)
(*                                                                         *)
(* An object is named by the request that creates it.  Most handlers check *)
(* the access once more before they call the store: a request they refuse  *)
(* leaves no trace and one they let through is checked again, so only the  *)
(* handlers whose check is the only one have a step for it.  A comment and *)
(* its note are locked together and count as one row.  Users are neither   *)
(* deleted nor made administrators.                                        *)
(***************************************************************************)
EXTENDS Naturals, Sequences

CONSTANTS
  Users, Admins,    \* accounts, and those with users.is_admin
  Repos, Trackers,  \* local repositories and ticket trackers
  Seeds,            \* tickets and comments that exist at the start
  Requests,         \* HTTP requests, each handled once
  Kinds,            \* what these requests ask for
  None              \* no tracker, no holder

Objects == Seeds \union Requests
Rows    == Repos \union Trackers \union Objects

ASSUME AdminsAreUsers == Admins \subseteq Users
ASSUME KindsType ==
  Kinds \subseteq {"create", "assign", "unassign", "addMember", "removeMember",
                   "addAssignee", "removeAssignee", "comment", "updateTicket",
                   "updateComment"}
ASSUME RowsDiffer ==
  /\ Repos \intersect Trackers = {} /\ Seeds \intersect Requests = {}
  /\ (Repos \union Trackers) \intersect Objects = {}
  /\ None \notin Rows

VARIABLES
  members,   \* ff_repository_member, by repository
  link,      \* ff_repository.ticket_tracker_internal_id
  obj,       \* ff_ticket and ff_ticket_comment rows
  content,   \* the updates in the body of each object, oldest first
  versions,  \* ap_object_version rows of each object, by id
  assigned,  \* ff_ticket_assignee rows
  notes,     \* number of notification rows for a ticket and a user
  holder,    \* the request that holds the lock of each row
  op,        \* what each request asks for
  pc, at,    \* its progress, and the next row it locks
  body       \* the body it has read under the lock

db   == <<members, link, obj, content, versions, assigned, notes>>
reqs == <<op, at, body>>
vars == <<db, holder, reqs, pc>>

NoObject == [type |-> "none"]
NoOp     == [kind |-> "none"]
Tickets  == {x \in Objects : obj[x].type = "ticket"}
Comments == {x \in Objects : obj[x].type = "comment"}

\* The inputs of each request.
Ops ==
  [kind : {"create"}, user : Users, tracker : Trackers, repo : Repos]
    \union [kind : {"assign"}, user : Users, tracker : Trackers, repo : Repos]
    \union [kind : {"unassign"}, user : Users, repo : Repos]
    \union [kind : {"addMember", "removeMember"}, whom : Users, repo : Repos]
    \union [kind : {"addAssignee", "removeAssignee"}, user : Users,
            ticket : Objects, whom : Users]
    \union [kind : {"comment"}, user : Users, ticket : Objects,
            parent : Objects]
    \union [kind : {"updateTicket"}, user : Users, ticket : Objects]
    \union [kind : {"updateComment"}, user : Users, comment : Objects]

OnTicket == {"addAssignee", "removeAssignee", "comment", "updateTicket"}
Updates  == {"updateTicket", "updateComment"}
Linking  == {"assign", "unassign"}
InTx     == {"lock", "verify", "parent", "write"}

TypeOK ==
  /\ members \in [Repos -> SUBSET Users]
  /\ link \in [Repos -> Trackers \union {None}]
  /\ obj \in [Objects -> {NoObject}
       \union [type : {"ticket"}, tracker : Trackers, repo : Repos]
       \union [type : {"comment"}, ticket : Objects, parent : Objects]]
  /\ content \in [Objects -> Seq(Requests)]
  /\ versions \in [Objects -> Seq(Seq(Requests))]
  /\ assigned \subseteq Objects \X Users
  /\ notes \in [Objects \X Users -> Nat]
  /\ op \in [Requests -> Ops \union {NoOp}]
  /\ pc \in [Requests -> {"idle", "check", "done"} \union InTx]
  /\ at \in [Requests -> 1..4]
  /\ body \in [Requests -> Seq(Requests)]
  \* Only an open transaction holds a lock.
  /\ holder \in [Rows -> {r \in Requests : pc[r] \in InTx} \union {None}]

Init ==
  /\ members \in [Repos -> SUBSET Users]
  /\ link \in [Repos -> Trackers \union {None}]
  /\ \E old \in SUBSET Seeds :
       \E home \in [old -> [type : {"ticket"}, tracker : Trackers, repo : Repos]],
          root \in [Seeds \ old -> old] :
         obj = [x \in Objects |->
                  IF x \in old THEN home[x]
                  ELSE IF x \in Seeds
                  THEN [type |-> "comment", ticket |-> root[x], parent |-> root[x]]
                  ELSE NoObject]
  /\ content = [x \in Objects |-> <<>>]
  /\ versions = [x \in Objects |-> <<>>]
  /\ assigned = {} /\ notes = [p \in Objects \X Users |-> 0]
  /\ holder = [x \in Rows |-> None]
  /\ op = [r \in Requests |-> NoOp] /\ pc = [r \in Requests |-> "idle"]
  /\ at = [r \in Requests |-> 1] /\ body = [r \in Requests |-> <<>>]

Goto(r, from, to) == pc[r] = from /\ pc' = [pc EXCEPT ![r] = to]

CanAccess(u, p) == u \in Admins \/ u \in members[p]

-----------------------------------------------------------------------------
(* The rows a method locks, in order.                                      *)

\* Seeded fault: the repository is read without a lock.
CreateRows_NoRepo(o) == <<o.tracker>>

\* loadTrackerRowBySlugTx, then loadRepositoryRowBySlugTx.
CreateRows(o) == <<o.tracker, o.repo>>

\* The other way around.
AssignRows(o) == <<o.repo, o.tracker>>

\* Seeded fault: FOR UPDATE OF t.
TicketRows_TicketOnly(t) == <<t>>

\* FOR UPDATE locks every table of the join.
TicketRows(t) == <<t, obj[t].tracker, obj[t].repo>>

CommentRows(c) == <<c, obj[c].ticket, obj[obj[c].ticket].tracker>>

RowsOf(o) ==
  CASE o.kind = "create" -> CreateRows(o)
    [] o.kind = "assign" -> AssignRows(o)
    [] o.kind \in {"unassign", "addMember", "removeMember"} -> <<o.repo>>
    [] o.kind \in OnTicket -> TicketRows(o.ticket)
    [] o.kind = "updateComment" -> CommentRows(o.comment)

\* The repository whose members may do what the request asks for.
RepoOf(o) ==
  CASE o.kind \in OnTicket -> obj[o.ticket].repo
    [] o.kind = "updateComment" -> obj[obj[o.comment].ticket].repo
    [] OTHER -> o.repo

\* The object an update appends to.
Target(o) == IF o.kind = "updateComment" THEN o.comment ELSE o.ticket

\* The row a request asks to lock next.
NextRow(r) ==
  IF pc[r] = "parent" THEN op[r].parent ELSE RowsOf(op[r])[at[r]]

-----------------------------------------------------------------------------
(* Every transaction.                                                      *)

\* A request names objects the server has handed out.
Names(o) ==
  /\ o.kind \in OnTicket => o.ticket \in Tickets
  /\ o.kind = "comment" => o.parent \in Tickets \union Comments
  /\ o.kind = "updateComment" => o.comment \in Comments

Start(r, o) ==
  /\ o.kind \in Kinds /\ Names(o)
  /\ Goto(r, "idle", IF o.kind \in Linking THEN "check" ELSE "lock")
  /\ op' = [op EXCEPT ![r] = o]
  /\ UNCHANGED <<db, holder, at, body>>

\* The handler's CanAccessRepository; the store does not check again.
Check(r) ==
  /\ Goto(r, "check",
          IF CanAccess(op[r].user, op[r].repo) THEN "lock" ELSE "done")
  /\ UNCHANGED <<db, holder, reqs>>

Release(r) == [x \in Rows |-> IF holder[x] = r THEN None ELSE holder[x]]

\* Seeded fault: the transaction is left open.
Rollback_KeepsLocks(r) ==
  /\ pc' = [pc EXCEPT ![r] = "done"]
  /\ UNCHANGED <<db, reqs, holder>>

\* withTx: the deferred rollback of a transaction that is not committed.
Rollback(r) ==
  /\ pc' = [pc EXCEPT ![r] = "done"]
  /\ holder' = Release(r)
  /\ UNCHANGED <<db, reqs>>

Commit(r) ==
  /\ Goto(r, "write", "done")
  /\ holder' = Release(r)
  /\ UNCHANGED reqs

Lock(r) ==
  /\ pc[r] = "lock"
  /\ holder[NextRow(r)] = None
  /\ holder' = [holder EXCEPT ![NextRow(r)] = r]
  /\ LET o == op[r] IN
     /\ pc' = [pc EXCEPT ![r] =
                 IF at[r] = Len(RowsOf(o)) THEN "verify" ELSE "lock"]
     /\ at' = [at EXCEPT ![r] = @ + 1]
     /\ body' = IF o.kind \in Updates
                THEN [body EXCEPT ![r] = content[Target(o)]] ELSE body
  /\ UNCHANGED <<db, op>>

\* What the method checks once it has its rows.
Valid(o) ==
  /\ o.kind = "create" => link[o.repo] = o.tracker
  /\ o.kind \in OnTicket \union {"updateComment"} =>
       CanAccess(o.user, RepoOf(o))
  /\ o.kind \in {"addAssignee", "removeAssignee"} =>
       CanAccess(o.whom, RepoOf(o))

IsReply(o) == o.kind = "comment" /\ o.parent # o.ticket

Verify(r) ==
  /\ pc[r] = "verify"
  /\ IF Valid(op[r])
     THEN /\ pc' = [pc EXCEPT ![r] = IF IsReply(op[r]) THEN "parent" ELSE "write"]
          /\ UNCHANGED <<db, holder, reqs>>
     ELSE Rollback(r)

\* loadTicketCommentRowByActorIDTx finds no row for an object that is not a
\* comment, and does not wait for it.
LockParent(r) ==
  LET o == op[r] IN
  /\ pc[r] = "parent"
  /\ o.parent \in Comments => holder[o.parent] = None
  /\ IF o.parent \in Comments /\ obj[o.parent].ticket = o.ticket
     THEN /\ holder' = [holder EXCEPT ![o.parent] = r]
          /\ pc' = [pc EXCEPT ![r] = "write"]
          /\ UNCHANGED <<db, reqs>>
     ELSE Rollback(r)

\* A statement or the commit fails, or the client goes away.
Fail(r) == pc[r] \in InTx /\ Rollback(r)

\* PostgreSQL aborts a transaction that waits for itself.
Waits(r) ==
  /\ pc[r] \in {"lock", "parent"}
  /\ holder[NextRow(r)] \notin {None, r}

Deadlocked(r) ==
  \E S \in SUBSET Requests :
    /\ r \in S
    /\ \A s \in S : Waits(s) /\ holder[NextRow(s)] \in S
    /\ \A s \in S : \E u \in S : holder[NextRow(u)] = s

Victim(r) == Deadlocked(r) /\ Rollback(r)

-----------------------------------------------------------------------------
(* The writes of each method, and its commit.                              *)

\* CreateTicketWithPriority, with ensureRepositoryMemberTx.
CreateTicket(r) ==
  LET o == op[r] IN
  /\ o.kind = "create" /\ Commit(r)
  /\ members' = [members EXCEPT ![o.repo] = @ \union {o.user}]
  /\ obj' = [obj EXCEPT ![r] =
               [type |-> "ticket", tracker |-> o.tracker, repo |-> o.repo]]
  /\ UNCHANGED <<link, content, versions, assigned, notes>>

AssignTicketTrackerToRepository(r) ==
  LET o == op[r] IN
  /\ o.kind = "assign" /\ Commit(r)
  /\ link' = [link EXCEPT ![o.repo] = o.tracker]
  /\ UNCHANGED <<members, obj, content, versions, assigned, notes>>

UnassignTicketTrackerFromRepository(r) ==
  LET o == op[r] IN
  /\ o.kind = "unassign" /\ Commit(r)
  /\ link' = [link EXCEPT ![o.repo] = None]
  /\ UNCHANGED <<members, obj, content, versions, assigned, notes>>

AddRepositoryMember(r) ==
  LET o == op[r] IN
  /\ o.kind = "addMember" /\ Commit(r)
  /\ members' = [members EXCEPT ![o.repo] = @ \union {o.whom}]
  /\ UNCHANGED <<link, obj, content, versions, assigned, notes>>

\* The user's assignments stay.
RemoveRepositoryMember(r) ==
  LET o == op[r] IN
  /\ o.kind = "removeMember" /\ Commit(r)
  /\ members' = [members EXCEPT ![o.repo] = @ \ {o.whom}]
  /\ UNCHANGED <<link, obj, content, versions, assigned, notes>>

\* Seeded fault: RowsAffected is not looked at.
AddAssignee_AlwaysNotifies(r) ==
  LET o == op[r]
      p == <<o.ticket, o.whom>>
  IN
  /\ o.kind = "addAssignee" /\ Commit(r)
  /\ assigned' = assigned \union {p}
  /\ notes' = [notes EXCEPT ![p] = @ + 1]
  /\ UNCHANGED <<members, link, obj, content, versions>>

\* The notification depends on the rows the INSERT affected.
AddAssignee(r) ==
  LET o == op[r]
      p == <<o.ticket, o.whom>>
  IN
  /\ o.kind = "addAssignee" /\ Commit(r)
  /\ assigned' = assigned \union {p}
  /\ notes' = IF p \in assigned THEN notes ELSE [notes EXCEPT ![p] = @ + 1]
  /\ UNCHANGED <<members, link, obj, content, versions>>

RemoveAssignee(r) ==
  LET o == op[r] IN
  /\ o.kind = "removeAssignee" /\ Commit(r)
  /\ assigned' = assigned \ {<<o.ticket, o.whom>>}
  /\ UNCHANGED <<members, link, obj, content, versions, notes>>

CreateTicketComment(r) ==
  LET o == op[r] IN
  /\ o.kind = "comment" /\ Commit(r)
  /\ obj' = [obj EXCEPT ![r] =
               [type |-> "comment", ticket |-> o.ticket, parent |-> o.parent]]
  /\ UNCHANGED <<members, link, content, versions, assigned, notes>>

\* Seeded fault: the snapshot is taken after the append.
Update_SnapshotsNew(r) ==
  LET x == Target(op[r]) IN
  /\ op[r].kind \in Updates /\ Commit(r)
  /\ versions' = [versions EXCEPT ![x] = Append(@, Append(body[r], r))]
  /\ content' = [content EXCEPT ![x] = Append(body[r], r)]
  /\ UNCHANGED <<members, link, obj, assigned, notes>>

\* The body that was read is saved as a version, then replaced by itself
\* with the new text at its end.
Update(r) ==
  LET x == Target(op[r]) IN
  /\ op[r].kind \in Updates /\ Commit(r)
  /\ versions' = [versions EXCEPT ![x] = Append(@, body[r])]
  /\ content' = [content EXCEPT ![x] = Append(body[r], r)]
  /\ UNCHANGED <<members, link, obj, assigned, notes>>

\* A write to a ticket that locks its repository first.
TicketWrite(r) ==
  \/ AddAssignee(r) \/ RemoveAssignee(r) \/ CreateTicketComment(r)
  \/ op[r].kind = "updateTicket" /\ Update(r)

Write(r) ==
  \/ CreateTicket(r)
  \/ AssignTicketTrackerToRepository(r)
  \/ UnassignTicketTrackerFromRepository(r)
  \/ AddRepositoryMember(r) \/ RemoveRepositoryMember(r)
  \/ AddAssignee(r) \/ RemoveAssignee(r)
  \/ CreateTicketComment(r) \/ Update(r)

Done == (\A r \in Requests : pc[r] = "done") /\ UNCHANGED vars

Next ==
  \/ \E r \in Requests :
       \/ \E o \in Ops : Start(r, o)
       \/ Check(r) \/ Lock(r) \/ Verify(r) \/ LockParent(r)
       \/ Write(r)
       \/ Fail(r) \/ Victim(r)
  \/ Done

\* Requests may never come; one that came is handled.  The client need not
\* go away, but PostgreSQL always resolves a deadlock.
Fairness ==
  \A r \in Requests :
    /\ WF_vars(Check(r) \/ Lock(r) \/ Verify(r) \/ LockParent(r) \/ Write(r))
    /\ WF_vars(Victim(r))

Spec     == Init /\ [][Next]_vars
FairSpec == Spec /\ Fairness

-----------------------------------------------------------------------------
(* Properties.                                                             *)

\* A ticket is created in a repository that is linked to the ticket's
\* tracker, and still is when the ticket becomes visible: the link cannot
\* be moved or removed between the check and the commit.
TicketInLinkedTracker ==
  [][\A r \in Requests :
       obj[r].type = "none" /\ obj'[r].type = "ticket" =>
         link[obj'[r].repo] = obj'[r].tracker]_vars

\* Whoever comments on, updates, assigns or unassigns a ticket has access to
\* its repository when the write becomes visible: a member who is removed
\* after the check does not get his write in, because the transaction holds
\* the repository's row.
WritesUnderAccess ==
  [][\A r \in Requests :
       TicketWrite(r) => CanAccess(op[r].user, RepoOf(op[r]))]_vars

\* One notification for each time a user becomes an assignee, none for a
\* repeated assignment or a removal, whatever runs concurrently.
NotifiedOncePerAssignment ==
  [][\A p \in Objects \X Users :
       notes'[p] = notes[p] + (IF p \in assigned' \ assigned THEN 1 ELSE 0)]_vars

\* No update is lost, and the versions of an object are exactly the bodies
\* it had, each the previous one with one more update.
HistoryKept ==
  \A x \in Objects :
    /\ Len(versions[x]) = Len(content[x])
    /\ \A i \in 1..Len(versions[x]) :
         versions[x][i] = SubSeq(content[x], 1, i - 1)

\* Every request is answered, although creating a ticket and linking a
\* tracker lock the same two rows in opposite orders, and so do replying to
\* a comment and updating it.
RequestsEnd == \A r \in Requests : pc[r] # "idle" ~> pc[r] = "done"
=============================================================================

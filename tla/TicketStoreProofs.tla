--------------------------- MODULE TicketStoreProofs ---------------------------
(***************************************************************************)
(* The safety of TicketStore for any users, repositories, trackers and     *)
(* requests.  The argument is the one the row locks were put in for: what  *)
(* a transaction has checked or read under a lock it holds stays true to   *)
(* its commit.                                                             *)
(***************************************************************************)
EXTENDS TicketStore, SequenceTheorems, TLAPS

-----------------------------------------------------------------------------
(* The inductive invariant.                                                *)

\* Comments are on tickets, and a request's own object appears with its commit.
ObjectsKnown ==
  /\ \A x \in Comments : obj[x].ticket \in Tickets
  /\ \A r \in Requests : pc[r] # "done" => obj[r] = NoObject

\* What a request names is there.
OpsNamed ==
  \A r \in Requests : pc[r] # "idle" =>
    /\ op[r] \in Ops /\ Names(op[r])
    /\ pc[r] = "parent" => op[r].kind = "comment"

\* The rows up to the next one are locked, and all of them before the checks.
LocksHeld ==
  \A r \in Requests :
    /\ pc[r] \in {"idle", "check"} => at[r] = 1
    /\ pc[r] = "lock" => at[r] \in 1..Len(RowsOf(op[r]))
    /\ pc[r] \in InTx \ {"lock"} => at[r] = Len(RowsOf(op[r])) + 1
    /\ pc[r] \in InTx =>
         \A i \in 1..(at[r] - 1) : holder[RowsOf(op[r])[i]] = r

\* What the checks found still holds.
ChecksStand ==
  \A r \in Requests : pc[r] \in {"parent", "write"} =>
    /\ op[r].kind = "create" => link[op[r].repo] = op[r].tracker
    /\ op[r].kind \in OnTicket => CanAccess(op[r].user, RepoOf(op[r]))

\* The body an update has read is the current one.
BodyCurrent ==
  \A r \in Requests :
    pc[r] \in InTx /\ op[r].kind \in Updates /\ at[r] > 1 =>
      body[r] = content[Target(op[r])]

IInv ==
  /\ TypeOK /\ ObjectsKnown /\ OpsNamed /\ LocksHeld /\ ChecksStand /\ BodyCurrent
  /\ HistoryKept

-----------------------------------------------------------------------------
(* Requests and the rows they lock.                                        *)

\* The fields of each kind of request.
LEMMA OpFields ==
  ASSUME NEW o \in Ops
  PROVE  /\ \/ o.kind \in {"create", "assign", "unassign", "addMember",
                           "removeMember", "updateComment"}
            \/ o.kind \in OnTicket
         /\ o.kind \in {"create", "assign"} => o.tracker \in Trackers
         /\ o.kind \in {"create", "assign", "unassign", "addMember", "removeMember"}
              => o.repo \in Repos
         /\ o.kind = "create" => o.user \in Users
         /\ o.kind \in {"addMember", "removeMember", "addAssignee", "removeAssignee"}
              => o.whom \in Users
         /\ o.kind \in OnTicket => o.ticket \in Objects
         /\ o.kind = "comment" => o.parent \in Objects
         /\ o.kind = "updateComment" => o.comment \in Objects
         /\ o.kind \in Updates => Target(o) \in Objects
<1> USE DEF OnTicket, Updates, Target
<1>1. CASE o \in [kind : {"create"}, user : Users, tracker : Trackers, repo : Repos]
  BY <1>1
<1>2. CASE o \in [kind : {"assign"}, user : Users, tracker : Trackers, repo : Repos]
  BY <1>2
<1>3. CASE o \in [kind : {"unassign"}, user : Users, repo : Repos]
  BY <1>3
<1>4. CASE o \in [kind : {"addMember", "removeMember"}, whom : Users, repo : Repos]
  BY <1>4
<1>5. CASE o \in [kind : {"addAssignee", "removeAssignee"}, user : Users,
                  ticket : Objects, whom : Users]
  BY <1>5
<1>6. CASE o \in [kind : {"comment"}, user : Users, ticket : Objects,
                  parent : Objects]
  BY <1>6
<1>7. CASE o \in [kind : {"updateTicket"}, user : Users, ticket : Objects]
  BY <1>7
<1>8. CASE o \in [kind : {"updateComment"}, user : Users, comment : Objects]
  BY <1>8
<1> QED BY <1>1, <1>2, <1>3, <1>4, <1>5, <1>6, <1>7, <1>8 DEF Ops

\* The fields of each type of object.
LEMMA ObjectFields ==
  ASSUME TypeOK, NEW x \in Objects
  PROVE  /\ obj[x].type \in {"none", "ticket", "comment"}
         /\ obj[x].type = "none" <=> obj[x] = NoObject
         /\ obj[x].type = "ticket" => obj[x].tracker \in Trackers /\ obj[x].repo \in Repos
         /\ obj[x].type = "comment" => obj[x].ticket \in Objects
<1>1. CASE obj[x] = NoObject
  BY <1>1 DEF NoObject
<1>2. CASE obj[x] \in [type : {"ticket"}, tracker : Trackers, repo : Repos]
  BY <1>2 DEF NoObject
<1>3. CASE obj[x] \in [type : {"comment"}, ticket : Objects, parent : Objects]
  BY <1>3 DEF NoObject
<1> QED BY <1>1, <1>2, <1>3 DEF TypeOK

\* The rows a request locks; the last one of a write to a ticket is the
\* repository's.
LEMMA LockedRows ==
  ASSUME TypeOK, ObjectsKnown, NEW o \in Ops, Names(o)
  PROVE  /\ Len(RowsOf(o)) \in 1..3
         /\ \A i \in 1..Len(RowsOf(o)) : RowsOf(o)[i] \in Rows
         /\ \/ o.kind = "create" /\ RowsOf(o)[2] = RepoOf(o) /\ Len(RowsOf(o)) = 2
            \/ o.kind = "assign" /\ RowsOf(o)[1] = RepoOf(o) /\ Len(RowsOf(o)) = 2
            \/ /\ o.kind \in {"unassign", "addMember", "removeMember"}
               /\ RowsOf(o)[1] = RepoOf(o) /\ Len(RowsOf(o)) = 1
            \/ /\ o.kind \in OnTicket /\ RowsOf(o)[3] = RepoOf(o)
               /\ RowsOf(o)[1] = o.ticket /\ Len(RowsOf(o)) = 3
            \/ /\ o.kind = "updateComment" /\ RowsOf(o)[1] = o.comment
               /\ Len(RowsOf(o)) = 3
         /\ o.kind \notin OnTicket \union {"updateComment"} => RepoOf(o) = o.repo
<1> USE OpFields DEF Rows
<1>1. CASE o.kind = "create"
  BY <1>1 DEF RowsOf, RepoOf, CreateRows, OnTicket
<1>2. CASE o.kind = "assign"
  BY <1>2 DEF RowsOf, RepoOf, AssignRows, OnTicket
<1>3. CASE o.kind \in {"unassign", "addMember", "removeMember"}
  <2>1. RowsOf(o) = <<o.repo>> /\ RepoOf(o) = o.repo /\ o.repo \in Rows
    BY <1>3 DEF RowsOf, RepoOf, OnTicket
  <2> QED BY <1>3, <2>1 DEF OnTicket
<1>4. CASE o.kind \in OnTicket
  <2>1. /\ o.ticket \in Objects /\ obj[o.ticket].tracker \in Trackers
        /\ obj[o.ticket].repo \in Repos
    BY <1>4, ObjectFields DEF Names, Tickets
  <2>2. RowsOf(o) = <<o.ticket, obj[o.ticket].tracker, obj[o.ticket].repo>>
        /\ RepoOf(o) = obj[o.ticket].repo
    BY <1>4 DEF RowsOf, RepoOf, TicketRows, OnTicket
  <2> QED BY <1>4, <2>1, <2>2
<1>5. CASE o.kind = "updateComment"
  <2>1. /\ o.comment \in Objects /\ obj[o.comment].ticket \in Tickets
        /\ obj[obj[o.comment].ticket].tracker \in Trackers
    BY <1>5, ObjectFields DEF Names, Comments, Tickets, ObjectsKnown
  <2>2. RowsOf(o) = <<o.comment, obj[o.comment].ticket,
                      obj[obj[o.comment].ticket].tracker>>
    BY <1>5 DEF RowsOf, CommentRows, OnTicket
  <2> QED BY <1>5, <2>1, <2>2 DEF Tickets
<1> QED BY <1>1, <1>2, <1>3, <1>4, <1>5

\* An update locks the object it appends to first, whichever it is.
LEMMA TargetFirst ==
  ASSUME TypeOK, ObjectsKnown, NEW o \in Ops, Names(o), o.kind \in Updates
  PROVE  RowsOf(o)[1] = Target(o) /\ Target(o) \in Objects
BY LockedRows, OpFields DEF Updates, Target, OnTicket

-----------------------------------------------------------------------------
(* Steps.                                                                  *)

\* A transaction ends without a commit.
Aborts(r) == pc[r] \in InTx /\ Rollback(r)

\* Its checks succeed.
Passes(r) ==
  /\ pc[r] = "verify" /\ Valid(op[r])
  /\ pc' = [pc EXCEPT ![r] = IF IsReply(op[r]) THEN "parent" ELSE "write"]
  /\ UNCHANGED <<db, holder, reqs>>

\* It gets the parent of a reply.
LocksParent(r) ==
  LET x == op[r].parent IN
  /\ pc[r] = "parent" /\ x \in Comments /\ holder[x] = None
  /\ holder' = [holder EXCEPT ![x] = r]
  /\ pc' = [pc EXCEPT ![r] = "write"]
  /\ UNCHANGED <<db, reqs>>

StepOf(r) ==
  \/ \E o \in Ops : Start(r, o)
  \/ Check(r) \/ Lock(r) \/ Passes(r) \/ LocksParent(r) \/ Write(r) \/ Aborts(r)

\* Every step is one of these of some request.
LEMMA StepCases == [Next]_vars => UNCHANGED vars \/ \E r \in Requests : StepOf(r)
<1>1. ASSUME NEW r \in Requests, Verify(r) \/ LockParent(r) \/ Fail(r) PROVE StepOf(r)
  BY <1>1 DEF Verify, LockParent, Fail, StepOf, Aborts, Passes, LocksParent, InTx
<1>2. ASSUME NEW r \in Requests, Victim(r) PROVE StepOf(r)
  BY <1>2 DEF Victim, Deadlocked, Waits, StepOf, Aborts, InTx
<1> QED BY <1>1, <1>2 DEF Next, Done, StepOf

\* A write is the end of its transaction.
LEMMA WriteCommits == ASSUME NEW r, Write(r) PROVE Commit(r)
BY DEF Write, CreateTicket, AssignTicketTrackerToRepository,
       UnassignTicketTrackerFromRepository, AddRepositoryMember,
       RemoveRepositoryMember, AddAssignee, RemoveAssignee, CreateTicketComment,
       Update

\* A step leaves the other requests alone, and the locks they hold.
LEMMA OthersKept ==
  ASSUME TypeOK, NEW r \in Requests, StepOf(r)
  PROVE  /\ \A q \in Requests \ {r} :
              pc'[q] = pc[q] /\ op'[q] = op[q] /\ at'[q] = at[q] /\ body'[q] = body[q]
         /\ \A x \in Rows : holder[x] \notin {None, r} => holder'[x] = holder[x]
<1> USE DEF TypeOK, reqs
<1>1. ASSUME NEW o \in Ops, Start(r, o) PROVE op' = [op EXCEPT ![r] = o]
  BY <1>1 DEF Start
<1>2. \A q \in Requests \ {r} : pc'[q] = pc[q]
  BY WriteCommits
     DEF StepOf, Start, Check, Lock, Passes, LocksParent, Aborts, Rollback, Goto,
         Commit
<1>3. \A q \in Requests \ {r} : op'[q] = op[q] /\ at'[q] = at[q] /\ body'[q] = body[q]
  BY WriteCommits
     DEF StepOf, Start, Check, Lock, Passes, LocksParent, Aborts, Rollback, Commit
<1>4. \/ UNCHANGED holder \/ holder' = Release(r)
      \/ \E x \in Rows \union {op[r].parent} :
           holder[x] = None /\ holder' = [holder EXCEPT ![x] = r]
      \/ holder[NextRow(r)] = None /\ holder' = [holder EXCEPT ![NextRow(r)] = r]
  BY WriteCommits
     DEF StepOf, Start, Check, Lock, Passes, LocksParent, Aborts, Rollback, Commit
<1> QED BY <1>2, <1>3, <1>4 DEF Release

\* Objects are only added.
Grows == \A x \in Objects : obj[x] # NoObject => obj'[x] = obj[x]

\* The object a commit may add.
Adds(r) ==
  /\ pc[r] = "write" /\ obj[r] = NoObject
  /\ \/ /\ CreateTicket(r)
        /\ obj' = [obj EXCEPT ![r] = [type |-> "ticket", tracker |-> op[r].tracker,
                                     repo |-> op[r].repo]]
     \/ /\ CreateTicketComment(r)
        /\ obj' = [obj EXCEPT ![r] = [type |-> "comment", ticket |-> op[r].ticket,
                                     parent |-> op[r].parent]]

\* It is the only change to the objects.
LEMMA ObjectStep ==
  ASSUME TypeOK, ObjectsKnown, NEW r \in Requests, StepOf(r)
  PROVE  Grows /\ (UNCHANGED obj \/ Adds(r))
<1> USE DEF db
<1>1. CASE CreateTicket(r)
  BY <1>1 DEF CreateTicket, Commit, Goto, Adds, ObjectsKnown, Grows, TypeOK
<1>2. CASE CreateTicketComment(r)
  BY <1>2 DEF CreateTicketComment, Commit, Goto, Adds, ObjectsKnown, Grows, TypeOK
<1>3. CASE ~CreateTicket(r) /\ ~CreateTicketComment(r)
  <2>1. UNCHANGED obj
    BY <1>3 DEF StepOf, Start, Check, Lock, Passes, LocksParent, Write, Aborts, Rollback,
         AssignTicketTrackerToRepository,
         UnassignTicketTrackerFromRepository, AddRepositoryMember,
         RemoveRepositoryMember, AddAssignee, RemoveAssignee, Update
  <2> QED BY <2>1 DEF Grows
<1> QED BY <1>1, <1>2, <1>3

\* What a request names and locks does not change under it.
LEMMA RowsStable ==
  ASSUME TypeOK, ObjectsKnown, OpsNamed, Grows,
         NEW q \in Requests, pc[q] # "idle", op'[q] = op[q]
  PROVE  /\ RowsOf(op[q])' = RowsOf(op[q]) /\ RepoOf(op[q])' = RepoOf(op[q])
         /\ Target(op[q])' = Target(op[q]) /\ Names(op[q])'
<1>1. op[q] \in Ops /\ Names(op[q])
  BY DEF OpsNamed
<1>2. PICK o : o = op[q]
  OBVIOUS
<1>3. \A x \in Objects : obj[x].type # "none" => obj'[x] = obj[x]
  BY DEF Grows, NoObject
<1>4. /\ Tickets \subseteq Tickets' /\ Comments \subseteq Comments'
      /\ \A x \in Tickets \union Comments : x \in Objects /\ obj'[x] = obj[x]
  BY <1>3 DEF Tickets, Comments
<1>5. /\ o.kind \in OnTicket => o.ticket \in Tickets
      /\ o.kind = "comment" => o.parent \in Tickets \union Comments
      /\ o.kind = "updateComment" => o.comment \in Comments /\ obj[o.comment].ticket \in Tickets
  BY <1>1, <1>2 DEF Names, ObjectsKnown
<1>6. Names(op[q])'
  BY <1>2, <1>4, <1>5 DEF Names
<1>7. RepoOf(op[q])' = RepoOf(op[q])
  BY <1>2, <1>4, <1>5 DEF RepoOf
<1>8. RowsOf(op[q])' = RowsOf(op[q])
  BY <1>2, <1>4, <1>5
     DEF RowsOf, CreateRows, AssignRows, TicketRows, CommentRows
<1>9. Target(op[q])' = Target(op[q])
  BY DEF Target
<1> QED BY <1>6, <1>7, <1>8, <1>9

\* At its commit a transaction holds the row of its repository, unless it
\* updates a comment, and before that the object it has read.
LEMMA HoldsRows ==
  ASSUME IInv, NEW r \in Requests, pc[r] \in InTx
  PROVE  /\ pc[r] \in {"parent", "write"} /\ op[r].kind # "updateComment" =>
              RepoOf(op[r]) \in Rows /\ holder[RepoOf(op[r])] = r
         /\ pc[r] \in {"parent", "write"} => at[r] > 1
         /\ op[r].kind \in Updates /\ at[r] > 1 =>
              Target(op[r]) \in Objects /\ holder[Target(op[r])] = r
         /\ \A i \in 1..(at[r] - 1) :
              RowsOf(op[r])[i] \in Rows /\ holder[RowsOf(op[r])[i]] = r
<1> USE DEF IInv
<1>1. /\ op[r] \in Ops /\ Names(op[r])
      /\ Len(RowsOf(op[r])) \in 1..3 /\ at[r] \in Nat
      /\ at[r] <= Len(RowsOf(op[r])) + 1
      /\ pc[r] \in {"parent", "write"} => at[r] = Len(RowsOf(op[r])) + 1
  BY LockedRows DEF OpsNamed, InTx, LocksHeld, TypeOK
<1>2. \A i \in 1..(at[r] - 1) : RowsOf(op[r])[i] \in Rows /\ holder[RowsOf(op[r])[i]] = r
  BY <1>1, LockedRows DEF LocksHeld
<1>3. ASSUME pc[r] \in {"parent", "write"}, op[r].kind # "updateComment"
      PROVE  \E i \in 1..(at[r] - 1) : RowsOf(op[r])[i] = RepoOf(op[r])
  <2>1. 1..(at[r] - 1) = 1..Len(RowsOf(op[r]))
    BY <1>1, <1>3
  <2>2. \E i \in 1..Len(RowsOf(op[r])) : RowsOf(op[r])[i] = RepoOf(op[r])
    <3>1. \E i \in {1, 2, 3} : i <= Len(RowsOf(op[r])) /\ RowsOf(op[r])[i] = RepoOf(op[r])
      BY <1>1, <1>3, LockedRows
    <3> QED BY <1>1, <3>1
  <2> QED BY <2>1, <2>2
<1>4. ASSUME op[r].kind \in Updates, at[r] > 1
      PROVE  Target(op[r]) \in Objects /\ holder[Target(op[r])] = r
  <2>1. 1 \in 1..(at[r] - 1)
    BY <1>1, <1>4
  <2> QED BY <1>1, <1>2, <1>4, <2>1, TargetFirst
<1> QED BY <1>1, <1>2, <1>3, <1>4

\* A repository's tracker and members, and an object's body, change only in
\* transactions that hold the row.
LEMMA ChangesHeld ==
  ASSUME IInv, NEW r \in Requests, StepOf(r)
  PROVE  /\ \A p \in Repos : holder[p] # r =>
              link'[p] = link[p] /\ members[p] \subseteq members'[p]
         /\ \A x \in Objects : holder[x] # r =>
              content'[x] = content[x] /\ versions'[x] = versions[x]
<1> USE DEF IInv, db, TypeOK
<1>1. CASE ~Write(r)
  BY <1>1 DEF StepOf, Start, Check, Lock, Passes, LocksParent, Aborts, Rollback
<1>2. CASE Write(r)
  <2>1. pc[r] = "write" /\ pc[r] \in InTx /\ op[r] \in Ops /\ Names(op[r])
    BY <1>2, WriteCommits DEF Commit, Goto, InTx, OpsNamed
  <2>2. /\ op[r].kind # "updateComment" => holder[RepoOf(op[r])] = r
        /\ op[r].kind \in {"create", "assign", "unassign", "addMember", "removeMember"}
             => RepoOf(op[r]) = op[r].repo /\ op[r].repo \in Repos
    BY <2>1, HoldsRows, LockedRows, OpFields DEF OnTicket
  <2>3. op[r].kind \in Updates =>
          Target(op[r]) \in Objects /\ holder[Target(op[r])] = r
    BY <2>1, HoldsRows
  <2>4. CASE Update(r)
    BY <2>3, <2>4 DEF Update
  <2>5. CASE ~Update(r)
    BY <1>2, <2>2, <2>5 DEF Write, CreateTicket, AssignTicketTrackerToRepository,
         UnassignTicketTrackerFromRepository, AddRepositoryMember,
         RemoveRepositoryMember, AddAssignee, RemoveAssignee, CreateTicketComment
  <2> QED BY <2>4, <2>5
<1> QED BY <1>1, <1>2

-----------------------------------------------------------------------------
(* One step of a request at a time, each conjunct.                         *)

\* The request itself after a step.
LEMMA OwnProgress ==
  ASSUME TypeOK, NEW r \in Requests, StepOf(r)
  PROVE  \/ /\ pc'[r] = "done"
            /\ \/ pc[r] = "check" /\ UNCHANGED holder
               \/ pc[r] \in InTx /\ holder' = Release(r)
         \/ \E o \in Ops : Start(r, o)
         \/ /\ pc[r] = "check" /\ pc'[r] = "lock" /\ UNCHANGED <<db, holder, reqs>>
         \/ Lock(r) \/ Passes(r) \/ LocksParent(r)
<1> USE DEF TypeOK
<1>1. CASE Check(r)
  BY <1>1 DEF Check, Goto
<1>2. CASE Aborts(r)
  BY <1>2 DEF Aborts, Rollback
<1>3. CASE Write(r)
  BY <1>3, WriteCommits DEF Commit, Goto, InTx
<1> QED BY <1>1, <1>2, <1>3 DEF StepOf

\* Every variable keeps its type, and only open transactions hold locks.
LEMMA TypeStep == IInv /\ [Next]_vars => TypeOK'
<1> SUFFICES ASSUME IInv, [Next]_vars PROVE TypeOK'
  OBVIOUS
<1>0. TypeOK /\ ObjectsKnown /\ OpsNamed /\ None \notin Requests
  BY RowsDiffer DEF IInv, Rows, Objects
<1>1. CASE UNCHANGED vars
  BY <1>0, <1>1 DEF TypeOK, vars, db, reqs
<1>2. ASSUME NEW r \in Requests, StepOf(r) PROVE TypeOK'
  <2>1. CASE \E o \in Ops : Start(r, o)
    <3>1. PICK o \in Ops : Start(r, o)
      BY <2>1
    <3>2. /\ op' = [op EXCEPT ![r] = o] /\ pc[r] = "idle"
          /\ \/ pc' = [pc EXCEPT ![r] = "check"]
             \/ pc' = [pc EXCEPT ![r] = "lock"]
          /\ UNCHANGED <<db, holder, at, body>>
      BY <3>1 DEF Start, Goto
    <3> QED BY <1>0, <3>2 DEF TypeOK, db, InTx
  <2>2. CASE Check(r)
    <3>1. /\ pc[r] = "check" /\ UNCHANGED <<db, holder, reqs>>
          /\ pc' = [pc EXCEPT ![r] = "lock"] \/ pc' = [pc EXCEPT ![r] = "done"]
      BY <2>2 DEF Check, Goto
    <3> QED BY <1>0, <3>1 DEF TypeOK, db, reqs, InTx
  <2>3. CASE Lock(r)
    <3>1. /\ op[r] \in Ops /\ Names(op[r]) /\ pc[r] = "lock"
          /\ at[r] \in 1..Len(RowsOf(op[r])) /\ Len(RowsOf(op[r])) \in 1..3
      BY <1>0, <2>3, LockedRows DEF Lock, OpsNamed, IInv, LocksHeld
    <3>2. /\ holder' = [holder EXCEPT ![NextRow(r)] = r] /\ NextRow(r) \in Rows
          /\ \/ pc' = [pc EXCEPT ![r] = "verify"] \/ pc' = [pc EXCEPT ![r] = "lock"]
          /\ at' = [at EXCEPT ![r] = @ + 1]
          /\ UNCHANGED <<db, op>>
      BY <1>0, <2>3, <3>1, LockedRows DEF Lock, NextRow
    <3>3. body' \in [Requests -> Seq(Requests)]
      <4>1. op[r].kind \in Updates => Target(op[r]) \in Objects
        BY <3>1, OpFields
      <4> QED BY <1>0, <2>3, <4>1 DEF Lock, TypeOK
    <3>4. at' \in [Requests -> 1..4]
      <4>1. PICK n \in 1..3 : at[r] \in 1..n
        BY <3>1
      <4>2. at[r] + 1 \in 1..4
        BY <4>1
      <4> QED BY <1>0, <3>2, <4>2 DEF TypeOK
    <3>5. pc' \in [Requests -> {"idle", "check", "done"} \union InTx]
      BY <1>0, <3>2 DEF TypeOK, InTx
    <3>6. holder' \in [Rows -> {q \in Requests : pc'[q] \in InTx} \union {None}]
      BY <1>0, <3>1, <3>2 DEF TypeOK, InTx
    <3> QED BY <1>0, <3>2, <3>3, <3>4, <3>5, <3>6 DEF TypeOK, db
  <2>4. CASE Passes(r) \/ LocksParent(r)
    <3>1. /\ pc[r] \in InTx /\ UNCHANGED <<db, reqs>>
          /\ \/ pc' = [pc EXCEPT ![r] = "parent"] \/ pc' = [pc EXCEPT ![r] = "write"]
      BY <2>4 DEF Passes, LocksParent, InTx
    <3>2. \/ UNCHANGED holder
          \/ \E x \in Rows : holder' = [holder EXCEPT ![x] = r]
      BY <2>4 DEF Passes, LocksParent, Comments, Rows
    <3>3. pc' \in [Requests -> {"idle", "check", "done"} \union InTx]
      BY <1>0, <3>1 DEF TypeOK, InTx
    <3>4. holder' \in [Rows -> {q \in Requests : pc'[q] \in InTx} \union {None}]
      <4>1. {q \in Requests : pc[q] \in InTx} \subseteq {q \in Requests : pc'[q] \in InTx}
            /\ pc'[r] \in InTx
        BY <1>0, <3>1 DEF TypeOK, InTx
      <4> QED BY <1>0, <3>2, <4>1 DEF TypeOK
    <3> QED BY <1>0, <3>1, <3>3, <3>4 DEF TypeOK, db, reqs
  <2>5. ASSUME pc' = [pc EXCEPT ![r] = "done"], holder' = Release(r)
        PROVE  /\ pc' \in [Requests -> {"idle", "check", "done"} \union InTx]
               /\ holder' \in [Rows -> {q \in Requests : pc'[q] \in InTx} \union {None}]
    BY <1>0, <2>5 DEF TypeOK, Release
  <2>6. CASE Aborts(r)
    BY <1>0, <2>5, <2>6 DEF Aborts, Rollback, TypeOK, db, reqs
  <2>7. CASE Write(r)
    <3>1. Commit(r)
      BY <2>7, WriteCommits
    <3>2. /\ pc[r] = "write" /\ pc' = [pc EXCEPT ![r] = "done"] /\ holder' = Release(r)
          /\ UNCHANGED <<op, at, body>>
      BY <3>1 DEF Commit, Goto, reqs
    <3>3. op[r] \in Ops /\ Names(op[r])
      BY <1>0, <3>2 DEF OpsNamed
    <3>4. members' \in [Repos -> SUBSET Users] /\ link' \in [Repos -> Trackers \union {None}]
      <4>1. CASE CreateTicket(r) \/ AddRepositoryMember(r) \/ RemoveRepositoryMember(r)
        <5>1. PICK u, p : /\ u \in Users /\ p \in Repos /\ UNCHANGED link
                          /\ \/ members' = [members EXCEPT ![p] = @ \union {u}]
                             \/ members' = [members EXCEPT ![p] = @ \ {u}]
          BY <3>3, <4>1, OpFields DEF CreateTicket, AddRepositoryMember,
             RemoveRepositoryMember
        <5> QED BY <1>0, <5>1 DEF TypeOK
      <4>2. CASE AssignTicketTrackerToRepository(r) \/ UnassignTicketTrackerFromRepository(r)
        <5>1. PICK k, p : /\ k \in Trackers \union {None} /\ p \in Repos
                          /\ UNCHANGED members /\ link' = [link EXCEPT ![p] = k]
          BY <3>3, <4>2, OpFields DEF AssignTicketTrackerToRepository,
             UnassignTicketTrackerFromRepository
        <5> QED BY <1>0, <5>1 DEF TypeOK
      <4> QED BY <1>0, <2>7, <4>1, <4>2 DEF TypeOK, Write, AddAssignee, RemoveAssignee,
              CreateTicketComment, Update
    <3>5. assigned' \subseteq Objects \X Users /\ notes' \in [Objects \X Users -> Nat]
      <4>1. CASE AddAssignee(r)
        <5>1. <<op[r].ticket, op[r].whom>> \in Objects \X Users
          BY <3>3, <4>1, OpFields DEF AddAssignee, OnTicket
        <5> QED BY <1>0, <4>1, <5>1 DEF AddAssignee, TypeOK
      <4> QED BY <1>0, <2>7, <4>1 DEF TypeOK,
         Write, CreateTicket, AssignTicketTrackerToRepository,
         UnassignTicketTrackerFromRepository, AddRepositoryMember,
         RemoveRepositoryMember, RemoveAssignee, CreateTicketComment,
         Update
    <3>6. content' \in [Objects -> Seq(Requests)]
          /\ versions' \in [Objects -> Seq(Seq(Requests))]
      <4>1. CASE Update(r)
        <5>1. body[r] \in Seq(Requests) /\ Append(body[r], r) \in Seq(Requests)
          BY <1>0 DEF TypeOK
        <5>2. PICK x : x = Target(op[r])
          OBVIOUS
        <5>3. x \in Objects => Append(versions[x], body[r]) \in Seq(Seq(Requests))
          BY <1>0, <5>1 DEF TypeOK
        <5>4. /\ versions' = [versions EXCEPT ![x] = Append(versions[x], body[r])]
              /\ content' = [content EXCEPT ![x] = Append(body[r], r)]
          BY <4>1, <5>2 DEF Update
        <5> QED BY <1>0, <5>1, <5>3, <5>4 DEF TypeOK
      <4> QED BY <1>0, <2>7, <4>1 DEF TypeOK,
         Write, CreateTicket, AssignTicketTrackerToRepository,
         UnassignTicketTrackerFromRepository, AddRepositoryMember,
         RemoveRepositoryMember, AddAssignee, RemoveAssignee, CreateTicketComment
    <3>7. obj' \in [Objects -> {NoObject}
             \union [type : {"ticket"}, tracker : Trackers, repo : Repos]
             \union [type : {"comment"}, ticket : Objects, parent : Objects]]
      <4>1. CASE UNCHANGED obj
        BY <1>0, <4>1 DEF TypeOK
      <4>2. CASE Adds(r) /\ CreateTicket(r)
        <5>1. op[r].kind = "create"
          BY <4>2 DEF CreateTicket
        <5>2. op[r].tracker \in Trackers /\ op[r].repo \in Repos
          BY <3>3, <5>1, OpFields
        <5>3. obj' = [obj EXCEPT ![r] = [type |-> "ticket", tracker |-> op[r].tracker,
                                         repo |-> op[r].repo]]
          BY <4>2 DEF CreateTicket
        <5> QED BY <1>0, <5>2, <5>3 DEF TypeOK
      <4>3. CASE Adds(r) /\ CreateTicketComment(r)
        <5>1. op[r].kind = "comment"
          BY <4>3 DEF CreateTicketComment
        <5>2. op[r].ticket \in Objects /\ op[r].parent \in Objects
          BY <3>3, <5>1, OpFields DEF OnTicket
        <5>3. obj' = [obj EXCEPT ![r] = [type |-> "comment", ticket |-> op[r].ticket,
                                         parent |-> op[r].parent]]
          BY <4>3 DEF CreateTicketComment
        <5> QED BY <1>0, <5>2, <5>3 DEF TypeOK
      <4> QED BY <1>0, <1>2, <4>1, <4>2, <4>3, ObjectStep DEF Adds
    <3>8. op' \in [Requests -> Ops \union {NoOp}] /\ at' \in [Requests -> 1..4]
          /\ body' \in [Requests -> Seq(Requests)]
      BY <1>0, <3>2 DEF TypeOK
    <3> QED BY <2>5, <3>2, <3>4, <3>5, <3>6, <3>7, <3>8 DEF TypeOK
  <2> QED BY <1>2, <2>1, <2>2, <2>3, <2>4, <2>6, <2>7 DEF StepOf
<1> QED BY <1>1, <1>2, StepCases

\* Objects come and stay as they should.
LEMMA ObjectsStep == IInv /\ [Next]_vars => ObjectsKnown'
<1> SUFFICES ASSUME IInv, [Next]_vars PROVE ObjectsKnown'
  OBVIOUS
<1>0. TypeOK /\ ObjectsKnown /\ OpsNamed
  BY DEF IInv
<1>1. ASSUME UNCHANGED <<obj, pc>> PROVE ObjectsKnown'
  BY <1>0, <1>1 DEF ObjectsKnown, Tickets, Comments
<1>2. ASSUME NEW r \in Requests, StepOf(r) PROVE ObjectsKnown'
  <2>1. Grows /\ \A q \in Requests \ {r} : pc'[q] = pc[q]
    BY <1>0, <1>2, ObjectStep, OthersKept
  <2>2. Tickets \subseteq Tickets'
    BY <2>1 DEF Grows, Tickets, NoObject
  <2>3. CASE UNCHANGED obj
    <3>1. pc'[r] # "done" => pc[r] # "done"
      BY <1>2, WriteCommits
         DEF StepOf, Start, Check, Lock, Passes, LocksParent, Aborts, Rollback,
             Goto, Commit, InTx
    <3>2. \A q \in Requests : pc'[q] # "done" => obj'[q] = NoObject
      BY <1>0, <2>1, <2>3, <3>1 DEF ObjectsKnown
    <3> QED BY <1>0, <2>3, <3>2 DEF ObjectsKnown, Tickets, Comments
  <2>4. CASE Adds(r)
    <3>1. pc'[r] = "done" /\ op[r] \in Ops /\ Names(op[r])
      BY <1>0, <2>4 DEF Adds, CreateTicket, CreateTicketComment, Commit, Goto, TypeOK,
         OpsNamed
    <3>2. \A x \in Objects \ {r} : obj'[x] = obj[x]
      BY <1>0, <2>4 DEF Adds, TypeOK
    <3>3. \A q \in Requests : pc'[q] # "done" => obj'[q] = NoObject
      BY <1>0, <2>1, <3>1, <3>2 DEF ObjectsKnown, Objects
    <3>4. obj'[r].type = "comment" => obj'[r].ticket \in Tickets
      <4>1. CASE CreateTicket(r)
        <5>1. obj' = [obj EXCEPT ![r] = [type |-> "ticket", tracker |-> op[r].tracker,
                                         repo |-> op[r].repo]]
          BY <4>1 DEF CreateTicket
        <5>2. obj'[r] = [type |-> "ticket", tracker |-> op[r].tracker,
                         repo |-> op[r].repo]
          BY <1>0, <5>1 DEF TypeOK, Objects
        <5> QED BY <5>2
      <4>2. CASE CreateTicketComment(r)
        <5>1. obj' = [obj EXCEPT ![r] = [type |-> "comment", ticket |-> op[r].ticket,
                                         parent |-> op[r].parent]]
          BY <4>2 DEF CreateTicketComment
        <5>2. obj'[r] = [type |-> "comment", ticket |-> op[r].ticket,
                         parent |-> op[r].parent]
          BY <1>0, <5>1 DEF TypeOK, Objects
        <5> QED BY <3>1, <4>2, <5>2 DEF CreateTicketComment, Names, OnTicket
      <4> QED BY <2>4, <4>1, <4>2 DEF Adds
    <3>5. \A x \in Comments' : obj'[x].ticket \in Tickets
      BY <1>0, <3>2, <3>4 DEF Comments, ObjectsKnown
    <3> QED BY <2>2, <3>3, <3>5 DEF ObjectsKnown
  <2> QED BY <1>0, <1>2, <2>3, <2>4, ObjectStep
<1> QED BY <1>1, <1>2, StepCases DEF vars, db

\* A request keeps to the objects it named, which stay.
LEMMA NamesStep == IInv /\ [Next]_vars => OpsNamed'
<1> SUFFICES ASSUME IInv, [Next]_vars PROVE OpsNamed'
  OBVIOUS
<1>0. TypeOK /\ ObjectsKnown /\ OpsNamed
  BY DEF IInv
<1>1. ASSUME UNCHANGED vars PROVE OpsNamed'
  BY <1>0, <1>1 DEF vars, db, reqs, OpsNamed, Names, Tickets, Comments
<1>2. ASSUME NEW r \in Requests, StepOf(r) PROVE OpsNamed'
  <2>1. Grows
    BY <1>0, <1>2, ObjectStep
  <2>2. ASSUME NEW q \in Requests, pc'[q] # "idle", pc[q] # "idle", op'[q] = op[q],
               pc'[q] = "parent" => pc[q] = "parent" \/ op[q].kind = "comment"
        PROVE  /\ op'[q] \in Ops /\ Names(op[q])'
               /\ pc'[q] = "parent" => op'[q].kind = "comment"
    BY <1>0, <2>1, <2>2, RowsStable DEF OpsNamed
  <2>3. ASSUME NEW q \in Requests \ {r}, pc'[q] # "idle"
        PROVE  /\ op'[q] \in Ops /\ Names(op[q])'
               /\ pc'[q] = "parent" => op'[q].kind = "comment"
    BY <1>0, <1>2, <2>2, <2>3, OthersKept
  <2>4. /\ op'[r] \in Ops /\ Names(op[r])'
        /\ pc'[r] = "parent" => op'[r].kind = "comment"
    <3>1. ASSUME NEW o \in Ops, Start(r, o)
          PROVE  op'[r] \in Ops /\ Names(op[r])' /\ pc'[r] # "parent"
      <4>1. op'[r] = o /\ Names(o) /\ UNCHANGED obj /\ pc'[r] \in {"check", "lock"}
        BY <1>0, <3>1 DEF Start, Goto, TypeOK, db
      <4> QED BY <4>1 DEF Names, Tickets, Comments
    <3>2. CASE ~\E o \in Ops : Start(r, o)
      <4>1. pc[r] # "idle" /\ op'[r] = op[r]
        BY <1>2, <3>2, WriteCommits
           DEF StepOf, Check, Lock, Passes, LocksParent, Aborts, Rollback, Goto,
               Commit, InTx, reqs
      <4>2. pc'[r] # "idle"
        BY <1>0, <1>2, <3>2, WriteCommits
           DEF TypeOK, StepOf, Check, Lock, Passes, LocksParent, Aborts, Rollback,
               Goto, Commit
      <4>3. pc'[r] = "parent" => op[r].kind = "comment"
        BY <1>0, <1>2, <3>2, WriteCommits
           DEF TypeOK, StepOf, Check, Lock, Passes, LocksParent, Aborts, Rollback,
               Goto, Commit, IsReply
      <4> QED BY <2>2, <4>1, <4>2, <4>3
    <3> QED BY <3>1, <3>2
  <2> QED BY <2>3, <2>4 DEF OpsNamed
<1> QED BY <1>1, <1>2, StepCases

\* Locks are taken in order and kept to the end.
LEMMA LocksStep == IInv /\ [Next]_vars => LocksHeld'
<1> SUFFICES ASSUME IInv, [Next]_vars PROVE LocksHeld'
  OBVIOUS
<1> DEFINE Holds(q) ==
      /\ pc[q] \in {"idle", "check"} => at[q] = 1
      /\ pc[q] = "lock" => at[q] \in 1..Len(RowsOf(op[q]))
      /\ pc[q] \in InTx \ {"lock"} => at[q] = Len(RowsOf(op[q])) + 1
      /\ pc[q] \in InTx =>
           \A i \in 1..(at[q] - 1) : holder[RowsOf(op[q])[i]] = q
<1>0. TypeOK /\ ObjectsKnown /\ OpsNamed /\ LocksHeld /\ None \notin Requests
  BY RowsDiffer DEF IInv, Rows, Objects
<1>1. ASSUME UNCHANGED vars PROVE LocksHeld'
  BY <1>0, <1>1 DEF vars, db, reqs, LocksHeld, RowsOf, CreateRows, AssignRows,
                    TicketRows, CommentRows
<1>2. ASSUME NEW r \in Requests, StepOf(r) PROVE LocksHeld'
  <2>1. Grows
    BY <1>0, <1>2, ObjectStep
  <2>2. ASSUME NEW q \in Requests, pc[q] # "idle", op'[q] = op[q]
        PROVE  RowsOf(op[q])' = RowsOf(op[q])
    BY <1>0, <2>1, <2>2, RowsStable
  <2>3. ASSUME NEW q \in Requests \ {r} PROVE Holds(q)'
    <3>1. pc'[q] = pc[q] /\ op'[q] = op[q] /\ at'[q] = at[q] /\ Holds(q)
      BY <1>0, <1>2, OthersKept DEF LocksHeld
    <3>2. CASE pc[q] = "idle"
      BY <3>1, <3>2 DEF InTx
    <3>3. CASE pc[q] # "idle"
      <4>1. RowsOf(op[q])' = RowsOf(op[q])
        BY <2>2, <3>1, <3>3
      <4>2. pc[q] \in InTx => \A i \in 1..(at[q] - 1) :
                                holder'[RowsOf(op[q])[i]] = holder[RowsOf(op[q])[i]]
        BY <1>0, <1>2, HoldsRows, OthersKept
      <4> QED BY <3>1, <4>1, <4>2
    <3> QED BY <3>2, <3>3
  <2>4. Holds(r)'
    <3>1. CASE pc'[r] = "done"
      BY <3>1 DEF InTx
    <3>2. ASSUME NEW o \in Ops, Start(r, o) PROVE Holds(r)'
      <4>1. /\ Names(o) /\ op' = [op EXCEPT ![r] = o] /\ UNCHANGED <<obj, at>>
            /\ at[r] = 1 /\ pc'[r] \in {"check", "lock"}
        BY <1>0, <3>2 DEF Start, Goto, TypeOK, db, LocksHeld
      <4>2. RowsOf(op[r])' = RowsOf(o)
        <5>1. op'[r] = o
          BY <1>0, <4>1 DEF TypeOK
        <5> QED BY <4>1, <5>1 DEF RowsOf, CreateRows, AssignRows, TicketRows, CommentRows
      <4>3. 1 \in 1..Len(RowsOf(o))
        BY <1>0, <4>1, LockedRows
      <4>4. 1..(at'[r] - 1) = {}
        BY <4>1
      <4> HIDE DEF InTx
      <4> QED BY <4>1, <4>2, <4>3, <4>4 DEF InTx
    <3>3. CASE pc[r] = "check" /\ pc'[r] = "lock" /\ UNCHANGED <<db, holder, reqs>>
      <4>1. op[r] \in Ops /\ Names(op[r]) /\ at[r] = 1
        BY <1>0, <3>3 DEF OpsNamed, LocksHeld
      <4>2. RowsOf(op[r])' = RowsOf(op[r]) /\ at'[r] = 1 /\ 1 \in 1..Len(RowsOf(op[r]))
        BY <1>0, <2>2, <3>3, <4>1, LockedRows DEF reqs
      <4>3. 1..(at'[r] - 1) = {}
        BY <4>2
      <4> QED BY <3>3, <4>2, <4>3 DEF InTx
    <3>4. CASE Lock(r)
      <4>1. /\ pc[r] = "lock" /\ at[r] \in 1..Len(RowsOf(op[r])) /\ Holds(r)
            /\ op[r] \in Ops /\ Names(op[r])
        BY <1>0, <3>4 DEF Lock, LocksHeld, OpsNamed
      <4>2. PICK rows, k : rows = RowsOf(op[r]) /\ k = at[r]
        OBVIOUS
      <4>3. Len(rows) \in Nat /\ k \in 1..Len(rows) /\ rows[k] \in Rows
        BY <1>0, <4>1, <4>2, LockedRows
      <4>4. /\ holder' = [holder EXCEPT ![rows[k]] = r] /\ op' = op
            /\ at' = [at EXCEPT ![r] = k + 1]
            /\ pc'[r] = IF k = Len(rows) THEN "verify" ELSE "lock"
        BY <1>0, <3>4, <4>1, <4>2 DEF Lock, NextRow, TypeOK
      <4>5. RowsOf(op[r])' = rows
        BY <2>2, <4>1, <4>2, <4>4
      <4>6. at'[r] = k + 1
        BY <1>0, <4>4 DEF TypeOK
      <4>7. \A i \in 1..(at'[r] - 1) : holder'[rows[i]] = r
        <5>1. ASSUME NEW i \in 1..k PROVE holder'[rows[i]] = r
          <6>1. CASE i = k
            BY <1>0, <4>3, <4>4, <6>1 DEF TypeOK
          <6>2. CASE i # k
            <7>1. i \in 1..(k - 1) /\ i \in 1..Len(rows)
              BY <4>3, <6>2
            <7>2. holder[rows[i]] = r /\ rows[i] \in Rows
              BY <1>0, <4>1, <4>2, <7>1, LockedRows DEF InTx
            <7> QED BY <1>0, <4>4, <7>2 DEF TypeOK
          <6> QED BY <6>1, <6>2
        <5>2. at'[r] - 1 = k
          BY <4>3, <4>6
        <5> QED BY <5>1, <5>2
      <4>8. CASE k = Len(rows)
        BY <4>4, <4>5, <4>6, <4>7, <4>8 DEF InTx
      <4>9. CASE k # Len(rows)
        <5>1. k + 1 \in 1..Len(rows)
          BY <4>3, <4>9
        <5> QED BY <4>4, <4>5, <4>6, <4>7, <4>9, <5>1 DEF InTx
      <4> QED BY <4>8, <4>9
    <3>5. CASE Passes(r) \/ LocksParent(r)
      <4>1. /\ pc[r] \in InTx \ {"lock"} /\ pc'[r] \in InTx \ {"lock"} /\ UNCHANGED reqs
            /\ \/ UNCHANGED holder
               \/ \E x \in Rows : holder[x] = None /\ holder' = [holder EXCEPT ![x] = r]
        BY <1>0, <3>5 DEF Passes, LocksParent, TypeOK, InTx, Comments, Rows
      <4>2. RowsOf(op[r])' = RowsOf(op[r]) /\ at'[r] = at[r]
        BY <2>2, <4>1 DEF reqs, InTx
      <4>3. \A x \in Rows : holder[x] = r => holder'[x] = r
        BY <1>0, <4>1 DEF TypeOK
      <4>4. \A i \in 1..(at[r] - 1) : holder'[RowsOf(op[r])[i]] = r
        BY <4>1, <4>3, HoldsRows
      <4> QED BY <1>0, <4>1, <4>2, <4>4 DEF LocksHeld, InTx
    <3> QED BY <1>0, <1>2, <3>1, <3>2, <3>3, <3>4, <3>5, OwnProgress
  <2> QED BY <2>3, <2>4 DEF LocksHeld
<1> QED BY <1>1, <1>2, StepCases

\* Nobody changes the tracker or the members of a repository whose row the
\* request holds, so what it has checked still holds.
LEMMA ChecksStep == IInv /\ [Next]_vars => ChecksStand'
<1> SUFFICES ASSUME IInv, [Next]_vars PROVE ChecksStand'
  OBVIOUS
<1>0. TypeOK /\ ObjectsKnown /\ OpsNamed /\ ChecksStand
  BY DEF IInv
<1>1. ASSUME UNCHANGED vars PROVE ChecksStand'
  BY <1>0, <1>1 DEF vars, db, reqs, ChecksStand, CanAccess, RepoOf
<1>2. ASSUME NEW r \in Requests, StepOf(r) PROVE ChecksStand'
  <2>1. Grows
    BY <1>0, <1>2, ObjectStep
  <2>2. ASSUME NEW q \in Requests, pc[q] # "idle", op'[q] = op[q],
               op[q].kind = "create" =>
                 link[op[q].repo] = op[q].tracker /\ link'[op[q].repo] = link[op[q].repo],
               op[q].kind \in OnTicket =>
                 /\ CanAccess(op[q].user, RepoOf(op[q]))
                 /\ members[RepoOf(op[q])] \subseteq members'[RepoOf(op[q])]
        PROVE  /\ op'[q].kind = "create" => link'[op'[q].repo] = op'[q].tracker
               /\ op'[q].kind \in OnTicket => CanAccess(op[q].user, RepoOf(op[q]))'
    <3>1. RepoOf(op[q])' = RepoOf(op[q])
      BY <1>0, <2>1, <2>2, RowsStable
    <3> QED BY <2>2, <3>1 DEF CanAccess
  <2>3. ASSUME NEW q \in Requests \ {r}, pc'[q] \in {"parent", "write"}
        PROVE  /\ op'[q].kind = "create" => link'[op'[q].repo] = op'[q].tracker
               /\ op'[q].kind \in OnTicket => CanAccess(op[q].user, RepoOf(op[q]))'
    <3>1. pc[q] \in {"parent", "write"} /\ pc[q] \in InTx /\ op'[q] = op[q]
      BY <1>0, <1>2, <2>3, OthersKept DEF InTx
    <3>2. /\ op[q] \in Ops /\ Names(op[q])
          /\ op[q].kind \in OnTicket \union {"create"} =>
               RepoOf(op[q]) \in Repos /\ holder[RepoOf(op[q])] # r
      <4>1. op[q] \in Ops /\ Names(op[q])
        BY <1>0, <3>1 DEF OpsNamed
      <4>2. op[q].kind \in OnTicket \union {"create"} => holder[RepoOf(op[q])] = q
        BY <3>1, HoldsRows DEF OnTicket
      <4>3. op[q].kind \in OnTicket => RepoOf(op[q]) \in Repos
        <5>1. op[q].kind \in OnTicket => op[q].ticket \in Tickets
          BY <4>1 DEF Names
        <5>2. \A x \in Tickets : obj[x].repo \in Repos
          BY <1>0, ObjectFields DEF Tickets
        <5>3. op[q].kind \in OnTicket => RepoOf(op[q]) = obj[op[q].ticket].repo
          BY DEF RepoOf, OnTicket
        <5> QED BY <5>1, <5>2, <5>3
      <4>4. op[q].kind = "create" => RepoOf(op[q]) \in Repos
        BY <4>1, OpFields DEF RepoOf, OnTicket
      <4> QED BY <4>1, <4>2, <4>3, <4>4
    <3>3. op[q].kind = "create" => RepoOf(op[q]) = op[q].repo
      BY DEF RepoOf, OnTicket
    <3>4. op[q].kind \in OnTicket \union {"create"} =>
            /\ link'[RepoOf(op[q])] = link[RepoOf(op[q])]
            /\ members[RepoOf(op[q])] \subseteq members'[RepoOf(op[q])]
      BY <1>2, <3>2, ChangesHeld
    <3> QED BY <1>0, <2>2, <3>1, <3>3, <3>4 DEF ChecksStand
  <2>4. ASSUME pc'[r] \in {"parent", "write"}
        PROVE  /\ op'[r].kind = "create" => link'[op'[r].repo] = op'[r].tracker
               /\ op'[r].kind \in OnTicket => CanAccess(op[r].user, RepoOf(op[r]))'
    <3>1. Passes(r) \/ LocksParent(r)
      BY <1>0, <1>2, <2>4, OwnProgress DEF Start, Lock, Goto, TypeOK
    <3>2. /\ pc[r] # "idle" /\ UNCHANGED <<op, link, members>>
          /\ op[r].kind = "create" => link[op[r].repo] = op[r].tracker
          /\ op[r].kind \in OnTicket => CanAccess(op[r].user, RepoOf(op[r]))
      BY <1>0, <3>1 DEF Passes, LocksParent, Valid, ChecksStand, db, reqs
    <3> QED BY <2>2, <3>2
  <2> QED BY <2>3, <2>4 DEF ChecksStand
<1> QED BY <1>1, <1>2, StepCases

\* Nobody changes the object an update has locked, so the body is current.
LEMMA BodyStep == IInv /\ [Next]_vars => BodyCurrent'
<1> SUFFICES ASSUME IInv, [Next]_vars PROVE BodyCurrent'
  OBVIOUS
<1>0. TypeOK /\ ObjectsKnown /\ OpsNamed /\ BodyCurrent
  BY DEF IInv
<1>1. ASSUME UNCHANGED vars PROVE BodyCurrent'
  BY <1>0, <1>1 DEF vars, db, reqs, BodyCurrent, Target
<1>2. ASSUME NEW r \in Requests, StepOf(r) PROVE BodyCurrent'
  <2>1. ASSUME NEW q \in Requests \ {r}, pc'[q] \in InTx, op'[q].kind \in Updates,
               at'[q] > 1
        PROVE  body'[q] = content'[Target(op[q])']
    <3>1. /\ pc[q] \in InTx /\ op'[q] = op[q] /\ at[q] > 1 /\ op[q].kind \in Updates
          /\ body'[q] = body[q]
      BY <1>0, <1>2, <2>1, OthersKept
    <3>2. Target(op[q])' = Target(op[q])
      BY <3>1 DEF Target
    <3>3. Target(op[q]) \in Objects /\ holder[Target(op[q])] = q
      BY <3>1, HoldsRows
    <3>4. content'[Target(op[q])] = content[Target(op[q])]
      BY <1>2, <3>3, ChangesHeld
    <3> QED BY <1>0, <3>1, <3>2, <3>4 DEF BodyCurrent
  <2>2. ASSUME pc'[r] \in InTx, op'[r].kind \in Updates, at'[r] > 1
        PROVE  body'[r] = content'[Target(op[r])']
    <3>1. pc'[r] # "done"
      BY <2>2 DEF InTx
    <3>2. CASE Lock(r)
      <4>1. op' = op /\ content' = content /\ body' = [body EXCEPT ![r] = content[Target(op[r])]]
        BY <2>2, <3>2 DEF Lock, db
      <4>2. Target(op[r])' = Target(op[r])
        BY <4>1 DEF Target
      <4> QED BY <1>0, <4>1, <4>2 DEF TypeOK
    <3>3. CASE Passes(r) \/ LocksParent(r)
      <4>1. pc[r] \in InTx /\ UNCHANGED <<op, at, body, content>>
        BY <3>3 DEF Passes, LocksParent, db, reqs, InTx
      <4>2. Target(op[r])' = Target(op[r])
        BY <4>1 DEF Target
      <4> QED BY <1>0, <2>2, <4>1, <4>2 DEF BodyCurrent
    <3>4. CASE pc[r] \in {"idle", "check"} /\ UNCHANGED at
      BY <2>2, <3>4 DEF IInv, LocksHeld
    <3> QED BY <1>0, <1>2, <3>1, <3>2, <3>3, <3>4, OwnProgress DEF Start, Goto, reqs
  <2> QED BY <2>1, <2>2 DEF BodyCurrent
<1> QED BY <1>1, <1>2, StepCases

\* The versions of a body are its beginnings, and stay so when the body is
\* saved as a version and gets one more update.
LEMMA HistoryGrows ==
  ASSUME NEW vs \in Seq(Seq(Requests)), NEW c \in Seq(Requests), NEW e \in Requests,
         Len(vs) = Len(c), \A i \in 1..Len(vs) : vs[i] = SubSeq(c, 1, i - 1)
  PROVE  /\ Len(Append(vs, c)) = Len(Append(c, e))
         /\ \A i \in 1..Len(Append(vs, c)) :
              Append(vs, c)[i] = SubSeq(Append(c, e), 1, i - 1)
<1>1. /\ Len(Append(vs, c)) = Len(c) + 1 /\ Len(Append(c, e)) = Len(c) + 1
      /\ \A i \in 1..Len(c) : Append(vs, c)[i] = vs[i]
      /\ Append(vs, c)[Len(c) + 1] = c /\ Len(c) \in Nat
  BY AppendProperties, LenProperties
<1>2. ASSUME NEW n \in 0..Len(c) PROVE SubSeq(Append(c, e), 1, n) = SubSeq(c, 1, n)
  <2>1. CASE n = 0
    BY <2>1, SubSeqEmpty
  <2>2. CASE n # 0
    <3>1. n \in 1..Len(c) /\ 1 \in 1..Len(c) /\ <<e>> \in Seq(Requests)
      BY <1>1, <2>2
    <3> QED BY <3>1, SubSeqOfConcat1, AppendIsConcat
  <2> QED BY <2>1, <2>2
<1>3. ASSUME NEW i \in 1..(Len(c) + 1)
      PROVE  Append(vs, c)[i] = SubSeq(Append(c, e), 1, i - 1)
  <2>1. i - 1 \in 0..Len(c) /\ (i # Len(c) + 1 => i \in 1..Len(c))
    BY <1>1
  <2>2. CASE i = Len(c) + 1
    <3>1. SubSeq(c, 1, Len(c)) = c
      BY SubSeqFull
    <3>2. i - 1 = Len(c)
      BY <1>1, <2>2
    <3> QED BY <1>1, <1>2, <2>1, <2>2, <3>1, <3>2
  <2>3. CASE i # Len(c) + 1
    BY <1>1, <1>2, <2>1, <2>3
  <2> QED BY <2>2, <2>3
<1> QED BY <1>1, <1>3

\* No update is lost and none is saved twice.
LEMMA HistoryStep == IInv /\ [Next]_vars => HistoryKept'
<1> SUFFICES ASSUME IInv, [Next]_vars PROVE HistoryKept'
  OBVIOUS
<1>0. TypeOK /\ OpsNamed /\ BodyCurrent /\ HistoryKept
  BY DEF IInv
<1>1. ASSUME UNCHANGED <<content, versions>> PROVE HistoryKept'
  BY <1>0, <1>1 DEF HistoryKept
<1>2. ASSUME NEW r \in Requests, Update(r) PROVE HistoryKept'
  <2>1. PICK x : x = Target(op[r])
    OBVIOUS
  <2>2. pc[r] = "write" /\ pc[r] \in InTx /\ op[r].kind \in Updates
    BY <1>2 DEF Update, Commit, Goto, InTx
  <2>3. x \in Objects /\ body[r] = content[x]
    <3>1. op[r] \in Ops
      BY <1>0, <2>2 DEF OpsNamed
    <3>2. at[r] > 1
      BY <2>2, HoldsRows
    <3> QED BY <1>0, <2>1, <2>2, <3>1, <3>2, OpFields DEF BodyCurrent
  <2>4. /\ versions' = [versions EXCEPT ![x] = Append(versions[x], content[x])]
        /\ content' = [content EXCEPT ![x] = Append(content[x], r)]
    BY <1>2, <2>1, <2>3 DEF Update
  <2>5. content[x] \in Seq(Requests) /\ versions[x] \in Seq(Seq(Requests))
    BY <1>0, <2>3 DEF TypeOK
  <2>6. versions'[x] = Append(versions[x], content[x]) /\ content'[x] = Append(content[x], r)
    BY <1>0, <2>3, <2>4 DEF TypeOK
  <2>7. /\ Len(versions'[x]) = Len(content'[x])
        /\ \A i \in 1..Len(versions'[x]) : versions'[x][i] = SubSeq(content'[x], 1, i - 1)
    BY <1>0, <2>3, <2>5, <2>6, HistoryGrows DEF HistoryKept
  <2>8. \A y \in Objects \ {x} : versions'[y] = versions[y] /\ content'[y] = content[y]
    BY <1>0, <2>3, <2>4 DEF TypeOK
  <2> QED BY <1>0, <2>7, <2>8 DEF HistoryKept
<1>3. ASSUME NEW r \in Requests, StepOf(r), ~Update(r) PROVE UNCHANGED <<content, versions>>
  BY <1>3 DEF StepOf, Start, Check, Lock, Passes, LocksParent, Aborts, Rollback, db,
     Write, CreateTicket, AssignTicketTrackerToRepository,
     UnassignTicketTrackerFromRepository, AddRepositoryMember,
     RemoveRepositoryMember, AddAssignee, RemoveAssignee, CreateTicketComment
<1> QED BY <1>1, <1>2, <1>3, StepCases DEF vars, db

-----------------------------------------------------------------------------
(* The theorems.                                                           *)

\* No request has come, and the seeds are tickets and comments on them.
LEMMA InitIInv == Init => IInv
<1> SUFFICES ASSUME Init PROVE IInv
  OBVIOUS
<1>0. PICK old \in SUBSET Seeds :
        \E home \in [old -> [type : {"ticket"}, tracker : Trackers, repo : Repos]],
           root \in [Seeds \ old -> old] :
          obj = [x \in Objects |->
                   IF x \in old THEN home[x]
                   ELSE IF x \in Seeds
                   THEN [type |-> "comment", ticket |-> root[x], parent |-> root[x]]
                   ELSE NoObject]
  BY DEF Init
<1>1. PICK home \in [old -> [type : {"ticket"}, tracker : Trackers, repo : Repos]],
           root \in [Seeds \ old -> old] :
        obj = [x \in Objects |->
                 IF x \in old THEN home[x]
                 ELSE IF x \in Seeds
                 THEN [type |-> "comment", ticket |-> root[x], parent |-> root[x]]
                 ELSE NoObject]
  BY <1>0
<1>2. ASSUME NEW x \in Objects
      PROVE  /\ obj[x] \in {NoObject}
                 \union [type : {"ticket"}, tracker : Trackers, repo : Repos]
                 \union [type : {"comment"}, ticket : Objects, parent : Objects]
             /\ x \in old => obj[x].type = "ticket"
             /\ obj[x].type = "comment" => obj[x].ticket \in old
             /\ x \notin Seeds => obj[x] = NoObject
  <2>1. CASE x \in old
    <3>1. obj[x] = home[x] /\ x \in Seeds
      BY <1>1, <2>1
    <3>2. home[x] \in [type : {"ticket"}, tracker : Trackers, repo : Repos]
      BY <2>1
    <3> QED BY <3>1, <3>2
  <2>2. CASE x \in Seeds \ old
    <3>1. root[x] \in old /\ root[x] \in Objects
      BY <2>2 DEF Objects
    <3>2. obj[x] = [type |-> "comment", ticket |-> root[x], parent |-> root[x]]
      BY <1>1, <2>2
    <3> QED BY <2>2, <3>1, <3>2
  <2>3. CASE x \notin Seeds
    BY <1>1, <2>3 DEF NoObject
  <2> QED BY <2>1, <2>2, <2>3
<1>3. \A r \in Requests : obj[r] = NoObject
  BY <1>2, RowsDiffer DEF Objects
<1>4. ObjectsKnown
  <2>1. old \subseteq Tickets
    BY <1>2 DEF Tickets, Objects
  <2> QED BY <1>2, <1>3, <2>1 DEF ObjectsKnown, Comments
<1>5. TypeOK
  <2>1. DOMAIN obj = Objects /\ obj = [x \in Objects |-> obj[x]]
    BY <1>1
  <2>2. obj \in [Objects -> {NoObject}
          \union [type : {"ticket"}, tracker : Trackers, repo : Repos]
          \union [type : {"comment"}, ticket : Objects, parent : Objects]]
    BY <1>2, <2>1
  <2>3. /\ content \in [Objects -> Seq(Requests)]
        /\ versions \in [Objects -> Seq(Seq(Requests))]
        /\ body \in [Requests -> Seq(Requests)]
    BY DEF Init
  <2>4. /\ op \in [Requests -> Ops \union {NoOp}] /\ at \in [Requests -> 1..4]
        /\ pc \in [Requests -> {"idle", "check", "done"} \union InTx]
        /\ holder \in [Rows -> {r \in Requests : pc[r] \in InTx} \union {None}]
    BY DEF Init
  <2> QED BY <2>2, <2>3, <2>4 DEF Init, TypeOK
<1>6. OpsNamed /\ LocksHeld /\ ChecksStand /\ BodyCurrent
  BY DEF Init, OpsNamed, LocksHeld, ChecksStand, BodyCurrent, InTx
<1>7. HistoryKept
  BY DEF Init, HistoryKept
<1> QED BY <1>4, <1>5, <1>6, <1>7 DEF IInv

\* The inductive invariant: the rows each transaction holds, and what it has
\* checked and read under them.
THEOREM Invariance == Spec => []IInv
<1>1. IInv /\ [Next]_vars => IInv'
  BY TypeStep, ObjectsStep, NamesStep, LocksStep, ChecksStep, BodyStep, HistoryStep
     DEF IInv
<1> QED BY <1>1, InitIInv, PTL DEF Spec

\* Every variable keeps its type, and only open transactions hold locks.
THEOREM TypeCorrect == Spec => []TypeOK
BY Invariance, PTL DEF IInv

\* No update of a ticket or comment is lost, and its versions are the bodies it
\* had, for any number of concurrent updates.
THEOREM HistoryComplete == Spec => []HistoryKept
BY Invariance, PTL DEF IInv

\* No member who is removed between the check and the commit gets a write to a
\* ticket in.
THEOREM AccessAtCommit == Spec => WritesUnderAccess
<1>1. IInv /\ [Next]_vars =>
        [\A r \in Requests :
           TicketWrite(r) => CanAccess(op[r].user, RepoOf(op[r]))]_vars
  <2> SUFFICES ASSUME IInv, NEW r \in Requests, TicketWrite(r)
               PROVE  CanAccess(op[r].user, RepoOf(op[r]))
    OBVIOUS
  <2>1. Commit(r) /\ op[r].kind \in OnTicket
    BY DEF TicketWrite, AddAssignee, RemoveAssignee, CreateTicketComment, Update,
           OnTicket
  <2> QED BY <2>1 DEF IInv, ChecksStand, Commit, Goto
<1> QED BY <1>1, Invariance, PTL DEF Spec, WritesUnderAccess

\* No ticket appears in a repository whose tracker has been changed meanwhile.
THEOREM LinkedAtCommit == Spec => TicketInLinkedTracker
<1>1. IInv /\ [Next]_vars =>
        [\A r \in Requests :
           obj[r].type = "none" /\ obj'[r].type = "ticket" =>
             link[obj'[r].repo] = obj'[r].tracker]_vars
  <2> SUFFICES ASSUME IInv, [Next]_vars, NEW r \in Requests,
                      obj[r].type = "none", obj'[r].type = "ticket"
               PROVE  link[obj'[r].repo] = obj'[r].tracker
    OBVIOUS
  <2>1. obj' # obj /\ obj'[r] # obj[r]
    OBVIOUS
  <2>2. PICK q \in Requests : StepOf(q)
    BY <2>1, StepCases DEF vars, db
  <2>3. Adds(q) /\ q = r
    BY <2>1, <2>2, ObjectStep DEF IInv, Adds, TypeOK, Objects
  <2>4. CASE CreateTicket(r)
    <3>1. obj'[r] = [type |-> "ticket", tracker |-> op[r].tracker, repo |-> op[r].repo]
      BY <2>3, <2>4 DEF IInv, TypeOK, Objects, CreateTicket
    <3>2. link[op[r].repo] = op[r].tracker
      BY <2>4 DEF CreateTicket, Commit, Goto, IInv, ChecksStand
    <3> QED BY <3>1, <3>2
  <2>5. CASE CreateTicketComment(r)
    <3>1. obj'[r] = [type |-> "comment", ticket |-> op[r].ticket,
                     parent |-> op[r].parent]
      BY <2>3, <2>5 DEF IInv, TypeOK, Objects, CreateTicketComment
    <3> QED BY <3>1
  <2> QED BY <2>3, <2>4, <2>5 DEF Adds
<1> QED BY <1>1, Invariance, PTL DEF Spec, TicketInLinkedTracker

\* One notification for each time a user becomes an assignee, and none else.
THEOREM NotifiedOnce == Spec => NotifiedOncePerAssignment
<1>1. IInv /\ [Next]_vars =>
        [\A p \in Objects \X Users :
           notes'[p] = notes[p] + (IF p \in assigned' \ assigned THEN 1 ELSE 0)]_vars
  <2> SUFFICES ASSUME IInv, [Next]_vars, NEW p \in Objects \X Users
               PROVE  notes'[p] = notes[p] + (IF p \in assigned' \ assigned THEN 1 ELSE 0)
    OBVIOUS
  <2>0. notes \in [Objects \X Users -> Nat]
    BY DEF IInv, TypeOK
  <2>1. CASE notes' = notes /\ assigned' \subseteq assigned
    BY <2>0, <2>1
  <2>2. ASSUME NEW r \in Requests, AddAssignee(r)
        PROVE  notes'[p] = notes[p] + (IF p \in assigned' \ assigned THEN 1 ELSE 0)
    <3>1. PICK o : o = <<op[r].ticket, op[r].whom>>
      OBVIOUS
    <3>2. /\ assigned' = assigned \union {o}
          /\ notes' = IF o \in assigned THEN notes ELSE [notes EXCEPT ![o] = @ + 1]
      BY <2>2, <3>1 DEF AddAssignee
    <3> QED BY <2>0, <3>2
  <2>3. ASSUME NEW r \in Requests, StepOf(r), ~AddAssignee(r)
        PROVE  notes' = notes /\ assigned' \subseteq assigned
    BY <2>3 DEF StepOf, Start, Check, Lock, Passes, LocksParent, Aborts, Rollback, db,
       Write, CreateTicket, AssignTicketTrackerToRepository,
       UnassignTicketTrackerFromRepository, AddRepositoryMember,
       RemoveRepositoryMember, RemoveAssignee, CreateTicketComment, Update
  <2> QED BY <2>1, <2>2, <2>3, StepCases DEF vars, db
<1> QED BY <1>1, Invariance, PTL DEF Spec, NotifiedOncePerAssignment

================================================================================

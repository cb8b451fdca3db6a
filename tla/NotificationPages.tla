-------------------------- MODULE NotificationPages --------------------------
(***************************************************************************)
(* Reading notifications page by page while assignments add new ones       *)
(* (src/internal/common/store_notification.go, the handlers in             *)
(* src/cmd/web/api_v1.go and data.go, and pagination.go).                  *)
(*                                                                         *)
(* Ids come from a BIGSERIAL: an INSERT takes the next one, the row is     *)
(* visible once its transaction commits, and the id of a transaction that  *)
(* rolls back is never used again.  The transaction that inserts the row   *)
(* holds the lock of the repository, as do the ones that change its        *)
(* members; transactions on different repositories overlap freely.         *)
(*                                                                         *)
(* A reader is a client of GET /api/v1/notification.  Without min_id the   *)
(* first page is the newest one.  A reader that "walks" starts with it and *)
(* follows rel="next"; one that "polls" does so too, as far as it likes,   *)
(* and also asks again and again for what is newer than the newest id it   *)
(* has; one that "catches up" asks once with min_id and then follows       *)
(* rel="next".                                                             *)
(***************************************************************************)
EXTENDS Naturals, Sequences, FiniteSets

CONSTANTS
  Users, Repos,  \* accounts and local repositories
  Readers,       \* clients that read notifications
  UserOf,        \* the account of each reader
  PageSize,      \* the limit parameter, the same in all requests
  MaxId          \* bound on the ids given out

Ids == 1..MaxId

ASSUME ReadersType == UserOf \in [Readers -> Users]
ASSUME PageSizeType == PageSize \in 1..100
ASSUME MaxIdType == MaxId \in Nat

VARIABLES
  row,        \* the notification table, by id
  lastId,     \* the sequence behind BIGSERIAL
  inserting,  \* ids of rows whose transaction is open
  member,     \* who may see which local repository: members and administrators
  mode,       \* how each reader reads
  pc,         \* its progress
  cursor,     \* the max_id its next link leads to
  shown,      \* the ids it was sent, page after page
  promised,   \* ghost: rows the older pages, or a catch-up, have to show
  hidden      \* ghost: rows a poller had no access to when it passed them

table == <<row, lastId, inserting, member>>
ghost == <<promised, hidden>>
reads == <<mode, pc, cursor, shown, ghost>>
vars  == <<table, reads>>

NoRow == [user |-> "none"]

TypeOK ==
  /\ row \in [Ids -> [user : Users, repo : Repos, unread : BOOLEAN]
                       \union {NoRow}]
  /\ lastId \in 0..MaxId
  /\ inserting \subseteq 1..lastId
  /\ member \subseteq Users \X Repos
  /\ mode \in [Readers -> {"walk", "poll", "catchup"}]
  /\ pc \in [Readers -> {"start", "next", "done"}]
  /\ cursor \in [Readers -> 0..MaxId]
  /\ shown \in [Readers -> Seq(Ids)]
  /\ promised \in [Readers -> SUBSET Ids]
  /\ hidden \in [Readers -> SUBSET Ids]

Init ==
  /\ row = [i \in Ids |-> NoRow] /\ lastId = 0 /\ inserting = {}
  /\ member \in SUBSET (Users \X Repos)
  /\ mode \in [Readers -> {"walk", "poll", "catchup"}]
  /\ pc = [r \in Readers |-> "start"]
  /\ cursor = [r \in Readers |-> 0]
  /\ shown = [r \in Readers |-> <<>>]
  /\ promised = [r \in Readers |-> {}] /\ hidden = [r \in Readers |-> {}]

Stored == {i \in 1..lastId : row[i] # NoRow}

-----------------------------------------------------------------------------
(* Assignments and members.                                                *)

\* Seeded fault: the ticket is read without a lock on its repository.
RepositoryFree_Never(p) == TRUE

\* No open transaction holds the lock of repository p.
RepositoryFree(p) == \A i \in inserting : row[i].repo # p

\* UpdateTicketAssigneeByUsername up to its INSERT.  The row of a
\* notification is kept in row before the commit; inserting hides it.
Notify(u, p) ==
  /\ <<u, p>> \in member /\ RepositoryFree(p) /\ lastId < MaxId
  /\ lastId' = lastId + 1
  /\ row' = [row EXCEPT ![lastId + 1] = [user |-> u, repo |-> p, unread |-> TRUE]]
  /\ inserting' = inserting \union {lastId + 1}
  /\ UNCHANGED <<member, reads>>

Commit(i) ==
  /\ i \in inserting
  /\ inserting' = inserting \ {i}
  /\ UNCHANGED <<row, lastId, member, reads>>

\* Seeded fault: an id that was rolled back is given out again.
Rollback_ReusesId(i) ==
  /\ i \in inserting
  /\ inserting' = inserting \ {i} /\ row' = [row EXCEPT ![i] = NoRow]
  /\ lastId' = lastId - 1
  /\ UNCHANGED <<member, reads>>

Rollback(i) ==
  /\ i \in inserting
  /\ inserting' = inserting \ {i} /\ row' = [row EXCEPT ![i] = NoRow]
  /\ UNCHANGED <<lastId, member, reads>>

\* The rows user u may see if the members are M.
VisibleUnder(M, u) ==
  {i \in Stored \ inserting : row[i].user = u /\ <<u, row[i].repo>> \in M}

Visible(u) == VisibleUnder(member, u)

\* A member is added or removed; nobody is promised what they may not see.
SetMember(u, p) ==
  /\ RepositoryFree(p)
  /\ \E M \in {member \union {<<u, p>>}, member \ {<<u, p>>}} :
       /\ M # member /\ member' = M
       /\ promised' = [r \in Readers |->
                         promised[r] \intersect VisibleUnder(M, UserOf[r])]
  /\ UNCHANGED <<row, lastId, inserting, mode, pc, cursor, shown, hidden>>

-----------------------------------------------------------------------------
(* ListNotificationsForUser.                                               *)

\* The n greatest, or smallest, elements of a finite set of ids.
Newest(S, n) == {i \in S : Cardinality({j \in S : j > i}) < n}
Oldest(S, n) == {i \in S : Cardinality({j \in S : j < i}) < n}

\* Pages are sent newest first, whichever way they were queried.
NewestFirst(S) ==
  [k \in 1..Cardinality(S) |->
     CHOOSE i \in S : Cardinality({j \in S : j > i}) = k - 1]

LastOf(S)  == CHOOSE i \in S : \A j \in S : i <= j
FirstOf(S) == CHOOSE i \in S : \A j \in S : i >= j

\* Rows below max_id, all of them without one.
OlderThan(u, max) == {i \in Visible(u) : max = 0 \/ i < max}

NewerThan(u, min) == {i \in Visible(u) : i > min}

\* Seeded fault: LIMIT is the page size, without the one row more.
HasMore_SameLimit(S) == Cardinality(Newest(S, PageSize)) > PageSize

\* The query asks for one row more than a page holds.
HasMore(S) == Cardinality(Newest(S, PageSize + 1)) > PageSize

Send(r, page) == shown' = [shown EXCEPT ![r] = @ \o NewestFirst(page)]

\* buildNotificationNextLink: min_id is dropped and max_id is the last id of
\* the page.
FollowNext(r, more, page) ==
  IF more
  THEN pc' = [pc EXCEPT ![r] = "next"] /\ cursor' = [cursor EXCEPT ![r] = LastOf(page)]
  ELSE pc' = [pc EXCEPT ![r] = "done"] /\ UNCHANGED cursor

Seen(r) == {shown[r][k] : k \in DOMAIN shown[r]}

\* The ids a poller is through with: none is above the newest it was sent, or
\* on an older page that it has not asked for yet.
Through(r) ==
  {i \in Ids : (\E j \in Seen(r) : i <= j) /\ (pc[r] = "done" \/ cursor[r] <= i)}

\* Rows a poller gets past without access to them.
Passes(r) ==
  hidden' = IF mode[r] # "poll" THEN hidden
            ELSE [hidden EXCEPT ![r] = @ \union
                    {i \in Stored \ (inserting \union Visible(UserOf[r])) :
                       i \in Through(r)' \ Through(r)}]

\* A page of what is older than the cursor: the first request, which has no
\* id, and every request that follows a rel="next".  A poller that finds
\* nothing at first asks the same again.
ListOlder(r) ==
  /\ \/ mode[r] # "catchup" /\ pc[r] = "start"
     \/ pc[r] = "next"
  /\ LET found == OlderThan(UserOf[r], cursor[r])
         page  == Newest(found, PageSize) IN
       /\ mode[r] = "poll" /\ pc[r] = "start" => page # {}
       /\ Send(r, page) /\ FollowNext(r, HasMore(found), page)
       /\ promised' = IF pc[r] = "start" THEN [promised EXCEPT ![r] = found]
                      ELSE promised
  /\ Passes(r)
  /\ UNCHANGED <<table, mode>>

\* The one request of a catch-up that has min_id, an id it knows.
ListNewer(r) ==
  /\ mode[r] = "catchup" /\ pc[r] = "start"
  /\ \E min \in 1..lastId :
       LET found == NewerThan(UserOf[r], min)
           page  == Oldest(found, PageSize) IN
         /\ Send(r, page) /\ FollowNext(r, HasMore(found), page)
         /\ promised' = [promised EXCEPT ![r] = found]
  /\ UNCHANGED <<table, mode, hidden>>

\* A page of what is newer than the newest id the poller has; it does not
\* follow that page's link, which leads back to older rows.
Poll(r) ==
  /\ mode[r] = "poll" /\ Seen(r) # {}
  /\ LET found == NewerThan(UserOf[r], FirstOf(Seen(r)))
         page  == Oldest(found, PageSize) IN
       page # {} /\ Send(r, page)
  /\ UNCHANGED <<table, mode, pc, cursor, promised>>
  /\ Passes(r)

-----------------------------------------------------------------------------
(* Read and unread.                                                        *)

\* The rows an UPDATE by user u may name.
OwnRows(u) == {i \in Stored \ inserting : row[i].user = u}

SetUnread(S, flag) ==
  /\ row' = [i \in Ids |-> IF i \in S THEN [row[i] EXCEPT !.unread = flag]
                           ELSE row[i]]
  /\ UNCHANGED <<lastId, inserting, member, reads>>

\* SetNotificationUnread; a row of another user counts as not found.
SetNotificationUnread(u) ==
  \E i \in Ids, flag \in BOOLEAN : i \in OwnRows(u) /\ SetUnread({i}, flag)

\* SetAllNotificationsUnread: clear and reset.
SetAllNotificationsUnread(u) ==
  \E flag \in BOOLEAN : SetUnread(OwnRows(u), flag)

-----------------------------------------------------------------------------
Next ==
  \/ \E u \in Users, p \in Repos : Notify(u, p) \/ SetMember(u, p)
  \/ \E i \in Ids : Commit(i) \/ Rollback(i)
  \/ \E r \in Readers : ListOlder(r) \/ ListNewer(r) \/ Poll(r)
  \/ \E u \in Users : SetNotificationUnread(u) \/ SetAllNotificationsUnread(u)

Spec == Init /\ [][Next]_vars

-----------------------------------------------------------------------------
(* Properties.                                                             *)

\* Whoever follows rel="next" from the newest page to the end has been sent
\* every notification that was there at the first page and stayed accessible,
\* although new ones arrive, old ones commit and polls come between the pages
\* (store_notification.go:139, pagination.go:57).
WalkComplete ==
  \A r \in Readers :
    mode[r] # "catchup" /\ pc[r] = "done" => promised[r] \subseteq Seen(r)

\* A poller that starts with the newest page and asks for what is newer than
\* the newest id it has gets past a notification without it only if that one
\* was inserted and not yet committed while a later one of another repository
\* was sent: within a repository the lock makes ids visible in their order
\* (store_ticket.go:330-374).  What it has of the skipped row's repository is
\* older than that row, or newer than the one that overtook it.
PassedByOtherRepository ==
  \A r \in Readers : mode[r] = "poll" =>
    \A i \in (Visible(UserOf[r]) \intersect Through(r)) \ (Seen(r) \union hidden[r]) :
      \E k \in Seen(r) :
        /\ i < k /\ row[k].repo # row[i].repo
        /\ \A j \in Seen(r) : row[j].repo = row[i].repo => j < i \/ k < j
=============================================================================

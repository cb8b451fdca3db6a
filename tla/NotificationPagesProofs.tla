------------------------ MODULE NotificationPagesProofs ------------------------
(***************************************************************************)
(* The safety of NotificationPages for any accounts, repositories, readers *)
(* and page size: what the lock of a repository promises about the order   *)
(* of ids, and what each kind of reader has seen by then.                  *)
(***************************************************************************)
EXTENDS NotificationPages, FiniteSetTheorems, TLAPS

-----------------------------------------------------------------------------
(* The inductive invariant.                                                *)

\* Open transactions have a row, and none of a later id has their repository.
Locked ==
  /\ inserting \subseteq Stored
  /\ \A i \in inserting : \A k \in Stored :
       i < k => row[k].repo # row[i].repo

\* What was sent is committed and stays.
SentCommitted == \A r \in Readers : Seen(r) \subseteq Stored \ inserting

\* What a reader is promised it may still see.
PromisesVisible == \A r \in Readers : promised[r] \subseteq Visible(UserOf[r])

\* What the older pages have not shown yet is older than the cursor.
Walked ==
  \A r \in Readers : mode[r] # "catchup" /\ pc[r] # "start" =>
    \A i \in promised[r] :
      i \in Seen(r) \/ (pc[r] = "next" /\ i < cursor[r])

\* A poller that has begun was sent something, and has an id to go on from
\* while there are older pages.
Polled ==
  \A r \in Readers : mode[r] = "poll" =>
    /\ pc[r] = "start" => Seen(r) = {} /\ cursor[r] = 0
    /\ pc[r] # "start" => Seen(r) # {}
    /\ pc[r] = "next" => cursor[r] # 0

\* A row of S overtook row i, and those of i's repository in S are on the
\* other side of one of them.
OvertakenIn(S, i) ==
  \E k \in S :
    /\ i < k /\ row[k].repo # row[i].repo
    /\ \A j \in S : row[j].repo = row[i].repo => j < i \/ k < j

\* PassedByOtherRepository, for rows that nobody can see yet as well.
Passed ==
  \A r \in Readers : mode[r] = "poll" =>
    \A i \in (Stored \intersect Through(r)) \ (Seen(r) \union hidden[r]) :
      OvertakenIn(Seen(r), i)

IInv ==
  /\ TypeOK /\ Locked /\ SentCommitted
  /\ PromisesVisible /\ Walked /\ Polled /\ Passed

-----------------------------------------------------------------------------
(* Ranks: how many elements of a finite set of numbers are greater.        *)

Above(S, i) == {j \in S : j > i}
Rank(S, i)  == Cardinality(Above(S, i))

\* A smaller element has a greater rank.
LEMMA RankFalls ==
  ASSUME NEW S \in SUBSET Nat, IsFiniteSet(S), NEW i \in S, NEW j \in S, i < j
  PROVE  Rank(S, j) < Rank(S, i)
<1>1. /\ Above(S, i) \in SUBSET S /\ j \notin Above(S, j)
      /\ Above(S, j) \union {j} \in SUBSET Above(S, i)
  <2>1. i \in Nat /\ j \in Nat /\ ~(j > j) /\ j > i
    OBVIOUS
  <2>2. \A k \in S : k > j => k > i
    BY <2>1
  <2> QED BY <2>1, <2>2, Zenon DEF Above
<1>2. IsFiniteSet(Above(S, i))
  BY <1>1, FS_Subset
<1>3. /\ IsFiniteSet(Above(S, j))
      /\ Cardinality(Above(S, j) \union {j}) <= Cardinality(Above(S, i))
  <2>1. Above(S, j) \in SUBSET Above(S, i)
    BY <1>1
  <2> QED BY <1>1, <1>2, <2>1, FS_Subset
<1>4. Cardinality(Above(S, j) \union {j}) = Cardinality(Above(S, j)) + 1
  BY <1>1, <1>3, FS_AddElement
<1>5. Cardinality(Above(S, i)) \in Nat /\ Cardinality(Above(S, j)) \in Nat
  BY <1>2, <1>3, FS_CardinalityType
<1> QED BY <1>3, <1>4, <1>5 DEF Rank

\* The ranks are the numbers below the cardinality.
LEMMA Ranks ==
  ASSUME NEW S \in SUBSET Nat, IsFiniteSet(S)
  PROVE  /\ Cardinality(S) \in Nat
         /\ \A i \in S : Rank(S, i) \in Nat /\ Rank(S, i) < Cardinality(S)
         /\ \A k \in Nat : k < Cardinality(S) => \E i \in S : Rank(S, i) = k
<1>1. PICK n \in Nat : n = Cardinality(S)
  BY FS_CardinalityType
<1>2. ASSUME NEW i \in S
      PROVE  Rank(S, i) \in Nat /\ Rank(S, i) < n
  <2>1. Above(S, i) \in SUBSET (S \ {i})
    BY DEF Above
  <2>2. IsFiniteSet(S \ {i}) /\ Cardinality(S \ {i}) = n - 1
    BY <1>1, FS_RemoveElement
  <2>3. IsFiniteSet(Above(S, i)) /\ Cardinality(Above(S, i)) <= n - 1
    BY <2>1, <2>2, FS_Subset
  <2>4. Cardinality(Above(S, i)) \in Nat
    BY <2>3, FS_CardinalityType
  <2> QED BY <2>3, <2>4 DEF Rank
<1>3. PICK f : f = [i \in S |-> Rank(S, i) + 1]
  OBVIOUS
<1>4. f \in [S -> 1..n]
  BY <1>2, <1>3
<1>5. ASSUME NEW i \in S, NEW j \in S, f[i] = f[j]
      PROVE  i = j
  <2>1. Rank(S, i) = Rank(S, j)
    BY <1>2, <1>3, <1>5
  <2>2. i \in Nat /\ j \in Nat /\ Rank(S, i) \in Nat
    BY <1>2
  <2>3. CASE i < j
    <3>1. Rank(S, j) < Rank(S, i)
      BY <2>3, RankFalls
    <3> QED BY <2>1, <2>2, <3>1
  <2>4. CASE j < i
    <3>1. Rank(S, i) < Rank(S, j)
      BY <2>4, RankFalls
    <3> QED BY <2>1, <2>2, <3>1
  <2> QED BY <2>2, <2>3, <2>4
<1>6. f \in Injection(S, 1..n)
  BY <1>4, <1>5 DEF Injection, IsInjective
<1>7. IsFiniteSet(1..n) /\ Cardinality(1..n) = n
  BY FS_Interval
<1>8. f \in Surjection(S, 1..n)
  BY <1>1, <1>6, <1>7, FS_Injection
<1>9. ASSUME NEW k \in Nat, k < n
      PROVE  \E i \in S : Rank(S, i) = k
  <2>1. k + 1 \in 1..n
    BY <1>9
  <2>2. PICK i \in S : f[i] = k + 1
    BY <1>8, <2>1 DEF Surjection
  <2> QED BY <1>2, <1>3, <2>2
<1> QED BY <1>1, <1>2, <1>9

\* A finite set of numbers that is not empty has a greatest and a least one.
LEMMA Extremes ==
  ASSUME NEW S \in SUBSET Nat, IsFiniteSet(S), S # {}
  PROVE  /\ \E i \in S : \A j \in S : i >= j
         /\ \E i \in S : \A j \in S : i <= j
         /\ FirstOf(S) \in S /\ \A j \in S : j <= FirstOf(S)
         /\ LastOf(S) \in S /\ \A j \in S : LastOf(S) <= j
<1>1. PICK n \in Nat : n = Cardinality(S) /\ 0 < n
  <2>1. Cardinality(S) \in Nat /\ Cardinality(S) # 0
    BY FS_CardinalityType, FS_EmptySet
  <2> QED BY <2>1
<1>2. \A i \in S : Rank(S, i) \in Nat /\ Rank(S, i) < n
  BY <1>1, Ranks
<1>3. \A i, j \in S : i < j => Rank(S, j) < Rank(S, i)
  BY RankFalls
<1>4. \E i \in S : \A j \in S : i >= j
  <2>1. PICK i \in S : Rank(S, i) = 0
    BY <1>1, Ranks
  <2>2. ASSUME NEW j \in S PROVE ~(i < j)
    BY <1>2, <1>3, <2>1, <2>2
  <2>3. \A j \in S : i >= j
    BY <2>2
  <2> QED BY <2>3
<1>5. \E i \in S : \A j \in S : i <= j
  <2>1. n - 1 \in Nat /\ n - 1 < n
    BY <1>1
  <2>2. PICK i \in S : Rank(S, i) = n - 1
    BY <1>1, <2>1, Ranks
  <2>3. ASSUME NEW j \in S PROVE ~(j < i)
    BY <1>1, <1>2, <1>3, <2>2, <2>3
  <2>4. \A j \in S : i <= j
    BY <2>3
  <2> QED BY <2>4
<1>6. FirstOf(S) \in S /\ \A j \in S : FirstOf(S) >= j
  BY <1>4 DEF FirstOf
<1>7. LastOf(S) \in S /\ \A j \in S : LastOf(S) <= j
  BY <1>5 DEF LastOf
<1>8. \A j \in S : FirstOf(S) >= j => j <= FirstOf(S)
  BY <1>6
<1> QED BY <1>4, <1>5, <1>6, <1>7, <1>8

-----------------------------------------------------------------------------
(* Pages.                                                                  *)

\* A page sends each of its rows.
LEMMA PageSent ==
  ASSUME NEW S \in SUBSET Nat, IsFiniteSet(S)
  PROVE  /\ NewestFirst(S) \in Seq(S)
         /\ \A i \in S : \E k \in DOMAIN NewestFirst(S) : NewestFirst(S)[k] = i
<1>1. PICK n \in Nat : n = Cardinality(S)
  BY FS_CardinalityType
<1>2. PICK s : s = NewestFirst(S)
  OBVIOUS
<1>3. s = [k \in 1..n |-> CHOOSE i \in S : Rank(S, i) = k - 1]
  BY <1>1, <1>2 DEF NewestFirst, Rank, Above
<1>4. \A i, j \in S : Rank(S, i) = Rank(S, j) => i = j
  <2> SUFFICES ASSUME NEW i \in S, NEW j \in S, Rank(S, i) = Rank(S, j)
               PROVE  i = j
    OBVIOUS
  <2>1. /\ i < j => Rank(S, j) < Rank(S, i)
        /\ j < i => Rank(S, i) < Rank(S, j)
    BY RankFalls
  <2>2. Rank(S, i) \in Nat /\ i \in Nat /\ j \in Nat
    BY Ranks
  <2> QED BY <2>1, <2>2
<1>5. \A k \in 1..n : s[k] \in S /\ Rank(S, s[k]) = k - 1
  <2> SUFFICES ASSUME NEW k \in 1..n
               PROVE  s[k] \in S /\ Rank(S, s[k]) = k - 1
    OBVIOUS
  <2>1. k - 1 \in Nat /\ k - 1 < n
    OBVIOUS
  <2>2. \E i \in S : Rank(S, i) = k - 1
    BY <1>1, <2>1, Ranks
  <2>3. s[k] = CHOOSE i \in S : Rank(S, i) = k - 1
    BY <1>3
  <2> QED BY <2>2, <2>3
<1>6. ASSUME NEW i \in S
      PROVE  \E k \in DOMAIN s : s[k] = i
  <2>1. Rank(S, i) \in Nat /\ Rank(S, i) < n
    BY <1>1, Ranks
  <2>2. Rank(S, i) + 1 \in 1..n /\ (Rank(S, i) + 1) - 1 = Rank(S, i)
    BY <2>1
  <2>3. s[Rank(S, i) + 1] = i
    BY <1>4, <1>5, <2>2
  <2>4. DOMAIN s = 1..n
    BY <1>3
  <2> QED BY <2>2, <2>3, <2>4
<1>7. s \in Seq(S)
  BY <1>3, <1>5
<1> QED BY <1>2, <1>6, <1>7

\* What a page of the newest rows leaves out is older than the page, and if
\* the query for one row more found no more, nothing is left out.
LEMMA NewestPage ==
  ASSUME NEW S \in SUBSET Nat, IsFiniteSet(S)
  PROVE  /\ Newest(S, PageSize) \in SUBSET S
         /\ \A i \in S \ Newest(S, PageSize), j \in Newest(S, PageSize) : i < j
         /\ HasMore(S) => Newest(S, PageSize) # {}
         /\ ~HasMore(S) => Newest(S, PageSize) = S
<1>1. PICK n \in Nat : n = PageSize /\ 0 < n
  BY PageSizeType
<1>2. \A m : Newest(S, m) = {i \in S : Rank(S, i) < m}
  BY DEF Newest, Rank, Above
<1>3. \A i \in S : Rank(S, i) \in Nat
  BY Ranks
<1>4. ASSUME NEW i \in S \ Newest(S, n), NEW j \in Newest(S, n)
      PROVE  i < j
  <2>1. i \in S /\ j \in S /\ Rank(S, j) < n /\ ~(Rank(S, i) < n)
    BY <1>2
  <2>2. j < i => Rank(S, i) < Rank(S, j)
    BY <2>1, RankFalls
  <2> QED BY <1>1, <1>3, <2>1, <2>2
<1>5. S # {} => Newest(S, n) # {}
  <2> SUFFICES ASSUME S # {} PROVE Newest(S, n) # {}
    OBVIOUS
  <2>1. Cardinality(S) \in Nat /\ 0 < Cardinality(S)
    <3>1. Cardinality(S) \in Nat /\ Cardinality(S) # 0
      BY FS_CardinalityType, FS_EmptySet
    <3> QED BY <3>1
  <2>2. PICK i \in S : Rank(S, i) = 0
    BY <2>1, Ranks
  <2> QED BY <1>1, <1>2, <2>2
<1>6. PICK N : N = Newest(S, n + 1)
  OBVIOUS
<1>7. IsFiniteSet(N) /\ Cardinality(N) \in Nat /\ N \in SUBSET S
  <2>1. N \in SUBSET S
    BY <1>2, <1>6
  <2> QED BY <2>1, FS_Subset, FS_CardinalityType
<1>8. HasMore(S) <=> Cardinality(N) > n
  BY <1>1, <1>6 DEF HasMore
<1>9. HasMore(S) => Newest(S, n) # {}
  <2>1. Cardinality({}) = 0
    BY FS_EmptySet
  <2>2. ASSUME HasMore(S) PROVE N # {}
    <3>1. Cardinality(N) > n
      BY <1>8, <2>2
    <3>2. Cardinality(N) # 0
      BY <1>1, <1>7, <3>1
    <3> QED BY <2>1, <3>2
  <2>3. HasMore(S) => S # {}
    BY <1>7, <2>2
  <2> QED BY <1>5, <2>3
<1>10. ASSUME NEW i \in S, ~(Rank(S, i) < n)
       PROVE  Cardinality(N) > n
  <2>1. Cardinality(S) \in Nat /\ n < Cardinality(S)
    <3>1. Rank(S, i) < Cardinality(S) /\ Cardinality(S) \in Nat
      BY Ranks
    <3> QED BY <1>3, <1>10, <3>1
  <2>2. \A k \in 0..n : k \in Nat /\ k < n + 1 /\ k < Cardinality(S)
    BY <2>1
  <2>3. \A k \in 0..n : \E j \in N : Rank(S, j) = k
    <3> SUFFICES ASSUME NEW k \in 0..n PROVE \E j \in N : Rank(S, j) = k
      OBVIOUS
    <3>1. PICK j \in S : Rank(S, j) = k
      BY <2>2, Ranks
    <3>2. j \in N
      BY <1>2, <1>6, <2>2, <3>1
    <3> QED BY <3>1, <3>2
  <2>4. PICK f : f = [j \in N |-> Rank(S, j)]
    OBVIOUS
  <2>5. \A j \in N : Rank(S, j) \in 0..n
    <3> SUFFICES ASSUME NEW j \in N PROVE Rank(S, j) \in 0..n
      OBVIOUS
    <3>1. j \in S /\ Rank(S, j) < n + 1 /\ Rank(S, j) \in Nat
      BY <1>2, <1>3, <1>6
    <3> QED BY <3>1
  <2>6. f \in Surjection(N, 0..n)
    BY <2>3, <2>4, <2>5 DEF Surjection
  <2>7. Cardinality(0..n) <= Cardinality(N)
    BY <1>7, <2>6, FS_Surjection
  <2>8. Cardinality(0..n) = n + 1
    <3>1. Cardinality(0..n) = IF 0 > n THEN 0 ELSE n - 0 + 1
      BY FS_Interval
    <3> QED BY <3>1
  <2> QED BY <1>7, <2>7, <2>8
<1>11. ~HasMore(S) => Newest(S, n) = S
  BY <1>2, <1>8, <1>10
<1>12. Newest(S, n) \in SUBSET S
  BY <1>2
<1> QED BY <1>1, <1>4, <1>9, <1>11, <1>12

\* A page of the oldest rows has every row that is older than one it has.
LEMMA OldestPage ==
  ASSUME NEW S \in SUBSET Nat, IsFiniteSet(S)
  PROVE  /\ Oldest(S, PageSize) \in SUBSET S
         /\ \A i \in S, j \in Oldest(S, PageSize) :
              i < j => i \in Oldest(S, PageSize)
         /\ S # {} => Oldest(S, PageSize) # {}
<1>1. ASSUME NEW i \in S, NEW j \in Oldest(S, PageSize), i < j
      PROVE  i \in Oldest(S, PageSize)
  <2>1. PICK A, B : A = {k \in S : k < i} /\ B = {k \in S : k < j}
    OBVIOUS
  <2>2. A \in SUBSET B /\ B \in SUBSET S
    <3>1. j \in S /\ i \in Nat /\ j \in Nat
      BY DEF Oldest
    <3>2. \A k \in S : k < i => k < j
      BY <1>1, <3>1
    <3> QED BY <2>1, <3>2, Zenon
  <2>3. IsFiniteSet(A) /\ IsFiniteSet(B) /\ Cardinality(A) <= Cardinality(B)
    BY <2>2, FS_Subset
  <2>4. Cardinality(A) \in Nat /\ Cardinality(B) \in Nat
    BY <2>3, FS_CardinalityType
  <2>5. Cardinality(B) < PageSize
    BY <2>1 DEF Oldest
  <2>6. Cardinality(A) < PageSize
    BY <2>3, <2>4, <2>5, PageSizeType
  <2> QED BY <2>1, <2>6 DEF Oldest
<1>2. ASSUME S # {}
      PROVE  Oldest(S, PageSize) # {}
  <2>1. PICK i \in S : \A j \in S : i <= j
    BY <1>2, Extremes
  <2>2. \A j \in S : ~(j < i)
    BY <2>1
  <2>3. {j \in S : j < i} = {}
    BY <2>2, Zenon
  <2>4. Cardinality({j \in S : j < i}) < PageSize
    BY <2>3, FS_EmptySet, PageSizeType
  <2> QED BY <2>4 DEF Oldest
<1>3. Oldest(S, PageSize) \in SUBSET S
  BY DEF Oldest
<1> QED BY <1>1, <1>2, <1>3

\* Sending a page adds its rows to what its reader has seen.
LEMMA PageSeen ==
  ASSUME TypeOK, NEW r \in Readers, NEW S \in SUBSET Stored, Send(r, S)
  PROVE  /\ shown' \in [Readers -> Seq(Ids)]
         /\ Seen(r)' = Seen(r) \union S
         /\ \A q \in Readers \ {r} : Seen(q)' = Seen(q)
<1>1. S \in SUBSET Ids /\ S \in SUBSET Nat /\ IsFiniteSet(S)
  <2>1. lastId \in Nat /\ S \in SUBSET (1..lastId) /\ 1..lastId \subseteq Ids
    <3>1. lastId \in Nat /\ 1..lastId \subseteq Ids
      BY MaxIdType DEF TypeOK, Ids
    <3>2. S \in SUBSET (1..lastId)
      BY Zenon DEF Stored
    <3> QED BY <3>1, <3>2
  <2>2. IsFiniteSet(1..lastId)
    BY <2>1, FS_Interval
  <2>3. IsFiniteSet(S)
    BY <2>1, <2>2, FS_Subset
  <2> QED BY <2>1, <2>3
<1>2. PICK t : t = NewestFirst(S)
  OBVIOUS
<1>3. t \in Seq(S) /\ \A i \in S : \E k \in DOMAIN t : t[k] = i
  BY <1>1, <1>2, PageSent
<1>4. PICK s \in Seq(Ids) : s = shown[r]
  BY DEF TypeOK
<1>5. shown' = [shown EXCEPT ![r] = s \o t]
  BY <1>2, <1>4 DEF Send
<1>6. t \in Seq(Ids) /\ s \o t \in Seq(Ids)
  <2>1. Len(t) \in Nat /\ t \in [1..Len(t) -> S]
    BY <1>3
  <2>2. t \in [1..Len(t) -> Ids]
    BY <1>1, <2>1
  <2>3. t \in Seq(Ids)
    BY <2>1, <2>2
  <2> QED BY <2>3
<1>7. /\ DOMAIN s = 1..Len(s) /\ DOMAIN t = 1..Len(t)
      /\ DOMAIN (s \o t) = 1..Len(s) + Len(t)
      /\ Len(s) \in Nat /\ Len(t) \in Nat
      /\ \A k \in 1..Len(s) : (s \o t)[k] = s[k]
      /\ \A k \in 1..Len(t) : (s \o t)[Len(s) + k] = t[k]
  BY <1>6
<1>8. \A k \in DOMAIN (s \o t) :
        k \in DOMAIN s \/ \E j \in DOMAIN t : k = Len(s) + j
  <2> SUFFICES ASSUME NEW k \in 1..Len(s) + Len(t), ~(k \in 1..Len(s))
               PROVE  \E j \in 1..Len(t) : k = Len(s) + j
    BY <1>7
  <2>1. k - Len(s) \in 1..Len(t) /\ k = Len(s) + (k - Len(s))
    BY <1>7
  <2> QED BY <2>1
<1>9. /\ \A k \in DOMAIN s : k \in DOMAIN (s \o t)
      /\ \A k \in DOMAIN t : Len(s) + k \in DOMAIN (s \o t)
  BY <1>7
<1>10. \A k \in DOMAIN t : t[k] \in S
  BY <1>3
<1>11. {(s \o t)[k] : k \in DOMAIN (s \o t)} = {s[k] : k \in DOMAIN s} \union S
  <2>1. ASSUME NEW k \in DOMAIN (s \o t)
        PROVE  (s \o t)[k] \in {s[m] : m \in DOMAIN s} \union S
    BY <1>7, <1>8, <1>10
  <2>2. ASSUME NEW k \in DOMAIN s
        PROVE  s[k] \in {(s \o t)[m] : m \in DOMAIN (s \o t)}
    BY <1>7, <1>9
  <2>3. ASSUME NEW i \in S
        PROVE  i \in {(s \o t)[m] : m \in DOMAIN (s \o t)}
    BY <1>3, <1>7, <1>9
  <2> QED BY <2>1, <2>2, <2>3
<1>12. shown \in [Readers -> Seq(Ids)]
  BY DEF TypeOK
<1>13. shown' \in [Readers -> Seq(Ids)] /\ shown'[r] = s \o t
       /\ \A q \in Readers \ {r} : shown'[q] = shown[q]
  BY <1>5, <1>6, <1>12
<1>14. PICK u : u = s \o t
  OBVIOUS
<1>15. Seen(r)' = {u[k] : k \in DOMAIN u} /\ Seen(r) = {s[k] : k \in DOMAIN s}
  BY <1>4, <1>13, <1>14, Zenon DEF Seen
<1>16. Seen(r)' = Seen(r) \union S
  BY <1>11, <1>14, <1>15, Zenon
<1>17. \A q \in Readers \ {r} : Seen(q)' = Seen(q)
  BY <1>13, Zenon DEF Seen
<1> QED BY <1>13, <1>16, <1>17

-----------------------------------------------------------------------------
(* The table.                                                              *)

Recs == [user : Users, repo : Repos, unread : BOOLEAN]

\* Marking a row as read or unread leaves its user and repository alone.
LEMMA MarkedRow ==
  \A s \in Recs, flag \in BOOLEAN :
    LET t == [s EXCEPT !.unread = flag] IN
    t \in Recs /\ t.user = s.user /\ t.repo = s.repo
BY DEF Recs

LEMMA NotNoRow == \A s \in Recs : s # NoRow
BY DEF Recs, NoRow

\* The table, in the words the proofs need.
LEMMA TableType ==
  ASSUME TypeOK
  PROVE  /\ lastId \in Nat /\ lastId <= MaxId /\ 1..lastId \subseteq Ids
         /\ Ids \subseteq Nat
         /\ row \in [Ids -> Recs \union {NoRow}]
         /\ Stored \subseteq 1..lastId /\ Stored \subseteq Ids
         /\ \A i \in Stored : row[i] \in Recs
<1>1. lastId \in Nat /\ lastId <= MaxId /\ 1..lastId \subseteq Ids
  BY MaxIdType DEF TypeOK, Ids
<1>2. row \in [Ids -> Recs \union {NoRow}]
  BY DEF TypeOK, Recs
<1>3. Ids \subseteq Nat
  BY MaxIdType DEF Ids
<1>4. Stored \subseteq 1..lastId
  BY Zenon DEF Stored
<1>5. \A i \in Stored : row[i] \in Recs
  <2>1. \A i \in Stored : row[i] # NoRow
    BY Zenon DEF Stored
  <2> QED BY <1>1, <1>2, <1>4, <2>1
<1> QED BY <1>1, <1>2, <1>3, <1>4, <1>5

\* The rows a user may see are finitely many numbers.
LEMMA VisibleFinite ==
  ASSUME TypeOK, NEW S \in SUBSET Stored
  PROVE  S \in SUBSET Nat /\ IsFiniteSet(S)
<1>1. lastId \in Nat /\ S \in SUBSET (1..lastId)
  BY TableType
<1>2. IsFiniteSet(1..lastId)
  BY <1>1, FS_Interval
<1>3. IsFiniteSet(S)
  BY <1>1, <1>2, FS_Subset
<1>4. S \in SUBSET Nat
  BY <1>1
<1> QED BY <1>3, <1>4

\* A committed row stays, with its user and repository, and a row that was
\* not there has the next id.
RowsKept ==
  /\ \A i \in Stored \ inserting :
       i \in Stored' \ inserting' /\ row'[i].user = row[i].user
         /\ row'[i].repo = row[i].repo
  /\ \A i \in Stored' :
       \/ i \in Stored /\ row'[i].repo = row[i].repo
       \/ i = lastId + 1

TableTyped ==
  /\ row \in [Ids -> Recs \union {NoRow}]
  /\ lastId \in 0..MaxId /\ inserting \subseteq 1..lastId

LEMMA NotifyTable ==
  ASSUME TypeOK, Locked, NEW u \in Users, NEW p \in Repos, Notify(u, p)
  PROVE  TableTyped' /\ Locked' /\ RowsKept
<1>1. PICK n : n = lastId + 1
  OBVIOUS
<1>2. PICK e : e = [user |-> u, repo |-> p, unread |-> TRUE]
  OBVIOUS
<1>3. e \in Recs /\ e # NoRow /\ e.repo = p
  <2>1. e \in Recs
    BY <1>2 DEF Recs
  <2> QED BY <1>2, <2>1, NotNoRow
<1>4. /\ lastId' = n /\ row' = [row EXCEPT ![n] = e]
      /\ inserting' = inserting \union {n} /\ lastId < MaxId
      /\ \A i \in inserting : row[i].repo # p
  BY <1>1, <1>2 DEF Notify, RepositoryFree
<1>5. /\ lastId \in Nat /\ n \in Ids /\ n \in 1..n /\ n \in 0..MaxId
      /\ \A i \in 1..lastId : i \in 1..n /\ i < n /\ i \in Ids
      /\ \A i \in 1..n : i \in 1..lastId \/ i = n
  BY <1>1, <1>4, MaxIdType, TableType DEF Ids
<1>6. row \in [Ids -> Recs \union {NoRow}]
  BY TableType
<1>7. TableTyped'
  <2>1. row' \in [Ids -> Recs \union {NoRow}]
    BY <1>3, <1>4, <1>5, <1>6
  <2>2. inserting' \subseteq 1..n
    BY <1>4, <1>5 DEF TypeOK
  <2> QED BY <1>4, <1>5, <2>1, <2>2 DEF TableTyped, Ids
<1>8. row'[n] = e /\ \A i \in Ids : i # n => row'[i] = row[i]
  BY <1>4, <1>5, <1>6
<1>9. Stored \subseteq 1..lastId
  BY Zenon DEF Stored
<1>10. \A i \in Stored : i \in Ids /\ i < n /\ i # n
  BY <1>5, <1>9
<1>11. \A i \in Stored' : (i \in Stored /\ row'[i] = row[i]) \/ i = n
  <2>1. \A i \in Stored' : i \in 1..n /\ row'[i] # NoRow
    BY <1>4, Zenon DEF Stored
  <2>2. \A i \in 1..lastId : i # n /\ i \in Ids
    BY <1>5
  <2>3. \A i \in 1..lastId : row[i] # NoRow => i \in Stored
    BY Zenon DEF Stored
  <2> QED BY <1>5, <1>8, <2>1, <2>2, <2>3
<1>12. \A i \in Stored : i \in Stored' /\ row'[i] = row[i]
  <2>1. \A i \in Stored : i \in 1..n /\ row[i] # NoRow /\ row'[i] = row[i]
    BY <1>5, <1>8, <1>9, <1>10 DEF Stored
  <2> QED BY <1>4, <2>1 DEF Stored
<1>13. n \in Stored'
  BY <1>3, <1>4, <1>5, <1>8 DEF Stored
<1>14. Locked'
  <2>1. inserting' \subseteq Stored'
    BY <1>4, <1>12, <1>13 DEF Locked
  <2>2. ASSUME NEW i \in inserting', NEW k \in Stored', i < k
        PROVE  row'[k].repo # row'[i].repo
    <3>1. CASE k = n
      <4>1. i # n
        BY <1>5, <2>2, <3>1
      <4>2. i \in inserting /\ row'[i] = row[i]
        BY <1>4, <1>12, <2>2, <4>1 DEF Locked
      <4> QED BY <1>3, <1>4, <1>8, <3>1, <4>2
    <3>2. CASE k # n
      <4>1. k \in Stored /\ row'[k] = row[k]
        BY <1>11, <3>2
      <4>2. i # n
        <5>1. k < n /\ k \in Nat /\ n \in Nat
          BY <1>5, <1>10, <4>1, TableType
        <5> QED BY <2>2, <5>1
      <4>3. i \in inserting /\ row'[i] = row[i]
        BY <1>4, <1>12, <2>2, <4>2 DEF Locked
      <4> QED BY <2>2, <4>1, <4>3 DEF Locked
    <3> QED BY <3>1, <3>2
  <2> QED BY <2>1, <2>2 DEF Locked
<1>15. RowsKept
  <2>1. \A i \in Stored \ inserting : i \notin inserting'
    BY <1>4, <1>10
  <2> QED BY <1>1, <1>11, <1>12, <2>1 DEF RowsKept
<1> QED BY <1>7, <1>14, <1>15

LEMMA EndTable ==
  ASSUME TypeOK, Locked, NEW i \in Ids, Commit(i) \/ Rollback(i)
  PROVE  TableTyped' /\ Locked' /\ RowsKept
<1>1. /\ i \in inserting /\ inserting' = inserting \ {i} /\ lastId' = lastId
      /\ row' = row \/ row' = [row EXCEPT ![i] = NoRow]
  BY DEF Commit, Rollback
<1>2. row \in [Ids -> Recs \union {NoRow}] /\ Stored \subseteq Ids
  BY TableType
<1>3. row' \in [Ids -> Recs \union {NoRow}]
  BY <1>1, <1>2
<1>4. TableTyped'
  BY <1>1, <1>3 DEF TableTyped, TypeOK
<1>5. \A k \in Ids : k # i => row'[k] = row[k]
  BY <1>1, <1>2
<1>6. \A k \in Stored : k # i => k \in Stored' /\ row'[k] = row[k]
  <2>1. \A k \in Stored : k \in 1..lastId /\ row[k] # NoRow
    BY Zenon DEF Stored
  <2>2. \A k \in Stored : k # i => k \in 1..lastId' /\ row'[k] # NoRow
    BY <1>1, <1>2, <1>5, <2>1
  <2>3. \A k \in 1..lastId' : row'[k] # NoRow => k \in Stored'
    BY Zenon DEF Stored
  <2> QED BY <1>2, <1>5, <2>2, <2>3
<1>7. \A k \in Stored' : k \in Stored /\ row'[k] = row[k]
  <2>1. \A k \in Stored' : k \in 1..lastId /\ row'[k] # NoRow
    BY <1>1, Zenon DEF Stored
  <2>2. \A k \in 1..lastId : k \in Ids
    BY TableType
  <2>3. row' = row \/ row'[i] = NoRow
    BY <1>1, <1>2
  <2>4. \A k \in Stored' : row'[k] = row[k]
    BY <1>5, <2>1, <2>2, <2>3
  <2>5. \A k \in 1..lastId : row[k] # NoRow => k \in Stored
    BY Zenon DEF Stored
  <2> QED BY <2>1, <2>4, <2>5
<1>8. Locked'
  BY <1>1, <1>6, <1>7 DEF Locked
<1>9. RowsKept
  BY <1>1, <1>6, <1>7 DEF RowsKept
<1> QED BY <1>4, <1>8, <1>9

LEMMA MarkTable ==
  ASSUME TypeOK, Locked, NEW S \in SUBSET (Stored \ inserting),
         NEW flag \in BOOLEAN, SetUnread(S, flag)
  PROVE  TableTyped' /\ Locked' /\ RowsKept
<1>1. /\ UNCHANGED <<lastId, inserting>>
      /\ row' = [k \in Ids |-> IF k \in S THEN [row[k] EXCEPT !.unread = flag]
                               ELSE row[k]]
  BY DEF SetUnread
<1>2. /\ row \in [Ids -> Recs \union {NoRow}] /\ Stored \subseteq Ids
      /\ \A k \in Stored : row[k] \in Recs
  BY TableType
<1>3. \A k \in S : /\ k \in Stored /\ k \in Ids
                   /\ row'[k] = [row[k] EXCEPT !.unread = flag]
  BY <1>1, <1>2
<1>4. \A k \in S : /\ row'[k] \in Recs /\ row'[k] # NoRow
                   /\ row'[k].user = row[k].user /\ row'[k].repo = row[k].repo
  <2> SUFFICES ASSUME NEW k \in S
               PROVE  /\ row'[k] \in Recs /\ row'[k] # NoRow
                      /\ row'[k].user = row[k].user /\ row'[k].repo = row[k].repo
    OBVIOUS
  <2>1. PICK t, v : t = row[k] /\ v = row'[k]
    OBVIOUS
  <2>2. t \in Recs /\ v = [t EXCEPT !.unread = flag]
    BY <1>2, <1>3, <2>1
  <2>3. v \in Recs /\ v.user = t.user /\ v.repo = t.repo
    BY <2>2, MarkedRow, Zenon
  <2>4. v # NoRow
    BY <2>3, NotNoRow
  <2> QED BY <2>1, <2>3, <2>4
<1>5. \A k \in Ids : k \notin S => row'[k] = row[k]
  BY <1>1
<1>6. row' \in [Ids -> Recs \union {NoRow}]
  <2>1. \A k \in Ids : row'[k] \in Recs \union {NoRow}
    BY <1>2, <1>4, <1>5
  <2> QED BY <1>1, <2>1
<1>7. TableTyped'
  BY <1>1, <1>6 DEF TableTyped, TypeOK
<1>8. Stored' = Stored
  <2>1. \A k \in 1..lastId : k \in Ids
    BY TableType
  <2>2. \A k \in 1..lastId : row'[k] # NoRow <=> row[k] # NoRow
    BY <1>3, <1>4, <1>5, <2>1, Zenon DEF Stored
  <2> QED BY <1>1, <2>2 DEF Stored
<1>9. \A k \in Stored : row'[k].user = row[k].user /\ row'[k].repo = row[k].repo
  BY <1>2, <1>4, <1>5
<1>10. Locked'
  BY <1>1, <1>8, <1>9 DEF Locked
<1>11. RowsKept
  BY <1>1, <1>8, <1>9 DEF RowsKept
<1> QED BY <1>7, <1>10, <1>11

LEMMA TableStep ==
  ASSUME TypeOK, Locked, Next
  PROVE  TableTyped' /\ Locked' /\ RowsKept
<1>1. ASSUME NEW u \in Users, NEW p \in Repos, Notify(u, p)
      PROVE  TableTyped' /\ Locked' /\ RowsKept
  BY <1>1, NotifyTable
<1>2. ASSUME NEW i \in Ids, Commit(i) \/ Rollback(i)
      PROVE  TableTyped' /\ Locked' /\ RowsKept
  BY <1>2, EndTable
<1>3. ASSUME NEW u \in Users,
             SetNotificationUnread(u) \/ SetAllNotificationsUnread(u)
      PROVE  TableTyped' /\ Locked' /\ RowsKept
  <2>1. OwnRows(u) \in SUBSET (Stored \ inserting)
    BY DEF OwnRows
  <2>2. PICK S \in SUBSET (Stored \ inserting), flag \in BOOLEAN : SetUnread(S, flag)
    BY <1>3, <2>1 DEF SetNotificationUnread, SetAllNotificationsUnread
  <2> QED BY <2>2, MarkTable
<1>4. CASE UNCHANGED <<row, lastId, inserting>>
  <2>1. Stored' = Stored
    BY <1>4 DEF Stored
  <2>2. TableTyped'
    BY <1>4, TableType DEF TableTyped, TypeOK
  <2> QED BY <1>4, <2>1, <2>2 DEF Locked, RowsKept
<1>5. ASSUME NEW u \in Users, NEW p \in Repos, SetMember(u, p)
      PROVE  UNCHANGED <<row, lastId, inserting>>
  BY <1>5 DEF SetMember
<1>6. ASSUME NEW r \in Readers, ListOlder(r) \/ ListNewer(r) \/ Poll(r)
      PROVE  UNCHANGED <<row, lastId, inserting>>
  BY <1>6 DEF ListOlder, ListNewer, Poll, table
<1> QED BY <1>1, <1>2, <1>3, <1>4, <1>5, <1>6 DEF Next

-----------------------------------------------------------------------------
(* The readers.                                                            *)

\* A reader that lists or polls is sent a page of rows it may see.
LEMMA PagesVisible ==
  ASSUME TypeOK, NEW r \in Readers
  PROVE  /\ Visible(UserOf[r]) \subseteq Stored \ inserting
         /\ \A max : LET found == OlderThan(UserOf[r], max) IN
              /\ found \in SUBSET Visible(UserOf[r])
              /\ Newest(found, PageSize) \in SUBSET found
         /\ \A min : LET found == NewerThan(UserOf[r], min) IN
              /\ found \in SUBSET Visible(UserOf[r])
              /\ Oldest(found, PageSize) \in SUBSET found
  BY DEF Visible, VisibleUnder, OlderThan, NewerThan, Newest, Oldest

\* What a listing step does to its reader.
LEMMA ReaderStep ==
  ASSUME TypeOK, NEW r \in Readers, ListOlder(r) \/ ListNewer(r) \/ Poll(r)
  PROVE  \E S \in SUBSET Visible(UserOf[r]) : Send(r, S)
<1>1. CASE ListOlder(r)
  BY <1>1, PagesVisible DEF ListOlder
<1>2. CASE ListNewer(r)
  BY <1>2, PagesVisible DEF ListNewer
<1>3. CASE Poll(r)
  BY <1>3, PagesVisible DEF Poll
<1> QED BY <1>1, <1>2, <1>3

\* Either nothing changes for the readers, or members change, or one reader
\* is sent a page and the table stays.
LEMMA StepKinds ==
  ASSUME Next
  PROVE  \/ UNCHANGED <<reads, member>>
         \/ \E u \in Users, p \in Repos : SetMember(u, p)
         \/ \E r \in Readers : ListOlder(r) \/ ListNewer(r) \/ Poll(r)
  BY DEF Next, Notify, Commit, Rollback, SetNotificationUnread,
         SetAllNotificationsUnread, SetUnread

\* What a reader has seen only grows, by rows it may see.
LEMMA SeenStep ==
  ASSUME TypeOK, Next
  PROVE  /\ shown' \in [Readers -> Seq(Ids)]
         /\ \A r \in Readers : /\ Seen(r) \subseteq Seen(r)'
                               /\ Seen(r)' \subseteq Seen(r) \union Visible(UserOf[r])
<1>1. CASE shown' = shown
  BY <1>1 DEF Seen, TypeOK
<1>2. ASSUME NEW r \in Readers, ListOlder(r) \/ ListNewer(r) \/ Poll(r)
      PROVE  /\ shown' \in [Readers -> Seq(Ids)]
             /\ \A q \in Readers :
                  /\ Seen(q) \subseteq Seen(q)'
                  /\ Seen(q)' \subseteq Seen(q) \union Visible(UserOf[q])
  <2>1. PICK S \in SUBSET Visible(UserOf[r]) : Send(r, S)
    BY <1>2, ReaderStep
  <2>2. S \in SUBSET Stored
    BY PagesVisible
  <2>3. /\ shown' \in [Readers -> Seq(Ids)]
        /\ Seen(r)' = Seen(r) \union S
        /\ \A q \in Readers \ {r} : Seen(q)' = Seen(q)
    BY <2>1, <2>2, PageSeen
  <2> QED BY <2>1, <2>3
<1> QED BY <1>1, <1>2, StepKinds DEF reads, SetMember

LEMMA SentStep ==
  ASSUME TypeOK, SentCommitted, RowsKept, Next
  PROVE  SentCommitted'
<1>1. \A r \in Readers : Seen(r)' \subseteq Stored \ inserting
  BY SeenStep, PagesVisible DEF SentCommitted
<1> QED BY <1>1 DEF SentCommitted, RowsKept

\* Rows a user may see stay so unless the members change.
LEMMA VisibleKept ==
  ASSUME RowsKept, UNCHANGED member, NEW u
  PROVE  Visible(u) \subseteq Visible(u)'
  BY DEF RowsKept, Visible, VisibleUnder

LEMMA PromisesStep ==
  ASSUME TypeOK, PromisesVisible, RowsKept, Next
  PROVE  PromisesVisible' /\ promised' \in [Readers -> SUBSET Ids]
<1>1. ASSUME NEW u \in Users, NEW p \in Repos, SetMember(u, p)
      PROVE  PromisesVisible' /\ promised' \in [Readers -> SUBSET Ids]
  <2>1. /\ UNCHANGED <<row, lastId, inserting>>
        /\ promised' = [r \in Readers |-> promised[r] \intersect
                          VisibleUnder(member', UserOf[r])]
    BY <1>1 DEF SetMember
  <2>2. \A v : Visible(v)' = VisibleUnder(member', v)
    BY <2>1 DEF Visible, VisibleUnder, Stored
  <2> QED BY <2>1, <2>2 DEF PromisesVisible, TypeOK
<1>2. ASSUME UNCHANGED <<promised, member>>
      PROVE  PromisesVisible' /\ promised' \in [Readers -> SUBSET Ids]
  <2>1. promised' \in [Readers -> SUBSET Ids]
    BY <1>2 DEF TypeOK
  <2>2. \A r \in Readers : promised'[r] \subseteq Visible(UserOf[r])'
    BY <1>2, VisibleKept DEF PromisesVisible
  <2> QED BY <2>1, <2>2 DEF PromisesVisible
<1>3. ASSUME NEW r \in Readers, NEW S \in SUBSET Visible(UserOf[r]),
             promised' = [promised EXCEPT ![r] = S], UNCHANGED member
      PROVE  PromisesVisible' /\ promised' \in [Readers -> SUBSET Ids]
  <2>1. S \in SUBSET Ids
    BY PagesVisible, TableType
  <2>2. promised \in [Readers -> SUBSET Ids]
    BY DEF TypeOK
  <2>3. \A q \in Readers : promised'[q] \subseteq Visible(UserOf[q])
    BY <1>3, <2>2 DEF PromisesVisible
  <2>4. \A q \in Readers : promised'[q] \subseteq Visible(UserOf[q])'
    BY <1>3, <2>3, VisibleKept
  <2>5. promised' \in [Readers -> SUBSET Ids]
    BY <1>3, <2>1, <2>2
  <2> QED BY <2>4, <2>5 DEF PromisesVisible
<1>4. ASSUME NEW r \in Readers, ListOlder(r) \/ ListNewer(r) \/ Poll(r)
      PROVE  PromisesVisible' /\ promised' \in [Readers -> SUBSET Ids]
  <2>1. CASE ListOlder(r)
    <3>1. UNCHANGED member /\
          \/ UNCHANGED promised
          \/ promised' = [promised EXCEPT ![r] = OlderThan(UserOf[r], cursor[r])]
      BY <2>1 DEF ListOlder, table
    <3> QED BY <1>2, <1>3, <3>1, PagesVisible
  <2>2. CASE ListNewer(r)
    <3>1. UNCHANGED member /\ \E min :
            promised' = [promised EXCEPT ![r] = NewerThan(UserOf[r], min)]
      BY <2>2 DEF ListNewer, table
    <3> QED BY <1>3, <3>1, PagesVisible
  <2>3. CASE Poll(r)
    BY <1>2, <2>3 DEF Poll, table
  <2> QED BY <1>4, <2>1, <2>2, <2>3
<1> QED BY <1>1, <1>2, <1>4, StepKinds DEF reads, ghost

\* The pages a reader is sent are sets of numbers that have extremes.
LEMMA PageCursors ==
  ASSUME TypeOK, NEW S \in SUBSET Stored
  PROVE  /\ S # {} => FirstOf(S) \in S /\ \A j \in S : j <= FirstOf(S)
         /\ S # {} => LastOf(S) \in S /\ \A j \in S : LastOf(S) <= j
         /\ HasMore(S) => /\ Newest(S, PageSize) # {}
                          /\ Oldest(S, PageSize) # {}
<1>1. S \in SUBSET Nat /\ IsFiniteSet(S)
  BY VisibleFinite
<1>2. HasMore(S) => Newest(S, PageSize) # {} /\ Newest(S, PageSize) \in SUBSET S
  BY <1>1, NewestPage
<1>3. S # {} => Oldest(S, PageSize) # {}
  BY <1>1, OldestPage
<1>4. S # {} => /\ FirstOf(S) \in S /\ \A j \in S : j <= FirstOf(S)
                /\ LastOf(S) \in S /\ \A j \in S : LastOf(S) <= j
  BY <1>1, Extremes
<1> QED BY <1>2, <1>3, <1>4

\* What a poller gets past without access is kept for it alone.
LEMMA PassesType ==
  ASSUME TypeOK, NEW r \in Readers, Passes(r)
  PROVE  /\ hidden' \in [Readers -> SUBSET Ids]
         /\ \A q \in Readers \ {r} : hidden'[q] = hidden[q]
         /\ mode[r] = "poll" => hidden'[r] = hidden[r] \union
              {i \in Stored \ (inserting \union Visible(UserOf[r])) :
                 i \in Through(r)' \ Through(r)}
<1>1. PICK H : H = {i \in Stored \ (inserting \union Visible(UserOf[r])) :
                      i \in Through(r)' \ Through(r)}
  OBVIOUS
<1>2. H \in SUBSET Ids
  BY <1>1, TableType
<1>3. hidden \in [Readers -> SUBSET Ids]
  BY DEF TypeOK
<1>4. hidden' = IF mode[r] # "poll" THEN hidden
                ELSE [hidden EXCEPT ![r] = @ \union H]
  BY <1>1 DEF Passes
<1> QED BY <1>1, <1>2, <1>3, <1>4

LEMMA ReaderType ==
  ASSUME TypeOK, NEW r \in Readers, ListOlder(r) \/ ListNewer(r) \/ Poll(r)
  PROVE  /\ pc' \in [Readers -> {"start", "next", "done"}]
         /\ cursor' \in [Readers -> 0..MaxId]
         /\ hidden' \in [Readers -> SUBSET Ids]
         /\ UNCHANGED <<mode, member>>
<1>1. \A S \in SUBSET Visible(UserOf[r]) : S \in SUBSET Stored
  BY PagesVisible
<1>2. /\ \A i \in Stored : i \in Ids /\ i \in 0..MaxId
      /\ pc \in [Readers -> {"start", "next", "done"}]
      /\ cursor \in [Readers -> 0..MaxId]
      /\ hidden \in [Readers -> SUBSET Ids]
  BY TableType, MaxIdType DEF TypeOK, Ids
<1>3. ASSUME NEW more \in BOOLEAN, NEW page \in SUBSET Stored,
             more => page # {}, FollowNext(r, more, page)
      PROVE  /\ pc' \in [Readers -> {"start", "next", "done"}]
             /\ cursor' \in [Readers -> 0..MaxId]
  <2>1. more => LastOf(page) \in 0..MaxId
    BY <1>2, <1>3, PageCursors
  <2> QED BY <1>2, <1>3, <2>1 DEF FollowNext
<1>4. CASE ListOlder(r)
  <2>1. PICK S, page : /\ S = OlderThan(UserOf[r], cursor[r])
                       /\ page = Newest(S, PageSize)
    OBVIOUS
  <2>2. S \in SUBSET Stored /\ page \in SUBSET Stored
    BY <1>1, <2>1, PagesVisible
  <2>3. HasMore(S) => page # {}
    BY <2>1, <2>2, PageCursors
  <2>4. FollowNext(r, HasMore(S), page) /\ UNCHANGED <<mode, member>>
        /\ hidden' \in [Readers -> SUBSET Ids]
    BY <1>4, <2>1, PassesType DEF ListOlder, table
  <2>5. HasMore(S) \in BOOLEAN
    BY DEF HasMore
  <2> QED BY <1>2, <1>3, <2>2, <2>3, <2>4, <2>5
<1>5. CASE ListNewer(r)
  <2>1. PICK min \in 1..lastId :
          /\ FollowNext(r, HasMore(NewerThan(UserOf[r], min)),
                        Oldest(NewerThan(UserOf[r], min), PageSize))
          /\ UNCHANGED <<mode, member, hidden>>
    BY <1>5 DEF ListNewer, table
  <2>2. PICK S, page : /\ S = NewerThan(UserOf[r], min)
                       /\ page = Oldest(S, PageSize)
    OBVIOUS
  <2>3. S \in SUBSET Stored /\ page \in SUBSET Stored
    BY <1>1, <2>2, PagesVisible
  <2>4. HasMore(S) => page # {}
    BY <2>2, <2>3, PageCursors
  <2>5. HasMore(S) \in BOOLEAN
    BY DEF HasMore
  <2> QED BY <1>2, <1>3, <2>1, <2>2, <2>3, <2>4, <2>5
<1>6. CASE Poll(r)
  BY <1>2, <1>6, PassesType DEF Poll, table
<1> QED BY <1>4, <1>5, <1>6

LEMMA TypeStep ==
  ASSUME TypeOK, Locked, PromisesVisible, Next
  PROVE  TypeOK'
<1>1. TableTyped' /\ shown' \in [Readers -> Seq(Ids)]
      /\ promised' \in [Readers -> SUBSET Ids]
  BY TableStep, SeenStep, PromisesStep
<1>2. /\ pc' \in [Readers -> {"start", "next", "done"}]
      /\ cursor' \in [Readers -> 0..MaxId]
      /\ hidden' \in [Readers -> SUBSET Ids]
      /\ mode' = mode /\ member' \subseteq Users \X Repos
  <2>1. CASE UNCHANGED <<reads, member>>
    BY <2>1 DEF reads, ghost, TypeOK
  <2>2. ASSUME NEW u \in Users, NEW p \in Repos, SetMember(u, p)
        PROVE  /\ UNCHANGED <<pc, cursor, hidden, mode>>
               /\ member' \subseteq Users \X Repos
    BY <2>2 DEF SetMember, TypeOK
  <2>3. ASSUME NEW r \in Readers, ListOlder(r) \/ ListNewer(r) \/ Poll(r)
        PROVE  /\ pc' \in [Readers -> {"start", "next", "done"}]
               /\ cursor' \in [Readers -> 0..MaxId]
               /\ hidden' \in [Readers -> SUBSET Ids]
               /\ UNCHANGED <<mode, member>>
    BY <2>3, ReaderType
  <2> QED BY <2>1, <2>2, <2>3, StepKinds DEF TypeOK
<1> QED BY <1>1, <1>2 DEF TypeOK, TableTyped, Recs

\* A reader that does not take the step keeps its place.
Idle(q) ==
  /\ pc'[q] = pc[q] /\ cursor'[q] = cursor[q] /\ mode'[q] = mode[q]
  /\ Seen(q)' = Seen(q) /\ hidden'[q] = hidden[q]
  /\ promised'[q] \subseteq promised[q]

LEMMA OthersIdle ==
  ASSUME TypeOK, NEW r \in Readers, ListOlder(r) \/ ListNewer(r) \/ Poll(r),
         NEW q \in Readers \ {r}
  PROVE  Idle(q)
<1>1. Seen(q)' = Seen(q)
  <2>1. PICK S \in SUBSET Visible(UserOf[r]) : Send(r, S)
    BY ReaderStep
  <2>2. S \in SUBSET Stored
    BY PagesVisible
  <2> QED BY <2>1, <2>2, PageSeen
<1>2. /\ pc'[q] = pc[q] /\ cursor'[q] = cursor[q] /\ mode'[q] = mode[q]
      /\ hidden'[q] = hidden[q] /\ promised'[q] = promised[q]
  BY PassesType DEF ListOlder, ListNewer, Poll, FollowNext, TypeOK
<1> QED BY <1>1, <1>2 DEF Idle

LEMMA AllIdle ==
  ASSUME TypeOK, NEW q \in Readers,
         UNCHANGED reads \/ \E u \in Users, p \in Repos : SetMember(u, p)
  PROVE  Idle(q)
<1>1. UNCHANGED <<mode, pc, cursor, shown, hidden>>
      /\ promised'[q] \subseteq promised[q]
  BY DEF reads, ghost, SetMember
<1> QED BY <1>1 DEF Idle, Seen

\* One reader at a time takes a step.
LEMMA Steps ==
  ASSUME TypeOK, Next, NEW q \in Readers
  PROVE  Idle(q) \/ ListOlder(q) \/ ListNewer(q) \/ Poll(q)
<1>1. ASSUME NEW r \in Readers, ListOlder(r) \/ ListNewer(r) \/ Poll(r)
      PROVE  Idle(q) \/ ListOlder(q) \/ ListNewer(q) \/ Poll(q)
  <2>1. CASE q = r
    BY <1>1, <2>1
  <2>2. CASE q # r
    BY <1>1, <2>2, OthersIdle
  <2> QED BY <2>1, <2>2
<1> QED BY <1>1, AllIdle, StepKinds

\* The page of what is older than the cursor, in a walk or for a poller.
LEMMA WalkOn ==
  ASSUME TypeOK, PromisesVisible, Walked, NEW r \in Readers, ListOlder(r),
         mode[r] # "catchup", NEW i \in promised'[r]
  PROVE  i \in Seen(r)' \/ (pc'[r] = "next" /\ i < cursor'[r])
<1>1. PICK S, page : /\ S = OlderThan(UserOf[r], cursor[r])
                     /\ page = Newest(S, PageSize)
  OBVIOUS
<1>2. S \in SUBSET Stored /\ page \in SUBSET S
  BY <1>1, PagesVisible
<1>3. /\ Send(r, page) /\ FollowNext(r, HasMore(S), page)
      /\ promised' = IF pc[r] = "start" THEN [promised EXCEPT ![r] = S]
                     ELSE promised
      /\ pc[r] = "start" \/ pc[r] = "next"
  BY <1>1 DEF ListOlder
<1>4. Seen(r)' = Seen(r) \union page
  BY <1>2, <1>3, PageSeen
<1>5. i \in Seen(r) \/ i \in S
  <2>1. CASE pc[r] = "start"
    BY <1>3, <2>1 DEF TypeOK
  <2>2. CASE pc[r] = "next"
    <3>1. i \in promised[r] /\ i \in Visible(UserOf[r])
      BY <1>3, <2>2 DEF PromisesVisible
    <3>2. i \in Seen(r) \/ i < cursor[r]
      BY <2>2, <3>1 DEF Walked
    <3> QED BY <1>1, <3>1, <3>2 DEF OlderThan
  <2> QED BY <1>3, <2>1, <2>2
<1>6. ASSUME i \in S, i \notin page
      PROVE  pc'[r] = "next" /\ i < cursor'[r]
  <2>1. S \in SUBSET Nat /\ IsFiniteSet(S)
    BY <1>2, VisibleFinite
  <2>2. HasMore(S) /\ page # {} /\ \A j \in page : i < j
    BY <1>1, <1>6, <2>1, NewestPage
  <2>3. LastOf(page) \in page
    BY <1>2, <2>2, PageCursors
  <2>4. pc'[r] = "next" /\ cursor'[r] = LastOf(page)
    BY <1>3, <2>2 DEF FollowNext, TypeOK
  <2> QED BY <2>2, <2>3, <2>4
<1> QED BY <1>4, <1>5, <1>6

LEMMA WalkedStep ==
  ASSUME TypeOK, PromisesVisible, Walked, Next
  PROVE  Walked'
<1> SUFFICES ASSUME NEW r \in Readers, mode'[r] # "catchup", pc'[r] # "start",
                    NEW i \in promised'[r]
             PROVE  i \in Seen(r)' \/ (pc'[r] = "next" /\ i < cursor'[r])
  BY DEF Walked
<1>1. CASE Idle(r)
  BY <1>1 DEF Idle, Walked
<1>2. CASE ListOlder(r)
  <2>1. mode[r] # "catchup"
    BY <1>2 DEF ListOlder
  <2> QED BY <1>2, <2>1, WalkOn
<1>3. CASE Poll(r)
  <2>1. UNCHANGED <<mode, pc, cursor, promised>>
    BY <1>3 DEF Poll
  <2>2. Seen(r) \subseteq Seen(r)'
    BY SeenStep
  <2> QED BY <2>1, <2>2 DEF Walked
<1>4. ~ListNewer(r)
  BY DEF ListNewer
<1> QED BY <1>1, <1>2, <1>3, <1>4, Steps

\* What a poller does at its start or along its links.
LEMMA Older ==
  ASSUME TypeOK, Polled, NEW r \in Readers, ListOlder(r), mode[r] = "poll"
  PROVE  \E page \in SUBSET Visible(UserOf[r]) :
           /\ Seen(r)' = Seen(r) \union page
           /\ pc[r] \in {"start", "next"} /\ pc'[r] \in {"next", "done"}
           /\ pc[r] = "start" => page # {}
           /\ pc[r] = "next" => \A j \in page : j < cursor[r]
           /\ pc'[r] = "next" => cursor'[r] \in page
           /\ \A i \in Visible(UserOf[r]) \ page :
                pc[r] = "start" \/ i < cursor[r] =>
                  pc'[r] = "next" /\ i < cursor'[r]
<1>1. PICK S, page : /\ S = OlderThan(UserOf[r], cursor[r])
                     /\ page = Newest(S, PageSize)
  OBVIOUS
<1>2. /\ S \in SUBSET Stored /\ page \in SUBSET S
      /\ page \in SUBSET Visible(UserOf[r])
  BY <1>1, PagesVisible
<1>3. /\ Send(r, page) /\ FollowNext(r, HasMore(S), page)
      /\ pc[r] \in {"start", "next"} /\ (pc[r] = "start" => page # {})
  BY <1>1 DEF ListOlder
<1>4. Seen(r)' = Seen(r) \union page
  <2>1. page \in SUBSET Stored
    BY <1>2
  <2> QED BY <1>3, <2>1, PageSeen
<1>5. /\ HasMore(S) => pc'[r] = "next" /\ cursor'[r] = LastOf(page)
      /\ ~HasMore(S) => pc'[r] = "done"
  BY <1>3 DEF FollowNext, TypeOK
<1>6. S \in SUBSET Nat /\ IsFiniteSet(S)
  BY <1>2, VisibleFinite
<1>7. HasMore(S) => LastOf(page) \in page
  <2>1. HasMore(S) => page # {}
    BY <1>1, <1>6, NewestPage
  <2>2. page \in SUBSET Stored
    BY <1>2
  <2> QED BY <2>1, <2>2, PageCursors
<1>8. pc[r] = "next" => \A j \in page : j < cursor[r]
  BY <1>1, <1>2, <1>3 DEF OlderThan, Polled
<1>9. ASSUME NEW i \in Visible(UserOf[r]) \ page,
             pc[r] = "start" \/ i < cursor[r]
      PROVE  pc'[r] = "next" /\ i < cursor'[r]
  <2>1. i \in S
    BY <1>1, <1>3, <1>9 DEF OlderThan, Polled
  <2>2. HasMore(S) /\ \A j \in page : i < j
    BY <1>1, <1>6, <1>9, <2>1, NewestPage
  <2> QED BY <1>5, <1>7, <2>2
<1> QED BY <1>2, <1>3, <1>4, <1>5, <1>7, <1>8, <1>9

\* What a poller does with the newest id it has.
LEMMA Newer ==
  ASSUME TypeOK, SentCommitted, NEW r \in Readers, Poll(r)
  PROVE  \E page \in SUBSET Visible(UserOf[r]) :
           /\ Seen(r)' = Seen(r) \union page
           /\ UNCHANGED <<pc, cursor>>
           /\ \A j \in page, k \in Seen(r) : k < j
           /\ \A i \in Visible(UserOf[r]) \ page, j \in page :
                i < j => \E k \in Seen(r) : i <= k
<1>1. PICK m, S, page : /\ m = FirstOf(Seen(r))
                        /\ S = NewerThan(UserOf[r], m)
                        /\ page = Oldest(S, PageSize)
  OBVIOUS
<1>2. /\ S \in SUBSET Stored /\ page \in SUBSET S
      /\ page \in SUBSET Visible(UserOf[r])
  BY <1>1, PagesVisible
<1>3. /\ Send(r, page) /\ Seen(r) # {} /\ UNCHANGED <<pc, cursor>>
  BY <1>1 DEF Poll
<1>4. Seen(r)' = Seen(r) \union page
  <2>1. page \in SUBSET Stored
    BY <1>2
  <2> QED BY <1>3, <2>1, PageSeen
<1>5. m \in Seen(r) /\ m \in Nat /\ \A k \in Seen(r) : k <= m /\ k \in Nat
  <2>1. Seen(r) \in SUBSET Stored
    BY DEF SentCommitted
  <2> QED BY <1>1, <1>3, <2>1, PageCursors, TableType
<1>6. S \in SUBSET Nat /\ IsFiniteSet(S) /\ \A j \in S : m < j
  <2>1. \A j \in S : j > m /\ j \in Nat
    BY <1>1, <1>2, TableType DEF NewerThan
  <2> QED BY <1>2, <1>5, <2>1, VisibleFinite
<1>7. \A j \in page, k \in Seen(r) : k < j
  BY <1>2, <1>5, <1>6
<1>8. ASSUME NEW i \in Visible(UserOf[r]) \ page, NEW j \in page, i < j
      PROVE  i <= m
  <2>1. i \notin S
    BY <1>1, <1>6, <1>8, OldestPage
  <2>2. i \in Nat
    BY PagesVisible, TableType
  <2> QED BY <1>1, <1>5, <2>1, <2>2 DEF NewerThan
<1> QED BY <1>2, <1>3, <1>4, <1>5, <1>7, <1>8

LEMMA PolledStep ==
  ASSUME TypeOK, SentCommitted, Polled, Next
  PROVE  Polled'
<1> SUFFICES ASSUME NEW r \in Readers, mode'[r] = "poll"
             PROVE  /\ pc'[r] = "start" => Seen(r)' = {} /\ cursor'[r] = 0
                    /\ pc'[r] # "start" => Seen(r)' # {}
                    /\ pc'[r] = "next" => cursor'[r] # 0
  BY DEF Polled
<1>1. CASE Idle(r)
  BY <1>1 DEF Idle, Polled
<1>2. CASE ListOlder(r)
  <2>1. mode[r] = "poll"
    BY <1>2 DEF ListOlder
  <2>2. PICK page \in SUBSET Visible(UserOf[r]) :
          /\ Seen(r)' = Seen(r) \union page
          /\ pc[r] \in {"start", "next"} /\ pc'[r] \in {"next", "done"}
          /\ pc[r] = "start" => page # {}
          /\ pc'[r] = "next" => cursor'[r] \in page
    BY <1>2, <2>1, Older
  <2>3. \A j \in page : j # 0
    BY PagesVisible, TableType
  <2> QED BY <2>1, <2>2, <2>3 DEF Polled
<1>3. CASE Poll(r)
  <2>1. mode[r] = "poll" /\ Seen(r) # {} /\ UNCHANGED <<pc, cursor>>
    BY <1>3 DEF Poll
  <2>2. Seen(r) \subseteq Seen(r)'
    BY SeenStep
  <2> QED BY <2>1, <2>2 DEF Polled
<1>4. ~ListNewer(r)
  BY DEF ListNewer
<1> QED BY <1>1, <1>2, <1>3, <1>4, Steps

\* A page sends no row that brings an overtaken one back among its own.
LEMMA StaysOvertaken ==
  ASSUME TypeOK, SentCommitted, Polled, Passed, NEW r \in Readers,
         mode[r] = "poll", ListOlder(r) \/ Poll(r),
         NEW i \in (Stored \intersect Through(r)) \ (Seen(r)' \union hidden'[r])
  PROVE  OvertakenIn(Seen(r)', i)
<1>1. Seen(r) \subseteq Seen(r)' /\ hidden[r] \subseteq hidden'[r]
  <2>1. Passes(r)
    BY DEF ListOlder, Poll
  <2>2. PICK S \in SUBSET Visible(UserOf[r]) : Send(r, S)
    BY ReaderStep
  <2>3. S \in SUBSET Stored
    BY PagesVisible
  <2> QED BY <2>1, <2>2, <2>3, PassesType, PageSeen
<1>2. PICK k \in Seen(r) :
        /\ i < k /\ row[k].repo # row[i].repo
        /\ \A j \in Seen(r) : row[j].repo = row[i].repo => j < i \/ k < j
  BY <1>1 DEF Passed, OvertakenIn
<1>3. ASSUME NEW j \in Seen(r)' \ Seen(r)
      PROVE  j < i \/ k < j
  <2>1. CASE ListOlder(r)
    <3>1. PICK page \in SUBSET Visible(UserOf[r]) :
            /\ Seen(r)' = Seen(r) \union page
            /\ pc[r] \in {"start", "next"}
            /\ pc[r] = "next" => \A m \in page : m < cursor[r]
      BY <2>1, Older
    <3>2. pc[r] = "next" /\ cursor[r] <= i
      BY <1>2, <3>1 DEF Polled, Through
    <3>3. j < cursor[r]
      BY <1>3, <3>1, <3>2
    <3>4. i \in Nat /\ j \in Nat /\ cursor[r] \in Nat
      <4>1. j \in Ids
        BY <1>3, <3>1, PagesVisible, TableType
      <4>2. cursor[r] \in 0..MaxId
        BY DEF TypeOK
      <4> QED BY <4>1, <4>2, TableType
    <3> QED BY <3>2, <3>3, <3>4
  <2>2. CASE Poll(r)
    BY <1>3, <2>2, Newer
  <2> QED BY <2>1, <2>2
<1> QED BY <1>1, <1>2, <1>3 DEF OvertakenIn

\* A row a poller gets past in this step was not committed yet.
LEMMA PassedUncommitted ==
  ASSUME TypeOK, SentCommitted, Polled, NEW r \in Readers,
         mode[r] = "poll", ListOlder(r) \/ Poll(r),
         NEW i \in (Stored \intersect Through(r)') \ (Seen(r)' \union hidden'[r]),
         i \notin Through(r)
  PROVE  i \in inserting
<1>1. i \in inserting \union Visible(UserOf[r])
  <2>1. Passes(r)
    BY DEF ListOlder, Poll
  <2> QED BY <2>1, PassesType
<1>2. SUFFICES ASSUME i \in Visible(UserOf[r]) PROVE FALSE
  BY <1>1
<1>3. /\ i \in Ids /\ i \in Nat /\ cursor[r] \in Nat
      /\ Visible(UserOf[r]) \subseteq Nat /\ Seen(r) \subseteq Nat
  <2>1. cursor[r] \in 0..MaxId
    BY DEF TypeOK
  <2> QED BY <2>1, TableType, PagesVisible DEF SentCommitted
<1>4. PICK j \in Seen(r)' : i <= j
  BY DEF Through
<1>5. pc'[r] = "done" \/ cursor'[r] <= i
  BY DEF Through
<1>6. pc[r] = "done" \/ cursor[r] <= i => \A m \in Seen(r) : ~(i <= m)
  BY <1>3 DEF Through
<1>7. CASE ListOlder(r)
  <2>1. PICK page \in SUBSET Visible(UserOf[r]) :
          /\ Seen(r)' = Seen(r) \union page
          /\ pc[r] \in {"start", "next"}
          /\ pc[r] = "next" => \A m \in page : m < cursor[r]
          /\ pc'[r] = "next" => cursor'[r] \in page
          /\ \A m \in Visible(UserOf[r]) \ page :
               pc[r] = "start" \/ m < cursor[r] =>
                 pc'[r] = "next" /\ m < cursor'[r]
    BY <1>7, Older
  <2>2. i \notin page
    BY <2>1
  <2>3. ~(pc'[r] = "next" /\ i < cursor'[r])
    BY <1>3, <1>5, <2>1
  <2>4. pc[r] = "next" /\ cursor[r] <= i
    BY <1>2, <1>3, <2>1, <2>2, <2>3
  <2>5. j \in page /\ j < cursor[r]
    BY <1>4, <1>6, <2>1, <2>4
  <2>6. j \in Nat
    BY <1>3, <2>5
  <2> QED BY <1>3, <1>4, <2>4, <2>5, <2>6
<1>8. CASE Poll(r)
  <2>1. PICK page \in SUBSET Visible(UserOf[r]) :
          /\ Seen(r)' = Seen(r) \union page
          /\ UNCHANGED <<pc, cursor>>
          /\ \A m \in Visible(UserOf[r]) \ page, n \in page :
               m < n => \E k \in Seen(r) : m <= k
    BY <1>8, Newer
  <2>2. i \notin page /\ \A m \in Seen(r) : ~(i <= m)
    BY <1>5, <1>6, <2>1
  <2>3. j \in page /\ j \in Nat /\ i # j
    BY <1>3, <1>4, <2>1, <2>2
  <2>4. i < j
    BY <1>3, <1>4, <2>3
  <2> QED BY <1>2, <2>1, <2>2, <2>3, <2>4
<1> QED BY <1>7, <1>8

LEMMA PassedOn ==
  ASSUME TypeOK, Locked, SentCommitted, Polled, Passed, NEW r \in Readers,
         mode[r] = "poll", ListOlder(r) \/ Poll(r),
         NEW i \in (Stored \intersect Through(r)') \ (Seen(r)' \union hidden'[r])
  PROVE  OvertakenIn(Seen(r)', i)
<1>1. CASE i \in Through(r)
  BY <1>1, StaysOvertaken
<1>2. CASE i \notin Through(r)
  <2>1. i \in inserting
    BY <1>2, PassedUncommitted
  <2>2. Seen(r)' \subseteq Stored \ inserting
    <3>1. PICK S \in SUBSET Visible(UserOf[r]) : Send(r, S)
      BY ReaderStep
    <3>2. S \in SUBSET (Stored \ inserting)
      BY PagesVisible
    <3>3. Seen(r)' = Seen(r) \union S
      BY <3>1, <3>2, PageSeen
    <3> QED BY <3>2, <3>3 DEF SentCommitted
  <2>3. PICK k \in Seen(r)' : i <= k
    BY DEF Through
  <2>4. \A j \in Seen(r)' : i <= j /\ i # j => i < j
    BY <2>2, TableType
  <2>5. \A j \in Seen(r)' : i < j => row[j].repo # row[i].repo
    BY <2>1, <2>2 DEF Locked
  <2>6. \A j \in Seen(r)' : i < j \/ j < i
    BY <2>1, <2>2, TableType
  <2> QED BY <2>1, <2>2, <2>3, <2>4, <2>5, <2>6 DEF OvertakenIn
<1> QED BY <1>1, <1>2

LEMMA PassedStep ==
  ASSUME TypeOK, Locked, SentCommitted, Polled, Passed, RowsKept, Next
  PROVE  Passed'
<1> SUFFICES ASSUME NEW r \in Readers, mode'[r] = "poll",
                    NEW i \in (Stored \intersect Through(r))'
                                \ (Seen(r) \union hidden[r])'
             PROVE  OvertakenIn(Seen(r), i)'
  BY DEF Passed
<1>1. CASE Idle(r)
  <2>1. /\ mode[r] = "poll" /\ Seen(r)' = Seen(r) /\ hidden'[r] = hidden[r]
        /\ i \in Through(r)
    BY <1>1 DEF Idle, Through
  <2>2. Seen(r) \subseteq Stored \ inserting
    BY DEF SentCommitted
  <2>3. i \in Stored /\ row'[i].repo = row[i].repo
    <3>1. i # lastId + 1
      <4>1. PICK j \in Seen(r) : i <= j
        BY <2>1 DEF Through
      <4>2. j \in 1..lastId /\ lastId \in Nat /\ i \in Nat
        BY <2>1, <2>2, TableType DEF Through
      <4> QED BY <4>1, <4>2
    <3> QED BY <3>1 DEF RowsKept
  <2>4. OvertakenIn(Seen(r), i)
    BY <2>1, <2>3 DEF Passed
  <2>5. \A j \in Seen(r) : row'[j].repo = row[j].repo
    BY <2>2 DEF RowsKept
  <2> QED BY <2>1, <2>3, <2>4, <2>5 DEF OvertakenIn
<1>2. CASE ListOlder(r) \/ Poll(r)
  <2>1. UNCHANGED <<mode, row, lastId>>
    BY <1>2 DEF ListOlder, Poll, table
  <2>2. Stored' = Stored
    BY <2>1 DEF Stored
  <2>3. OvertakenIn(Seen(r)', i)
    BY <1>2, <2>1, <2>2, PassedOn
  <2> QED BY <2>1, <2>3 DEF OvertakenIn
<1>3. CASE ListNewer(r)
  BY <1>3 DEF ListNewer
<1> QED BY <1>1, <1>2, <1>3, Steps

-----------------------------------------------------------------------------
(* The invariant holds.                                                    *)

LEMMA InitIInv ==
  ASSUME Init
  PROVE  IInv
<1>1. Stored = {} /\ \A r \in Readers : Seen(r) = {}
  BY DEF Init, Stored, Seen
<1>2. TypeOK
  BY MaxIdType DEF Init, TypeOK
<1>3. Locked /\ SentCommitted
  BY <1>1 DEF Init, Locked, SentCommitted
<1>4. PromisesVisible
  BY DEF Init, PromisesVisible
<1>5. Walked /\ Polled
  BY <1>1 DEF Init, Walked, Polled
<1>6. Passed
  BY <1>1 DEF Passed
<1> QED BY <1>2, <1>3, <1>4, <1>5, <1>6 DEF IInv

LEMMA StutterIInv ==
  ASSUME IInv, UNCHANGED vars
  PROVE  IInv'
<1>1. Stored' = Stored /\ (\A r : Seen(r)' = Seen(r)) /\ \A u : Visible(u)' = Visible(u)
  BY DEF vars, table, reads, Stored, Seen, Visible, VisibleUnder
<1>2. TypeOK'
  BY DEF IInv, TypeOK, vars, table, reads, ghost
<1>3. Locked' /\ SentCommitted' /\ PromisesVisible'
  BY <1>1 DEF IInv, Locked, SentCommitted, PromisesVisible, vars, table, reads,
              ghost
<1>4. Walked' /\ Polled'
  BY <1>1 DEF IInv, Walked, Polled, vars, table, reads, ghost
<1>5. Passed'
  <2>1. \A r : Through(r)' = Through(r)
    BY <1>1 DEF Through, vars, reads
  <2> QED BY <1>1, <2>1 DEF IInv, Passed, OvertakenIn, vars, table, reads, ghost
<1> QED BY <1>2, <1>3, <1>4, <1>5 DEF IInv

LEMMA NextIInv ==
  ASSUME IInv, Next
  PROVE  IInv'
<1>1. TypeOK' /\ Locked' /\ RowsKept
  BY TypeStep, TableStep DEF IInv
<1>2. SentCommitted' /\ PromisesVisible'
  BY <1>1, SentStep, PromisesStep DEF IInv
<1>3. Walked' /\ Polled' /\ Passed'
  BY <1>1, WalkedStep, PolledStep, PassedStep DEF IInv
<1> QED BY <1>1, <1>2, <1>3 DEF IInv

\* The table and what every reader has of it fit together in every state.
THEOREM Invariance == Spec => []IInv
<1>1. Init => IInv
  BY InitIInv
<1>2. IInv /\ [Next]_vars => IInv'
  BY NextIInv, StutterIInv
<1> QED BY <1>1, <1>2, PTL DEF Spec

-----------------------------------------------------------------------------
(* The properties.                                                         *)

\* Every variable keeps its type.
THEOREM TypeCorrect == Spec => []TypeOK
<1>1. IInv => TypeOK
  BY DEF IInv
<1> QED BY <1>1, Invariance, PTL

\* Whoever has followed rel="next" from the newest page to the end was sent
\* every notification that was there at the first page and stayed accessible,
\* also when polls came between the pages.
THEOREM WalksComplete == Spec => []WalkComplete
<1>1. IInv => WalkComplete
  BY DEF IInv, Walked, WalkComplete
<1> QED BY <1>1, Invariance, PTL

\* A client that starts with the newest page and polls with the newest id it
\* has gets past a notification without it only when one of another repository,
\* inserted later, was committed and sent before it; what it has of the skipped
\* row's repository is older than that row or newer than the one that overtook
\* it.
THEOREM PollsPassOthers == Spec => []PassedByOtherRepository
<1>1. IInv => PassedByOtherRepository
  <2>1. \A u : Visible(u) \subseteq Stored
    BY DEF Visible, VisibleUnder
  <2> QED BY <2>1 DEF IInv, Passed, OvertakenIn, PassedByOtherRepository
<1> QED BY <1>1, Invariance, PTL
===============================================================================

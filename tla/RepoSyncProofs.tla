---------------------------- MODULE RepoSyncProofs ----------------------------
(***************************************************************************)
(* The safety of RepoSync for any directories, slugs, UUIDs and overlapping *)
(* resyncs: what a resync that nobody disturbed leaves in the table, and   *)
(* when two scans can overlap.                                             *)
(***************************************************************************)
EXTENDS RepoSync, TLAPS

-----------------------------------------------------------------------------
(* The inductive invariant.                                                *)

\* What each resync has at hand where it stands.
Progress ==
  /\ tx = [p \in Procs |-> tx[p]]
  /\ \A i \in local : path[i] # 0
  /\ \A p \in Procs :
       /\ pc[p] \in {"idle", "mark"} => tx[p] = NoRows
       /\ pc[p] \in {"idle", "mark", "scan"} => entry[p] = 0
       /\ pc[p] \in {"create", "upsert", "insert"} => entry[p] \in Names
       /\ pc[p] \in {"upsert", "insert"} => uuid[p] \in 1..minted

\* The directories a resync is done with.
Visited(p) == repos \ (todo[p] \union {entry[p]})

\* No other directory has this one's marker.
OnlyMarker(n) == \A m \in repos : marker[m] = marker[n] => m = n

\* The row of a visited directory's marker, if there is one, is at it.
Settled(p, n) ==
  /\ marker[n] \in Ids
  /\ OnlyMarker(n) /\ Visible(p, marker[n]) # 0 =>
       /\ marker[n] \in DOMAIN tx[p] /\ tx[p][marker[n]].path = n
       /\ tx[p][marker[n]].local

\* A visited directory has a row no other directory takes away.
Rowed(p, n) ==
  \E i \in DOMAIN tx[p] :
    /\ tx[p][i].local /\ tx[p][i].path = n
    /\ \A m \in repos : marker[m] = i => SlugOf[m] = SlugOf[n]

\* What an undisturbed resync knows: where it is,
AtEntry(p) ==
  /\ todo[p] \subseteq repos
  /\ pc[p] = "mark" => todo[p] = repos /\ snap[p] = local
  /\ pc[p] \in {"create", "upsert", "insert"} =>
       /\ entry[p] \in repos \ todo[p]
       /\ SlugOf[entry[p]] \in slugs[p]
       /\ \A n \in Visited(p) : SlugOf[n] # SlugOf[entry[p]]
  /\ pc[p] = "create" => marker[entry[p]] = 0
  /\ pc[p] \in {"upsert", "insert"} => uuid[p] = marker[entry[p]]
  /\ \A n \in Visited(p) : SlugOf[n] \in slugs[p]

\* what its transaction has done to the rows that were there,
AtRows(p) ==
  /\ pc[p] # "mark" => local \subseteq DOMAIN tx[p]
  /\ \A i \in DOMAIN tx[p] :
       /\ tx[p][i].local => tx[p][i].path \in Visited(p)
       /\ ~tx[p][i].local => tx[p][i].path = path[i]

\* and what it has done for the directories.
Undisturbed(p) ==
  /\ AtEntry(p) /\ AtRows(p)
  /\ \A n \in Visited(p) : Settled(p, n)
  /\ syncs > 0 /\ DistinctMarkers => \A n \in Visited(p) : Rowed(p, n)

CleanRun ==
  clean => \A p \in Procs : pc[p] # "idle" => Alone(p) /\ Undisturbed(p)

\* In synced states every directory has its marker.
Synced ==
  /\ syncs > 0 => /\ \A n \in repos : marker[n] \in Ids
                  /\ \A p \in Procs : pc[p] # "create"
  /\ NoGhostRepository /\ RowFollowsMarker /\ SecondResyncHeals

IInv == TypeOK /\ Progress /\ CleanRun /\ Synced

\* Open transactions have changed different rows.
RowsApart ==
  \A p, q \in Procs : p # q => DOMAIN tx[p] \intersect DOMAIN tx[q] = {}

\* A marked resync holds a row that is local for everybody else.
MarkedHold ==
  \A q \in marked :
    /\ pc[q] \notin {"idle", "mark"}
    /\ DOMAIN tx[q] \intersect local # {}

\* Of two resyncs about to mark or marked, one waits for the other or finds
\* nothing to mark.
MarksMeet ==
  \A p, q \in Procs : p # q /\ pc[p] = "mark" =>
    /\ q \in marked => \/ snap[p] \intersect DOMAIN tx[q] # {}
                       \/ snap[p] \intersect local = {}
    /\ pc[q] = "mark" => \/ snap[p] \intersect local = {}
                         \/ snap[q] \intersect local = {}
                         \/ snap[p] \intersect snap[q] \intersect local # {}

\* The web server's resync and that of `ctl resync`.
AtMostTwo == \A p, q, r \in Procs : p = q \/ q = r \/ p = r

PairInv ==
  TypeOK /\ Progress /\ RowsApart /\ MarkedHold /\ MarksMeet /\ OneScanAtATime

-----------------------------------------------------------------------------
(* The kinds of steps, and what each does to an open transaction.          *)

\* A resync returns without a commit.
GivesUp(p) == Abort(p) \/ AbortOnUnique(p) \/ CrashInMarker(p)

\* An upsert brings rows to its entry.
Upserts(p) ==
  \/ UpdateById(p) /\ Point(p, {uuid[p]})
  \/ UpdateBySlug(p)
  \/ InsertRow(p) /\ Point(p, {uuid[p]})

Kinds ==
  \/ UNCHANGED vars \/ Operate
  \/ \E p \in Procs :
       \/ GivesUp(p) \/ ReadDir(p) \/ MarkNonLocal(p) \/ WriteMarker(p)
       \/ Upserts(p) \/ FindNothing(p) \/ Commit(p)
       \/ \E n \in Names : SkipEntry(p, n) \/ ReadMarker(p, n)

\* Every step of Next is of one of those kinds.
LEMMA StepKinds == [Next]_vars => Kinds
<1>1. ASSUME NEW p \in Procs, UpdateById(p)
      PROVE  Upserts(p) \/ GivesUp(p)
  BY <1>1 DEF UpdateById, Upserts, GivesUp
<1>2. ASSUME NEW p \in Procs, InsertRow(p)
      PROVE  Upserts(p) \/ GivesUp(p)
  BY <1>2 DEF InsertRow, Upserts, GivesUp
<1>3. ASSUME NEW p \in Procs, Upsert(p)
      PROVE  Upserts(p) \/ GivesUp(p) \/ FindNothing(p)
  BY <1>1, <1>3 DEF Upsert, Upserts
<1>4. ASSUME NEW p \in Procs, NEW n \in Names,
             SlugCollision(p, n) \/ BadMarker(p, n)
      PROVE  GivesUp(p)
  BY <1>4 DEF SlugCollision, BadMarker, GivesUp
<1>5. ASSUME NEW p \in Procs, Crash(p) \/ CrashInMarker(p) PROVE GivesUp(p)
  BY <1>5 DEF Crash, GivesUp
<1> QED BY <1>2, <1>3, <1>4, <1>5, Zenon DEF Next, Resync, Kinds

\* A resync that returns is idle and has nothing at hand; the others stay as
\* they are.
LEMMA Returned ==
  ASSUME TypeOK, Progress, NEW p \in Procs, Return(p)
  PROVE  /\ pc' = [pc EXCEPT ![p] = "idle"]
         /\ todo' = [todo EXCEPT ![p] = {}]
         /\ entry' = [entry EXCEPT ![p] = 0]
         /\ tx' = [tx EXCEPT ![p] = NoRows]
         /\ tx'[p] = NoRows /\ pc'[p] = "idle"
         /\ \A q \in Procs \ {p} :
              /\ tx'[q] = tx[q] /\ pc'[q] = pc[q] /\ entry'[q] = entry[q]
              /\ uuid'[q] = uuid[q] /\ todo'[q] = todo[q]
              /\ slugs'[q] = slugs[q] /\ snap'[q] = snap[q]
         /\ marked' = marked \ {p} /\ clean' = FALSE
<1>1. tx = [q \in Procs |-> tx[q]] /\ pc = [q \in Procs |-> pc[q]]
  BY DEF Progress, TypeOK
<1>2. /\ entry = [q \in Procs |-> entry[q]] /\ uuid = [q \in Procs |-> uuid[q]]
      /\ todo = [q \in Procs |-> todo[q]] /\ slugs = [q \in Procs |-> slugs[q]]
      /\ snap = [q \in Procs |-> snap[q]]
  BY DEF TypeOK
<1> QED BY <1>1, <1>2 DEF Return

\* Point puts the rows S at the entry and leaves the others.
LEMMA Pointed ==
  ASSUME TypeOK, Progress, NEW p \in Procs, NEW S \in SUBSET Ids, Point(p, S)
  PROVE  /\ tx' = [q \in Procs |-> tx'[q]]
         /\ DOMAIN tx'[p] = DOMAIN tx[p] \union S
         /\ \A i \in S : tx'[p][i] = [path |-> entry[p], local |-> TRUE]
         /\ \A i \in S : tx'[p][i].path = entry[p] /\ tx'[p][i].local
         /\ \A i \in DOMAIN tx[p] \ S : tx'[p][i] = tx[p][i]
         /\ \A q \in Procs \ {p} : tx'[q] = tx[q]
         /\ pc'[p] = "scan" /\ entry'[p] = 0
         /\ \A q \in Procs \ {p} :
              pc'[q] = pc[q] /\ entry'[q] = entry[q] /\ uuid'[q] = uuid[q]
         /\ UNCHANGED <<disk, minted, table, todo, slugs, snap, ghost>>
<1>1. tx = [q \in Procs |-> tx[q]] /\ pc = [q \in Procs |-> pc[q]]
  BY DEF Progress, TypeOK
<1>2. /\ entry = [q \in Procs |-> entry[q]] /\ uuid = [q \in Procs |-> uuid[q]]
  BY DEF TypeOK
<1>3. tx' = [tx EXCEPT ![p] =
              [i \in DOMAIN tx[p] \union S |->
                 IF i \in S THEN [path |-> entry[p], local |-> TRUE]
                 ELSE tx[p][i]]]
  BY DEF Point
<1>4. tx'[p] = [i \in DOMAIN tx[p] \union S |->
                  IF i \in S THEN [path |-> entry[p], local |-> TRUE]
                  ELSE tx[p][i]]
  BY <1>1, <1>3
<1>5. DOMAIN tx'[p] = DOMAIN tx[p] \union S
  BY <1>4
<1>6. \A i \in S : tx'[p][i] = [path |-> entry[p], local |-> TRUE]
  BY <1>4
<1>11. \A i \in S : tx'[p][i].path = entry[p] /\ tx'[p][i].local
  BY <1>6
<1>7. \A i \in DOMAIN tx[p] \ S : tx'[p][i] = tx[p][i]
  BY <1>4
<1>8. tx' = [q \in Procs |-> tx'[q]] /\ \A q \in Procs \ {p} : tx'[q] = tx[q]
  BY <1>1, <1>3
<1>9. /\ pc'[p] = "scan" /\ entry'[p] = 0
      /\ \A q \in Procs \ {p} :
           pc'[q] = pc[q] /\ entry'[q] = entry[q] /\ uuid'[q] = uuid[q]
  BY <1>1, <1>2 DEF Point
<1>10. UNCHANGED <<disk, minted, table, todo, slugs, snap, ghost>>
  BY DEF Point
<1> QED BY <1>5, <1>6, <1>7, <1>8, <1>9, <1>10, <1>11

\* The first UPDATE makes the rows it still finds local non-local.
LEMMA Marked ==
  ASSUME TypeOK, Progress, NEW p \in Procs, MarkNonLocal(p)
  PROVE  /\ tx' = [q \in Procs |-> tx'[q]]
         /\ DOMAIN tx'[p] = snap[p] \intersect local
         /\ \A i \in snap[p] \intersect local :
              tx'[p][i] = [path |-> path[i], local |-> FALSE]
         /\ \A q \in Procs \ {p} : tx'[q] = tx[q]
         /\ pc[p] = "mark" /\ pc'[p] = "scan"
         /\ \A q \in Procs \ {p} : pc'[q] = pc[q] /\ snap'[q] = snap[q]
         /\ ~Locked(p, snap[p])
         /\ marked' = marked \union {q \in {p} : snap[p] \intersect local # {}}
         /\ UNCHANGED <<disk, minted, table, todo, slugs, entry, uuid, clean,
                        syncs, stuck>>
<1>1. tx = [q \in Procs |-> tx[q]] /\ pc = [q \in Procs |-> pc[q]]
      /\ snap = [q \in Procs |-> snap[q]]
  BY DEF Progress, TypeOK
<1>2. tx' = [tx EXCEPT ![p] = [i \in snap[p] \intersect local |->
                                 [path |-> path[i], local |-> FALSE]]]
  BY DEF MarkNonLocal
<1> QED BY <1>1, <1>2 DEF MarkNonLocal, Goto

\* The rows an upsert changes: the one of its UUID, or those of its slug.
LEMMA UpsertRows ==
  ASSUME TypeOK, Progress, NEW p \in Procs, Upserts(p)
  PROVE  /\ pc[p] \in {"upsert", "insert"}
         /\ \E S \in SUBSET Ids :
              /\ Point(p, S) /\ S # {} /\ ~Locked(p, S)
              /\ \/ S = {uuid[p]}
                 \/ S = Holders(p) /\ Visible(p, uuid[p]) = 0
<1>1. pc[p] \in {"upsert", "insert"}
  BY DEF Upserts, UpdateById, UpdateBySlug, InsertRow
<1>2. uuid[p] \in Ids
  BY <1>1, BoundsType DEF Progress, TypeOK, Ids
<1>3. Holders(p) \in SUBSET Ids
  BY DEF Holders
<1>4. CASE UpdateBySlug(p)
  BY <1>1, <1>3, <1>4 DEF UpdateBySlug
<1>5. CASE Point(p, {uuid[p]}) /\ ~Locked(p, {uuid[p]})
  BY <1>1, <1>2, <1>5
<1> QED BY <1>4, <1>5 DEF Upserts, UpdateById, InsertRow

-----------------------------------------------------------------------------
(* Types.                                                                  *)

Rows == [path : Names, local : BOOLEAN]

\* A row of an open transaction is at a name.
LEMMA RowFields ==
  /\ \A n \in Names : [path |-> n, local |-> TRUE] \in Rows
  /\ \A n \in Names : [path |-> n, local |-> FALSE] \in Rows
  /\ \A r \in Rows : r.path \in Names
BY DEF Rows

\* The part of TypeOK about open transactions.
RowsTyped ==
  \A p \in Procs :
    DOMAIN tx[p] \subseteq Ids /\ \A i \in DOMAIN tx[p] : tx[p][i] \in Rows

\* Every step keeps the types of the transactions' rows.
LEMMA RowsStep ==
  ASSUME TypeOK, Progress, Kinds
  PROVE  RowsTyped' /\ tx' = [p \in Procs |-> tx'[p]]
<1>0. RowsTyped /\ tx = [p \in Procs |-> tx[p]]
  BY DEF TypeOK, RowsTyped, Progress, Rows
<1>1. CASE UNCHANGED tx
  BY <1>0, <1>1 DEF RowsTyped
<1>2. ASSUME NEW p \in Procs, Return(p)
      PROVE  RowsTyped' /\ tx' = [q \in Procs |-> tx'[q]]
  <2>1. /\ tx' = [tx EXCEPT ![p] = NoRows] /\ tx'[p] = NoRows
        /\ \A q \in Procs \ {p} : tx'[q] = tx[q]
    BY <1>2, Returned
  <2>2. DOMAIN NoRows = {}
    BY DEF NoRows
  <2> QED BY <1>0, <2>1, <2>2 DEF RowsTyped
<1>3. ASSUME NEW p \in Procs, MarkNonLocal(p)
      PROVE  RowsTyped' /\ tx' = [q \in Procs |-> tx'[q]]
  <2>1. /\ tx' = [q \in Procs |-> tx'[q]]
        /\ DOMAIN tx'[p] = snap[p] \intersect local
        /\ \A i \in snap[p] \intersect local :
              tx'[p][i] = [path |-> path[i], local |-> FALSE]
        /\ \A q \in Procs \ {p} : tx'[q] = tx[q]
    BY <1>3, Marked
  <2>2. \A i \in local : i \in Ids /\ path[i] \in Names
    BY DEF TypeOK, Progress, Names
  <2> QED BY <1>0, <2>1, <2>2, RowFields DEF RowsTyped
<1>4. ASSUME NEW p \in Procs, Upserts(p)
      PROVE  RowsTyped' /\ tx' = [q \in Procs |-> tx'[q]]
  <2>1. PICK S \in SUBSET Ids : Point(p, S)
    BY <1>4, UpsertRows
  <2>2. entry[p] \in Names
    BY <1>4, UpsertRows DEF Progress
  <2>3. /\ tx' = [q \in Procs |-> tx'[q]]
        /\ DOMAIN tx'[p] = DOMAIN tx[p] \union S
        /\ \A i \in S : tx'[p][i] = [path |-> entry[p], local |-> TRUE]
        /\ \A i \in DOMAIN tx[p] \ S : tx'[p][i] = tx[p][i]
        /\ \A q \in Procs \ {p} : tx'[q] = tx[q]
    BY <2>1, Pointed
  <2> QED BY <1>0, <2>2, <2>3, RowFields DEF RowsTyped
<1>5. Operate => UNCHANGED tx
  BY DEF Operate, InitRepo, DeleteRepo, RenameRepo, CopyRepo, Changed
<1>6. \A p \in Procs : GivesUp(p) \/ Commit(p) => Return(p)
  BY DEF GivesUp, Abort, AbortOnUnique, CrashInMarker, Commit
<1>7. \A p \in Procs :
        /\ ReadDir(p) \/ WriteMarker(p) \/ FindNothing(p) => UNCHANGED tx
        /\ \A n \in Names : SkipEntry(p, n) \/ ReadMarker(p, n) => UNCHANGED tx
  BY DEF ReadDir, WriteMarker, FindNothing, SkipEntry, ReadMarker, Visit
<1>8. UNCHANGED vars => UNCHANGED tx
  BY DEF vars
<1>9. ASSUME NEW p \in Procs,
             \/ GivesUp(p) \/ ReadDir(p) \/ MarkNonLocal(p) \/ WriteMarker(p)
             \/ Upserts(p) \/ FindNothing(p) \/ Commit(p)
             \/ \E n \in Names : SkipEntry(p, n) \/ ReadMarker(p, n)
      PROVE  RowsTyped' /\ tx' = [q \in Procs |-> tx'[q]]
  <2>1. CASE Return(p)
    BY <1>2, <2>1
  <2>2. CASE MarkNonLocal(p) \/ Upserts(p)
    BY <1>3, <1>4, <2>2
  <2>3. CASE UNCHANGED tx
    BY <1>1, <2>3
  <2>4. Return(p) \/ MarkNonLocal(p) \/ Upserts(p) \/ UNCHANGED tx
    BY <1>6, <1>7, <1>9, Zenon
  <2> QED BY <2>1, <2>2, <2>3, <2>4
<1>10. CASE UNCHANGED vars \/ Operate
  BY <1>1, <1>5, <1>8, <1>10
<1> QED BY <1>9, <1>10, Zenon DEF Kinds

\* The other parts.
DiskTyped ==
  /\ repos \subseteq Names /\ minted \in 0..MaxIds
  /\ marker \in [Names -> 0..minted \union {Torn}]

TableTyped == path \in [Ids -> 0..NumNames] /\ local \subseteq Ids

States == {"idle", "mark", "scan", "create", "upsert", "insert"}

Slugs == {SlugOf[n] : n \in Names}

ScansTyped ==
  /\ pc \in [Procs -> States]
  /\ todo \in [Procs -> SUBSET Names] /\ slugs \in [Procs -> SUBSET Slugs]
  /\ entry \in [Procs -> 0..NumNames] /\ uuid \in [Procs -> 0..minted]
  /\ snap \in [Procs -> SUBSET Ids]

GhostsTyped ==
  /\ clean \in BOOLEAN /\ syncs \in 0..2 /\ stuck \in BOOLEAN
  /\ marked \subseteq Procs

\* TypeOK is these parts.
LEMMA TypeParts ==
  TypeOK <=> DiskTyped /\ TableTyped /\ ScansTyped /\ GhostsTyped /\ RowsTyped
BY DEF TypeOK, DiskTyped, TableTyped, ScansTyped, GhostsTyped, RowsTyped, Rows,
       States, Slugs

\* Every step keeps the directories' types.
LEMMA DiskStep ==
  ASSUME TypeOK, Progress, Kinds
  PROVE  DiskTyped' /\ minted <= minted'
<1>0. DiskTyped /\ minted <= minted
  BY DEF DiskTyped, TypeOK
<1>1. CASE UNCHANGED <<disk, minted>>
  BY <1>0, <1>1 DEF DiskTyped, disk
<1>2. CASE Operate
  <2>1. repos' \subseteq Names /\ minted' = minted
    BY <1>0, <1>2 DEF Operate, InitRepo, DeleteRepo, RenameRepo, CopyRepo,
                      Changed, DiskTyped
  <2>2. 0 \in 0..minted
    BY <1>0 DEF DiskTyped
  <2>3. PICK M : M = 0..minted \union {Torn}
    OBVIOUS
  <2>4. marker \in [Names -> M] /\ 0 \in M
    BY <1>0, <2>2, <2>3 DEF DiskTyped
  <2>5. marker' \in [Names -> M]
    BY <1>2, <2>4 DEF Operate, InitRepo, DeleteRepo, RenameRepo, CopyRepo
  <2> QED BY <1>0, <2>1, <2>3, <2>5 DEF DiskTyped
<1>3. ASSUME NEW p \in Procs, WriteMarker(p)
      PROVE  DiskTyped' /\ minted <= minted'
  <2>1. repos' = repos /\ minted' = minted + 1 /\ minted < MaxIds
        /\ marker' = [marker EXCEPT ![entry[p]] = minted']
    BY <1>3 DEF WriteMarker
  <2>2. /\ minted' \in 0..MaxIds /\ minted' \in 0..minted' \union {Torn}
        /\ 0..minted \union {Torn} \subseteq 0..minted' \union {Torn}
        /\ minted <= minted'
    BY <1>0, <2>1, BoundsType DEF DiskTyped
  <2>3. PICK M : M = 0..minted' \union {Torn}
    OBVIOUS
  <2>4. marker \in [Names -> M] /\ minted' \in M
    BY <1>0, <2>2, <2>3 DEF DiskTyped
  <2>5. marker' \in [Names -> M]
    BY <2>1, <2>4
  <2> QED BY <1>0, <2>1, <2>2, <2>3, <2>5 DEF DiskTyped
<1>4. ASSUME NEW p \in Procs, CrashInMarker(p)
      PROVE  DiskTyped' /\ minted <= minted'
  BY <1>0, <1>4 DEF CrashInMarker, DiskTyped
<1>5. \A p \in Procs :
        /\ \/ Abort(p) \/ AbortOnUnique(p) \/ ReadDir(p) \/ MarkNonLocal(p)
           \/ FindNothing(p) \/ Commit(p)
           => UNCHANGED <<disk, minted>>
        /\ \A n \in Names :
             SkipEntry(p, n) \/ ReadMarker(p, n) => UNCHANGED <<disk, minted>>
  BY DEF Abort, AbortOnUnique, ReadDir, MarkNonLocal, FindNothing,
         Commit, SkipEntry, ReadMarker, Visit
<1>6. \A p \in Procs : Upserts(p) => UNCHANGED <<disk, minted>>
  BY UpsertRows, Zenon DEF Point
<1>7. UNCHANGED vars => UNCHANGED <<disk, minted>>
  BY DEF vars
<1>8. ASSUME NEW p \in Procs,
             \/ GivesUp(p) \/ ReadDir(p) \/ MarkNonLocal(p) \/ WriteMarker(p)
             \/ Upserts(p) \/ FindNothing(p) \/ Commit(p)
             \/ \E n \in Names : SkipEntry(p, n) \/ ReadMarker(p, n)
      PROVE  UNCHANGED <<disk, minted>> \/ WriteMarker(p) \/ CrashInMarker(p)
  BY <1>5, <1>6, <1>8, Zenon DEF GivesUp
<1> QED BY <1>1, <1>2, <1>3, <1>4, <1>7, <1>8, Zenon DEF Kinds

\* Every step keeps the types of what the resyncs have at hand.
LEMMA ScansStep ==
  ASSUME TypeOK, Progress, Kinds
  PROVE  ScansTyped'
<1>0. ScansTyped
  BY TypeParts
<1>1. PICK M, E : M = 0..minted' /\ E = 0..NumNames
  OBVIOUS
<1>2. /\ uuid \in [Procs -> M] /\ entry \in [Procs -> E] /\ 0 \in M /\ 0 \in E
      /\ Names \subseteq E
  <2>1. minted \in Nat /\ minted' \in Nat /\ minted <= minted'
    BY DiskStep, BoundsType DEF DiskTyped, TypeOK
  <2>2. 0..minted \subseteq M /\ 0 \in M
    BY <1>1, <2>1
  <2>3. 0 \in E /\ Names \subseteq E
    BY <1>1, BoundsType DEF Names
  <2> QED BY <1>0, <1>1, <2>2, <2>3 DEF ScansTyped
<1>3. /\ pc \in [Procs -> States] /\ todo \in [Procs -> SUBSET Names]
      /\ slugs \in [Procs -> SUBSET Slugs] /\ snap \in [Procs -> SUBSET Ids]
  BY <1>0 DEF ScansTyped
<1>4. \A s \in {"idle", "mark", "scan", "create", "upsert", "insert"} :
        s \in States
  BY DEF States
<1> DEFINE Typed == /\ pc' \in [Procs -> States]
                    /\ todo' \in [Procs -> SUBSET Names]
                    /\ slugs' \in [Procs -> SUBSET Slugs]
                    /\ entry' \in [Procs -> E] /\ uuid' \in [Procs -> M]
                    /\ snap' \in [Procs -> SUBSET Ids]
<1>5. ASSUME Typed PROVE ScansTyped'
  BY <1>1, <1>5 DEF ScansTyped
<1>6. CASE UNCHANGED <<pc, scan>>
  BY <1>2, <1>3, <1>5, <1>6 DEF scan
<1>7. ASSUME NEW p \in Procs, Return(p) PROVE Typed
  BY <1>2, <1>3, <1>4, <1>7 DEF Return
<1>8. ASSUME NEW p \in Procs, ReadDir(p) PROVE Typed
  <2>1. repos \subseteq Names /\ local \subseteq Ids
    BY DEF TypeOK
  <2>2. UNCHANGED <<slugs, entry, uuid>> /\ pc' = [pc EXCEPT ![p] = "mark"]
        /\ todo' = [todo EXCEPT ![p] = repos]
        /\ snap' = [snap EXCEPT ![p] = local]
    BY <1>8 DEF ReadDir, Goto
  <2> QED BY <1>2, <1>3, <1>4, <2>1, <2>2
<1>9. ASSUME NEW p \in Procs, MarkNonLocal(p) PROVE Typed
  <2>1. UNCHANGED <<todo, slugs, entry, uuid>>
        /\ pc' = [pc EXCEPT ![p] = "scan"] /\ snap' = [snap EXCEPT ![p] = {}]
    BY <1>9 DEF MarkNonLocal, Goto
  <2> QED BY <1>2, <1>3, <1>4, <2>1
<1>10. ASSUME NEW p \in Procs, WriteMarker(p) PROVE Typed
  <2>1. UNCHANGED <<todo, slugs, entry, snap>> /\ minted' = minted + 1
        /\ pc' = [pc EXCEPT ![p] = "upsert"]
        /\ uuid' = [uuid EXCEPT ![p] = minted']
    BY <1>10 DEF WriteMarker, Goto
  <2>2. minted' \in M
    BY <1>1, <2>1, BoundsType DEF TypeOK
  <2> QED BY <1>2, <1>3, <1>4, <2>1, <2>2
<1>11. ASSUME NEW p \in Procs, Upserts(p) PROVE Typed
  <2>1. PICK S \in SUBSET Ids : Point(p, S)
    BY <1>11, UpsertRows
  <2> QED BY <1>2, <1>3, <1>4, <2>1 DEF Point
<1>12. ASSUME NEW p \in Procs, FindNothing(p) PROVE Typed
  BY <1>2, <1>3, <1>4, <1>12 DEF FindNothing, Goto, scan
<1>13. ASSUME NEW p \in Procs, NEW n \in Names, SkipEntry(p, n) PROVE Typed
  BY <1>2, <1>3, <1>4, <1>13 DEF SkipEntry
<1>14. ASSUME NEW p \in Procs, NEW n \in Names, ReadMarker(p, n) PROVE Typed
  <2>1. marker[n] \in M /\ n \in E /\ SlugOf[n] \in Slugs
    <3>1. marker[n] \in 0..minted
      BY <1>14 DEF ReadMarker, TypeOK
    <3>2. 0..minted \subseteq M
      BY <1>1, DiskStep, BoundsType DEF DiskTyped, TypeOK
    <3> QED BY <1>2, <3>1, <3>2 DEF Slugs
  <2>2. todo' \in [Procs -> SUBSET Names] /\ slugs' \in [Procs -> SUBSET Slugs]
    BY <1>3, <1>14, <2>1 DEF ReadMarker, Visit
  <2>3. pc' \in [Procs -> States] /\ uuid' \in [Procs -> M]
    BY <1>2, <1>3, <1>4, <1>14, <2>1 DEF ReadMarker
  <2>4. entry' \in [Procs -> E] /\ snap' = snap
    BY <1>2, <1>14, <2>1 DEF ReadMarker, Visit
  <2> QED BY <1>3, <2>2, <2>3, <2>4
<1>15. \A p \in Procs : GivesUp(p) \/ Commit(p) => Return(p)
  BY DEF GivesUp, Abort, AbortOnUnique, CrashInMarker, Commit
<1>16. UNCHANGED vars \/ Operate => UNCHANGED <<pc, scan>>
  BY DEF vars, Operate, InitRepo, DeleteRepo, RenameRepo, CopyRepo, Changed
<1> HIDE DEF Typed
<1> QED BY <1>5, <1>6, <1>7, <1>8, <1>9, <1>10, <1>11, <1>12, <1>13, <1>14,
           <1>15, <1>16, Zenon DEF Kinds

\* Every step keeps the table's and the ghosts' types.
LEMMA TableStep ==
  ASSUME TypeOK, Progress, Kinds
  PROVE  TableTyped' /\ GhostsTyped'
<1>0. TableTyped /\ GhostsTyped
  BY TypeParts
<1>1. CASE UNCHANGED <<table, ghost>>
  BY <1>0, <1>1 DEF table, ghost, TableTyped, GhostsTyped
<1>2. CASE Operate
  <2>1. /\ UNCHANGED <<path, local, marked>>
        /\ clean' = FALSE /\ syncs' = 0 /\ stuck' = FALSE
    BY <1>2 DEF Operate, InitRepo, DeleteRepo, RenameRepo, CopyRepo, Changed,
                table
  <2>2. TableTyped'
    BY <1>0, <2>1 DEF TableTyped
  <2>3. GhostsTyped'
    <3>1. 0 \in 0..2
      OBVIOUS
    <3> QED BY <1>0, <2>1, <3>1, Zenon DEF GhostsTyped
  <2> QED BY <2>2, <2>3
<1>3. ASSUME NEW p \in Procs, GivesUp(p) PROVE TableTyped' /\ GhostsTyped'
  <2>1. UNCHANGED <<path, local, syncs>> /\ (stuck' = stuck \/ stuck' = clean)
    BY <1>3 DEF GivesUp, Abort, AbortOnUnique, CrashInMarker, table
  <2>2. marked' = marked \ {p} /\ clean' = FALSE
    BY <1>3 DEF GivesUp, Abort, AbortOnUnique, CrashInMarker, Return
  <2>3. TableTyped'
    BY <1>0, <2>1 DEF TableTyped
  <2>4. GhostsTyped'
    BY <1>0, <2>1, <2>2 DEF GhostsTyped
  <2> QED BY <2>3, <2>4
<1>4. ASSUME NEW p \in Procs, Commit(p) PROVE TableTyped' /\ GhostsTyped'
  <2>1. \A i \in Ids : Visible(p, i) \in 0..NumNames
    <3>1. \A i \in DOMAIN tx[p] : tx[p][i].path \in Names
      BY TypeParts, RowFields DEF RowsTyped
    <3>2. Names \subseteq 0..NumNames
      BY BoundsType DEF Names
    <3> QED BY <1>0, <3>1, <3>2 DEF Visible, TableTyped
  <2>2. TableTyped'
    BY <1>4, <2>1 DEF Commit, TableTyped
  <2>3. marked' = marked \ {p} /\ clean' = FALSE /\ stuck' = stuck
    BY <1>4 DEF Commit, Return
  <2>4. syncs' \in 0..2
    BY <1>0, <1>4 DEF Commit, GhostsTyped
  <2>5. GhostsTyped'
    BY <1>0, <2>3, <2>4 DEF GhostsTyped
  <2> QED BY <2>2, <2>5
<1>5. ASSUME NEW p \in Procs, ReadDir(p) PROVE TableTyped' /\ GhostsTyped'
  BY <1>0, <1>5 DEF ReadDir, Alone, table, TableTyped, GhostsTyped
<1>6. ASSUME NEW p \in Procs, MarkNonLocal(p) PROVE TableTyped' /\ GhostsTyped'
  BY <1>0, <1>6 DEF MarkNonLocal, table, TableTyped, GhostsTyped
<1>7. \A p \in Procs :
        /\ WriteMarker(p) \/ FindNothing(p) => UNCHANGED <<table, ghost>>
        /\ \A n \in Names :
             SkipEntry(p, n) \/ ReadMarker(p, n) => UNCHANGED <<table, ghost>>
  BY DEF WriteMarker, FindNothing, SkipEntry, ReadMarker, Visit
<1>8. \A p \in Procs : Upserts(p) => UNCHANGED <<table, ghost>>
  BY UpsertRows, Zenon DEF Point
<1>9. UNCHANGED vars => UNCHANGED <<table, ghost>>
  BY DEF vars
<1> QED BY <1>1, <1>2, <1>3, <1>4, <1>5, <1>6, <1>7, <1>8, <1>9, Zenon
           DEF Kinds

\* Every step keeps the types.
LEMMA TypeStep == TypeOK /\ Progress /\ Kinds => TypeOK'
<1>1. ASSUME TypeOK, Progress, Kinds
      PROVE  /\ DiskTyped' /\ TableTyped' /\ ScansTyped' /\ GhostsTyped'
             /\ RowsTyped'
  BY <1>1, RowsStep, DiskStep, ScansStep, TableStep
<1>2. TypeOK' <=> DiskTyped' /\ TableTyped' /\ ScansTyped' /\ GhostsTyped'
                    /\ RowsTyped'
  BY TypeParts, PTL
<1> QED BY <1>1, <1>2

-----------------------------------------------------------------------------
(* Progress.                                                               *)

\* What Progress says of one resync.
Stands(p) ==
  /\ pc[p] \in {"idle", "mark"} => tx[p] = NoRows
  /\ pc[p] \in {"idle", "mark", "scan"} => entry[p] = 0
  /\ pc[p] \in {"create", "upsert", "insert"} => entry[p] \in Names
  /\ pc[p] \in {"upsert", "insert"} => uuid[p] \in 1..minted

\* A resync that a step leaves alone stands where it stood.
LEMMA StandsOn ==
  ASSUME TypeOK, Progress, Kinds, NEW q \in Procs,
         UNCHANGED <<pc[q], tx[q], entry[q], uuid[q]>>
  PROVE  Stands(q)'
<1>1. minted \in Nat /\ minted' \in Nat /\ minted <= minted'
  BY DiskStep, BoundsType DEF DiskTyped, TypeOK
<1>2. 1..minted \subseteq 1..minted'
  BY <1>1
<1>3. Stands(q)
  BY DEF Progress, Stands
<1> QED BY <1>2, <1>3 DEF Stands

\* A resync's own step leaves the others alone.
LEMMA OthersKept ==
  ASSUME TypeOK, Progress, NEW p \in Procs,
         \/ GivesUp(p) \/ ReadDir(p) \/ MarkNonLocal(p) \/ WriteMarker(p)
         \/ Upserts(p) \/ FindNothing(p) \/ Commit(p)
         \/ \E n \in Names : SkipEntry(p, n) \/ ReadMarker(p, n)
  PROVE  \A q \in Procs \ {p} :
           UNCHANGED <<pc[q], tx[q], entry[q], uuid[q]>>
<1> DEFINE Others == \A q \in Procs \ {p} :
                       /\ pc'[q] = pc[q] /\ tx'[q] = tx[q]
                       /\ entry'[q] = entry[q] /\ uuid'[q] = uuid[q]
<1>0. /\ pc = [q \in Procs |-> pc[q]] /\ entry = [q \in Procs |-> entry[q]]
      /\ uuid = [q \in Procs |-> uuid[q]]
  BY DEF TypeOK
<1>1. ASSUME Return(p) PROVE Others
  BY <1>1, Returned
<1>2. GivesUp(p) \/ Commit(p) => Return(p)
  BY DEF GivesUp, Abort, AbortOnUnique, CrashInMarker, Commit
<1>3. MarkNonLocal(p) => Others
  <2>1. MarkNonLocal(p) => UNCHANGED <<entry, uuid>>
    BY DEF MarkNonLocal
  <2> QED BY <2>1, Marked
<1>4. ASSUME Upserts(p) PROVE Others
  <2>1. PICK S \in SUBSET Ids : Point(p, S)
    BY <1>4, UpsertRows
  <2> QED BY <2>1, Pointed
<1>5. ReadDir(p) \/ WriteMarker(p) \/ FindNothing(p) => Others
  BY <1>0 DEF ReadDir, WriteMarker, FindNothing, Goto, scan
<1>6. \A n \in Names : SkipEntry(p, n) \/ ReadMarker(p, n) => Others
  BY <1>0 DEF SkipEntry, ReadMarker, Visit
<1>7. Others
  BY <1>1, <1>2, <1>3, <1>4, <1>5, <1>6, Zenon
<1> QED BY <1>7

\* A step keeps Progress.
LEMMA ProgressStep ==
  ASSUME TypeOK, Progress, Kinds
  PROVE  Progress'
<1>1. ASSUME NEW p \in Procs, GivesUp(p) \/ Commit(p) PROVE Stands(p)'
  <2>1. pc'[p] = "idle" /\ entry'[p] = 0 /\ tx'[p] = NoRows
    <3>1. Return(p)
      BY <1>1 DEF GivesUp, Abort, AbortOnUnique, CrashInMarker, Commit
    <3> QED BY <3>1, Returned DEF TypeOK
  <2> QED BY <2>1 DEF Stands
<1>2. ASSUME NEW p \in Procs, ReadDir(p) PROVE Stands(p)'
  <2>1. pc[p] = "idle" /\ pc'[p] = "mark" /\ UNCHANGED <<entry, tx>>
    BY <1>2 DEF ReadDir, Goto, TypeOK
  <2> QED BY <2>1 DEF Stands, Progress
<1>3. ASSUME NEW p \in Procs, MarkNonLocal(p) PROVE Stands(p)'
  <2>1. pc[p] = "mark" /\ pc'[p] = "scan" /\ UNCHANGED entry
    BY <1>3, Marked
  <2> QED BY <2>1 DEF Stands, Progress
<1>4. ASSUME NEW p \in Procs, WriteMarker(p) PROVE Stands(p)'
  <2>1. /\ pc[p] = "create" /\ pc'[p] = "upsert" /\ UNCHANGED entry
        /\ uuid'[p] = minted' /\ minted' = minted + 1
    BY <1>4 DEF WriteMarker, Goto, TypeOK
  <2>2. minted' \in 1..minted'
    BY <2>1, BoundsType DEF TypeOK
  <2> QED BY <2>1, <2>2 DEF Stands, Progress
<1>5. ASSUME NEW p \in Procs, Upserts(p) PROVE Stands(p)'
  <2>1. PICK S \in SUBSET Ids : Point(p, S)
    BY <1>5, UpsertRows
  <2> QED BY <2>1, Pointed DEF Stands
<1>6. ASSUME NEW p \in Procs, FindNothing(p) PROVE Stands(p)'
  <2>1. pc[p] = "upsert" /\ pc'[p] = "insert" /\ UNCHANGED <<entry, uuid, minted>>
    BY <1>6 DEF FindNothing, Goto, scan, TypeOK
  <2> QED BY <2>1 DEF Stands, Progress
<1>7. ASSUME NEW p \in Procs, NEW n \in Names, SkipEntry(p, n) PROVE Stands(p)'
  <2>1. UNCHANGED <<pc, entry, uuid, tx, minted>>
    BY <1>7 DEF SkipEntry
  <2> QED BY <2>1 DEF Stands, Progress
<1>8. ASSUME NEW p \in Procs, NEW n \in Names, ReadMarker(p, n)
      PROVE  Stands(p)'
  <2>1. entry'[p] = n /\ UNCHANGED minted /\ uuid'[p] = marker[n]
        /\ pc'[p] = IF marker[n] = 0 THEN "create" ELSE "upsert"
    BY <1>8 DEF ReadMarker, Visit, TypeOK
  <2>2. marker[n] \in 0..minted
    BY <1>8 DEF ReadMarker, TypeOK
  <2>3. marker[n] # 0 => marker[n] \in 1..minted
    BY <2>2, BoundsType DEF TypeOK
  <2> QED BY <2>1, <2>3 DEF Stands
<1>9. \A p \in Procs : Stands(p)'
  <2>1. CASE UNCHANGED vars \/ Operate
    <3>1. UNCHANGED <<pc, tx, entry, uuid>>
      BY <2>1 DEF vars, scan, Operate, InitRepo, DeleteRepo, RenameRepo,
                  CopyRepo, Changed
    <3> QED BY <3>1, StandsOn
  <2>2. ASSUME NEW p \in Procs,
               \/ GivesUp(p) \/ ReadDir(p) \/ MarkNonLocal(p) \/ WriteMarker(p)
               \/ Upserts(p) \/ FindNothing(p) \/ Commit(p)
               \/ \E n \in Names : SkipEntry(p, n) \/ ReadMarker(p, n)
        PROVE  \A q \in Procs : Stands(q)'
    <3>1. Stands(p)'
      BY <2>2, <1>1, <1>2, <1>3, <1>4, <1>5, <1>6, <1>7, <1>8, Zenon
    <3>2. \A q \in Procs \ {p} :
            UNCHANGED <<pc[q], tx[q], entry[q], uuid[q]>>
      BY <2>2, OthersKept
    <3>3. \A q \in Procs \ {p} : Stands(q)'
      BY <3>2, StandsOn
    <3> QED BY <3>1, <3>3
  <2> QED BY <2>1, <2>2, Zenon DEF Kinds
<1>10. \A i \in local' : path'[i] # 0
  <2>1. CASE UNCHANGED table
    BY <2>1 DEF table, Progress
  <2>2. ASSUME NEW p \in Procs, Commit(p) PROVE \A i \in local' : path'[i] # 0
    <3>1. \A i \in DOMAIN tx[p] : tx[p][i].path # 0
      BY TypeParts, RowFields, BoundsType DEF RowsTyped, Names
    <3> QED BY <2>2, <3>1 DEF Commit, Visible, Progress
  <2>3. \A p \in Procs :
          /\ \/ GivesUp(p) \/ ReadDir(p) \/ MarkNonLocal(p) \/ WriteMarker(p)
             \/ FindNothing(p)
             => UNCHANGED table
          /\ \A n \in Names :
               SkipEntry(p, n) \/ ReadMarker(p, n) => UNCHANGED table
    BY DEF GivesUp, Abort, AbortOnUnique, CrashInMarker, ReadDir, MarkNonLocal,
           WriteMarker, FindNothing, SkipEntry, ReadMarker, Visit
  <2>4. \A p \in Procs : Upserts(p) => UNCHANGED table
    BY UpsertRows, Zenon DEF Point
  <2>5. UNCHANGED vars \/ Operate => UNCHANGED table
    BY DEF vars, Operate, InitRepo, DeleteRepo, RenameRepo, CopyRepo, Changed
  <2> QED BY <2>1, <2>2, <2>3, <2>4, <2>5, Zenon DEF Kinds
<1> QED BY <1>9, <1>10, RowsStep DEF Progress, Stands

-----------------------------------------------------------------------------
(* A resync that nothing disturbs.                                         *)

\* The first UPDATE of an undisturbed resync leaves it undisturbed: every
\* local row is non-local in its transaction, and no directory visited.
LEMMA CleanMark ==
  ASSUME TypeOK, Progress, NEW p \in Procs, Undisturbed(p), MarkNonLocal(p)
  PROVE  Undisturbed(p)'
<1>1. /\ DOMAIN tx'[p] = snap[p] \intersect local
      /\ \A i \in snap[p] \intersect local :
           tx'[p][i] = [path |-> path[i], local |-> FALSE]
      /\ pc[p] = "mark" /\ pc'[p] = "scan"
      /\ UNCHANGED <<disk, table, todo, slugs, entry, uuid, syncs>>
  BY Marked
<1>2. snap[p] = local /\ todo[p] = repos
  BY <1>1 DEF Undisturbed, AtEntry
<1>3. Visited(p)' = {}
  BY <1>1, <1>2 DEF Visited, disk
<1>4. AtEntry(p)'
  BY <1>1, <1>2, <1>3 DEF AtEntry, disk
<1>5. \A i \in DOMAIN tx'[p] : ~tx'[p][i].local /\ tx'[p][i].path = path[i]
  <2>1. \A r : \A n : r = [path |-> n, local |-> FALSE]
                        => ~r.local /\ r.path = n
    OBVIOUS
  <2> QED BY <1>1, <2>1, Zenon
<1>6. AtRows(p)'
  BY <1>1, <1>2, <1>3, <1>5 DEF AtRows, table
<1> QED BY <1>3, <1>4, <1>6 DEF Undisturbed

\* When it takes up the next directory, that has a slug of its own.
LEMMA CleanRead ==
  ASSUME TypeOK, Progress, NEW p \in Procs, NEW n \in Names,
         Undisturbed(p), ReadMarker(p, n)
  PROVE  Undisturbed(p)'
<1>1. /\ pc[p] = "scan" /\ n \in repos /\ n \in todo[p]
      /\ SlugOf[n] \notin slugs[p]
      /\ todo'[p] = todo[p] \ {n} /\ slugs'[p] = slugs[p] \union {SlugOf[n]}
      /\ entry'[p] = n /\ uuid'[p] = marker[n]
      /\ pc'[p] = IF marker[n] = 0 THEN "create" ELSE "upsert"
      /\ UNCHANGED <<repos, marker, path, local, snap, tx, syncs>>
  BY DEF ReadMarker, Visit, IsNext, TypeOK, disk, table, ghost
<1>2. entry[p] = 0 /\ 0 \notin repos
  BY <1>1 DEF Progress, TypeOK, Names
<1>3. Visited(p)' = Visited(p)
  BY <1>1, <1>2 DEF Visited
<1>4. todo[p] \subseteq repos /\ \A m \in Visited(p) : SlugOf[m] \in slugs[p]
  BY DEF Undisturbed, AtEntry
<1>5. AtEntry(p)'
  BY <1>1, <1>3, <1>4 DEF AtEntry
<1>6. AtRows(p)'
  BY <1>1, <1>3 DEF Undisturbed, AtRows
<1>7. \A m \in Visited(p) : Settled(p, m) => Settled(p, m)'
  BY <1>1 DEF Settled, OnlyMarker, Visible
<1>8. \A m \in Visited(p) : Rowed(p, m) => Rowed(p, m)'
  BY <1>1 DEF Rowed
<1>9. DistinctMarkers' => DistinctMarkers
  BY <1>1 DEF DistinctMarkers
<1> QED BY <1>1, <1>3, <1>5, <1>6, <1>7, <1>8, <1>9 DEF Undisturbed

\* A directory's new marker is no other directory's.
LEMMA CleanWrite ==
  ASSUME TypeOK, Progress, NEW p \in Procs, Undisturbed(p), syncs = 0,
         WriteMarker(p)
  PROVE  Undisturbed(p)'
<1>1. /\ pc[p] = "create" /\ pc'[p] = "upsert" /\ entry[p] \in repos
      /\ uuid'[p] = marker'[entry[p]]
      /\ \A n \in Names \ {entry[p]} : marker'[n] = marker[n]
      /\ UNCHANGED <<repos, path, local, todo, slugs, entry, snap, tx, syncs>>
  BY DEF WriteMarker, Goto, TypeOK, table, ghost
<1>2. Visited(p)' = Visited(p) /\ entry[p] \notin Visited(p)
      /\ Visited(p) \subseteq repos /\ repos \subseteq Names
  BY <1>1 DEF Visited, TypeOK
<1>3. AtEntry(p)'
  BY <1>1, <1>2 DEF Undisturbed, AtEntry
<1>4. AtRows(p)'
  BY <1>1, <1>2 DEF Undisturbed, AtRows
<1>5. marker[entry[p]] = 0 /\ 0 \notin Ids
  BY <1>1 DEF Undisturbed, AtEntry, Ids
<1>6. ASSUME NEW n \in Visited(p) PROVE Settled(p, n)'
  <2>1. Settled(p, n) /\ marker'[n] = marker[n]
    BY <1>1, <1>2 DEF Undisturbed
  <2>2. OnlyMarker(n)' => OnlyMarker(n)
    BY <1>1, <1>2, <1>5, <2>1 DEF OnlyMarker, Settled
  <2>3. Visible(p, marker[n])' = Visible(p, marker[n])
    BY <1>1, <2>1 DEF Visible
  <2> QED BY <1>1, <2>1, <2>2, <2>3 DEF Settled
<1> QED BY <1>1, <1>2, <1>3, <1>4, <1>6 DEF Undisturbed

\* An upsert brings the entry's row to it and takes no visited directory's
\* row away.
LEMMA CleanUpsert ==
  ASSUME TypeOK, Progress, Synced, NEW p \in Procs, Undisturbed(p), Upserts(p)
  PROVE  Undisturbed(p)'
<1>1. PICK e, u : e = entry[p] /\ u = uuid[p]
  OBVIOUS
<1>2. PICK S \in SUBSET Ids :
        /\ Point(p, S) /\ S # {}
        /\ \/ S = {u}
           \/ S = Holders(p) /\ Visible(p, u) = 0
  BY <1>1, UpsertRows
<1>3. pc[p] \in {"upsert", "insert"}
  BY UpsertRows
<1>4. /\ DOMAIN tx'[p] = DOMAIN tx[p] \union S
      /\ \A i \in S : tx'[p][i].path = e /\ tx'[p][i].local
      /\ \A i \in DOMAIN tx[p] \ S : tx'[p][i] = tx[p][i]
      /\ pc'[p] = "scan" /\ entry'[p] = 0
      /\ UNCHANGED <<repos, marker, path, local, todo, slugs, snap, syncs>>
  <2>1. /\ DOMAIN tx'[p] = DOMAIN tx[p] \union S
        /\ \A i \in S : tx'[p][i].path = entry[p] /\ tx'[p][i].local
        /\ \A i \in DOMAIN tx[p] \ S : tx'[p][i] = tx[p][i]
        /\ pc'[p] = "scan" /\ entry'[p] = 0
        /\ UNCHANGED <<disk, table, todo, slugs, snap, ghost>>
    BY <1>2, Pointed, Zenon
  <2> QED BY <1>1, <2>1 DEF disk, table, ghost
<1>5. /\ e \in repos \ todo[p] /\ SlugOf[e] \in slugs[p]
      /\ \A n \in Visited(p) : SlugOf[n] # SlugOf[e]
      /\ \A n \in Visited(p) : SlugOf[n] \in slugs[p]
      /\ todo[p] \subseteq repos /\ u = marker[e]
  BY <1>1, <1>3 DEF Undisturbed, AtEntry
<1>6. u \in Ids /\ u # 0 /\ 0 \notin repos
  <2>1. u \in 1..minted /\ minted \in 0..MaxIds /\ repos \subseteq Names
    BY <1>1, <1>3 DEF Progress, TypeOK
  <2> QED BY <2>1, BoundsType DEF Ids, Names
<1>7. Visited(p)' = Visited(p) \union {e} /\ e \notin Visited(p)
      /\ Visited(p) \subseteq repos
  BY <1>1, <1>4, <1>5, <1>6 DEF Visited
<1>8. AtEntry(p)'
  BY <1>4, <1>5, <1>7 DEF AtEntry
<1>9. AtRows(p)'
  <2>1. local \subseteq DOMAIN tx'[p]
    BY <1>3, <1>4 DEF Undisturbed, AtRows
  <2>2. ASSUME NEW i \in DOMAIN tx'[p], tx'[p][i].local
        PROVE  tx'[p][i].path \in Visited(p)'
    BY <1>4, <1>7, <2>2 DEF Undisturbed, AtRows
  <2>3. ASSUME NEW i \in DOMAIN tx'[p], ~tx'[p][i].local
        PROVE  tx'[p][i].path = path'[i]
    BY <1>4, <2>3 DEF Undisturbed, AtRows
  <2> QED BY <1>4, <2>1, <2>2, <2>3 DEF AtRows
<1>10. \A i \in Ids : i \in Holders(p) <=> HasSlug(Visible(p, i), e)
  BY <1>1 DEF Holders
<1>11. \A i \in Ids \ S : Visible(p, i)' = Visible(p, i)
  BY <1>4 DEF Visible
<1>12. ASSUME NEW n \in Visited(p) PROVE Settled(p, n)'
  <2>1. marker[n] \in Ids /\ Settled(p, n) /\ n # e
    BY <1>7 DEF Undisturbed, Settled
  <2>2. ASSUME OnlyMarker(n), Visible(p, marker[n])' # 0, marker[n] \in S
        PROVE  FALSE
    <3>1. S # {u}
      BY <1>5, <2>1, <2>2 DEF OnlyMarker
    <3>2. HasSlug(Visible(p, marker[n]), e)
      BY <1>2, <1>10, <2>1, <2>2, <3>1
    <3>3. Visible(p, marker[n]) = n
      BY <2>1, <2>2, <3>2 DEF Settled, Visible, HasSlug
    <3> QED BY <1>5, <3>2, <3>3 DEF HasSlug
  <2>3. ASSUME OnlyMarker(n), Visible(p, marker[n])' # 0
        PROVE  /\ marker[n] \in DOMAIN tx'[p] /\ tx'[p][marker[n]].path = n
               /\ tx'[p][marker[n]].local
    BY <1>4, <1>11, <2>1, <2>2, <2>3 DEF Settled
  <2>4. OnlyMarker(n)' = OnlyMarker(n)
    BY <1>4 DEF OnlyMarker
  <2> QED BY <1>4, <2>1, <2>3, <2>4 DEF Settled
<1>13. Settled(p, e)'
  <2>1. ASSUME Visible(p, u)' # 0 PROVE u \in S
    <3>1. CASE u \notin S
      BY <1>2, <1>6, <1>11, <2>1, <3>1
    <3> QED BY <3>1
  <2> QED BY <1>4, <1>5, <1>6, <2>1 DEF Settled
<1>14. ASSUME syncs > 0, DistinctMarkers, NEW n \in Visited(p)
       PROVE  Rowed(p, n)'
  <2>1. PICK i \in DOMAIN tx[p] :
          /\ tx[p][i].local /\ tx[p][i].path = n
          /\ \A m \in repos : marker[m] = i => SlugOf[m] = SlugOf[n]
    BY <1>14 DEF Undisturbed, Rowed
  <2>2. i \notin S
    <3>1. CASE i = u
      BY <1>5, <2>1, <3>1
    <3>2. CASE i \in Holders(p)
      <4>1. Visible(p, i) = n
        BY <2>1 DEF Visible
      <4> QED BY <1>1, <1>5, <3>2, <4>1 DEF Holders, HasSlug
    <3> QED BY <1>2, <3>1, <3>2
  <2> QED BY <1>4, <2>1, <2>2 DEF Rowed
<1>15. ASSUME syncs > 0, DistinctMarkers PROVE Rowed(p, e)'
  <2>1. ASSUME NEW i \in S, NEW m \in repos, marker[m] = i
        PROVE  SlugOf[m] = SlugOf[e]
    <3>1. CASE i = u
      <4>1. marker[m] = marker[e] /\ marker[m] # 0
        BY <1>5, <1>6, <2>1, <3>1
      <4> QED BY <1>5, <1>15, <4>1 DEF DistinctMarkers
    <3>2. CASE HasSlug(Visible(p, i), e)
      <4>1. ASSUME i \in DOMAIN tx[p] PROVE tx[p][i].path = path[i]
        <5>1. tx[p][i].local => tx[p][i].path \in Visited(p)
          BY <4>1 DEF Undisturbed, AtRows
        <5>2. tx[p][i].path \notin Visited(p)
          BY <1>5, <3>2, <4>1 DEF HasSlug, Visible
        <5>3. ~tx[p][i].local => tx[p][i].path = path[i]
          BY <4>1 DEF Undisturbed, AtRows
        <5> QED BY <5>1, <5>2, <5>3
      <4>2. Visible(p, i) = path[i]
        BY <4>1 DEF Visible
      <4>3. path[i] = m
        BY <1>15, <2>1, <3>2, <4>2 DEF Synced, RowFollowsMarker, HasSlug
      <4> QED BY <3>2, <4>2, <4>3 DEF HasSlug
    <3> QED BY <1>2, <1>10, <3>1, <3>2
  <2>2. PICK i \in S : TRUE
    BY <1>2
  <2> QED BY <1>4, <2>1, <2>2 DEF Rowed
<1>16. DistinctMarkers' = DistinctMarkers
  BY <1>4 DEF DistinctMarkers
<1>17. \A n \in Visited(p)' : Settled(p, n)'
  BY <1>7, <1>12, <1>13
<1>18. syncs' > 0 /\ DistinctMarkers' => \A n \in Visited(p)' : Rowed(p, n)'
  BY <1>4, <1>7, <1>14, <1>15, <1>16
<1> QED BY <1>8, <1>9, <1>17, <1>18 DEF Undisturbed

\* A resync that begins alone is undisturbed: it has visited nothing.
LEMMA CleanStart ==
  ASSUME TypeOK, Progress, NEW p \in Procs, ReadDir(p)
  PROVE  Undisturbed(p)' /\ clean' = Alone(p)
<1>1. /\ pc[p] = "idle" /\ pc'[p] = "mark"
      /\ todo'[p] = repos /\ snap'[p] = local
      /\ UNCHANGED <<repos, local, entry, tx>> /\ clean' = Alone(p)
  BY DEF ReadDir, Goto, TypeOK, disk, table
<1>2. tx'[p] = NoRows /\ DOMAIN NoRows = {}
  BY <1>1 DEF Progress, NoRows
<1>3. Visited(p)' = {}
  BY <1>1 DEF Visited
<1>4. AtEntry(p)' /\ AtRows(p)'
  BY <1>1, <1>2, <1>3 DEF AtEntry, AtRows
<1> QED BY <1>1, <1>3, <1>4 DEF Undisturbed

\* A step that changes nothing Undisturbed speaks of but the state of the
\* resync, from "upsert" to "insert" or not at all, leaves it undisturbed.
LEMMA CleanElse ==
  ASSUME NEW p \in Procs, Undisturbed(p),
         UNCHANGED <<disk, table, scan, tx, syncs>>,
         pc'[p] = pc[p] \/ (pc[p] = "upsert" /\ pc'[p] = "insert")
  PROVE  Undisturbed(p)'
<1>1. UNCHANGED <<repos, marker, path, local, todo, slugs, entry, uuid, snap,
                  tx, syncs>>
  BY DEF disk, table, scan
<1>2. Visited(p)' = Visited(p)
  BY <1>1 DEF Visited
<1>3. AtEntry(p)'
  BY <1>1, <1>2 DEF Undisturbed, AtEntry
<1>4. AtRows(p)'
  BY <1>1, <1>2 DEF Undisturbed, AtRows
<1>5. \A m \in Visited(p) : Settled(p, m) => Settled(p, m)'
  BY <1>1 DEF Settled, OnlyMarker, Visible
<1>6. \A m \in Visited(p) : Rowed(p, m) => Rowed(p, m)'
  BY <1>1 DEF Rowed
<1>7. DistinctMarkers' => DistinctMarkers
  BY <1>1 DEF DistinctMarkers
<1> QED BY <1>1, <1>2, <1>3, <1>4, <1>5, <1>6, <1>7 DEF Undisturbed

\* A resync that nothing disturbs stays undisturbed by its own steps.
LEMMA CleanOwn ==
  ASSUME TypeOK, Progress, CleanRun, Synced, clean, clean', NEW p \in Procs,
         \/ MarkNonLocal(p) \/ WriteMarker(p) \/ Upserts(p) \/ FindNothing(p)
         \/ \E n \in Names : SkipEntry(p, n) \/ ReadMarker(p, n)
  PROVE  pc[p] # "idle" /\ Undisturbed(p)'
<1>1. pc[p] # "idle"
  <2>1. \/ MarkNonLocal(p) \/ WriteMarker(p) \/ FindNothing(p)
        \/ \E n \in Names : SkipEntry(p, n) \/ ReadMarker(p, n)
        => pc[p] # "idle"
    BY DEF MarkNonLocal, WriteMarker, FindNothing, SkipEntry, ReadMarker, Visit,
           IsNext, Goto
  <2> QED BY <2>1, UpsertRows
<1>2. Undisturbed(p)
  BY <1>1 DEF CleanRun
<1>3. CASE MarkNonLocal(p)
  BY <1>1, <1>2, <1>3, CleanMark
<1>4. CASE WriteMarker(p)
  <2>1. pc[p] = "create" /\ syncs \in 0..2
    BY <1>4 DEF WriteMarker, Goto, TypeOK
  <2>2. syncs = 0
    BY <2>1 DEF Synced
  <2> QED BY <1>1, <1>2, <1>4, <2>2, CleanWrite
<1>5. CASE Upserts(p)
  BY <1>1, <1>2, <1>5, CleanUpsert
<1>6. CASE FindNothing(p)
  <2>1. UNCHANGED <<disk, table, scan, tx, syncs>>
        /\ pc[p] = "upsert" /\ pc'[p] = "insert"
    BY <1>6 DEF FindNothing, Goto, ghost, TypeOK
  <2> QED BY <1>1, <1>2, <2>1, CleanElse
<1>7. ASSUME NEW n \in Names, SkipEntry(p, n) PROVE FALSE
  BY <1>2, <1>7 DEF SkipEntry, IsNext, Undisturbed, AtEntry
<1>8. ASSUME NEW n \in Names, ReadMarker(p, n) PROVE Undisturbed(p)'
  BY <1>2, <1>8, CleanRead
<1> QED BY <1>1, <1>3, <1>4, <1>5, <1>6, <1>7, <1>8

\* What an undisturbed resync knows survives every step.
LEMMA CleanStep ==
  ASSUME TypeOK, Progress, CleanRun, Synced, Kinds
  PROVE  CleanRun'
<1> SUFFICES ASSUME clean' PROVE CleanRun'
  BY DEF CleanRun
<1>1. CASE UNCHANGED vars
  <2>1. UNCHANGED <<disk, table, scan, tx, syncs, pc, clean>>
    BY <1>1 DEF vars, ghost
  <2>2. \A p \in Procs : pc'[p] # "idle" => Alone(p)' /\ Undisturbed(p)'
    BY <2>1, CleanElse DEF CleanRun, Alone
  <2> QED BY <2>2 DEF CleanRun
<1>2. ASSUME NEW p \in Procs, ReadDir(p) PROVE CleanRun'
  <2>1. Alone(p) /\ Undisturbed(p)'
    BY <1>2, CleanStart
  <2>2. \A q \in Procs \ {p} : pc'[q] = "idle"
    BY <1>2, <2>1 DEF ReadDir, Goto, Alone, TypeOK
  <2> QED BY <2>1, <2>2 DEF CleanRun, Alone
<1>3. ASSUME NEW p \in Procs,
             \/ MarkNonLocal(p) \/ WriteMarker(p) \/ Upserts(p)
             \/ FindNothing(p)
             \/ \E n \in Names : SkipEntry(p, n) \/ ReadMarker(p, n)
      PROVE  CleanRun'
  <2>1. clean
    <3>1. MarkNonLocal(p) \/ WriteMarker(p) \/ FindNothing(p) => clean' = clean
      BY DEF MarkNonLocal, WriteMarker, FindNothing, ghost
    <3>2. \A n \in Names : SkipEntry(p, n) \/ ReadMarker(p, n) => clean' = clean
      BY DEF SkipEntry, ReadMarker, Visit, ghost
    <3>3. Upserts(p) => clean' = clean
      BY UpsertRows, Zenon DEF Point, ghost
    <3> QED BY <1>3, <3>1, <3>2, <3>3
  <2>2. pc[p] # "idle" /\ Undisturbed(p)'
    BY <1>3, <2>1, CleanOwn
  <2>3. \A q \in Procs \ {p} : pc[q] = "idle"
    BY <2>1, <2>2 DEF CleanRun, Alone
  <2>4. \A q \in Procs \ {p} : pc'[q] = pc[q]
    BY <1>3, OthersKept
  <2> QED BY <2>2, <2>3, <2>4 DEF CleanRun, Alone
<1>4. ASSUME NEW p \in Procs, GivesUp(p) \/ Commit(p) PROVE FALSE
  BY <1>4 DEF GivesUp, Abort, AbortOnUnique, CrashInMarker, Commit, Return
<1>5. CASE Operate
  BY <1>5 DEF Operate, InitRepo, DeleteRepo, RenameRepo, CopyRepo, Changed
<1> QED BY <1>1, <1>2, <1>3, <1>4, <1>5, Zenon DEF Kinds

-----------------------------------------------------------------------------
(* Synced states.                                                          *)

\* The commit of an undisturbed resync leaves what the properties promise.
LEMMA CommitSyncs ==
  ASSUME TypeOK, Progress, CleanRun, Synced, NEW p \in Procs, Commit(p), clean
  PROVE  Synced'
<1>1. /\ pc[p] = "scan" /\ todo[p] = {} /\ Return(p)
      /\ path' = [i \in Ids |-> Visible(p, i)]
      /\ local' = {i \in Ids : IF i \in DOMAIN tx[p] THEN tx[p][i].local
                               ELSE i \in local}
      /\ UNCHANGED <<repos, marker>>
  BY DEF Commit, disk
<1>2. Alone(p) /\ Undisturbed(p)
  BY <1>1 DEF CleanRun
<1>3. Visited(p) = repos
  BY <1>1 DEF Visited, Progress, TypeOK, Names
<1>4. \A q \in Procs : pc'[q] = "idle"
  BY <1>1, <1>2, Returned DEF Alone
<1>5. \A n \in repos : Settled(p, n)
  BY <1>2, <1>3 DEF Undisturbed
<1>6. local \subseteq DOMAIN tx[p] /\ DOMAIN tx[p] \subseteq Ids
  BY <1>1, <1>2 DEF Undisturbed, AtRows, TypeOK
<1>7. /\ \A i \in local' : i \in DOMAIN tx[p] /\ tx[p][i].local
      /\ \A i \in DOMAIN tx[p] : tx[p][i].local => i \in local'
      /\ \A i \in DOMAIN tx[p] : path'[i] = tx[p][i].path
  BY <1>1, <1>6 DEF Visible
<1>8. NoGhostRepository'
  <2>1. ASSUME NEW i \in local' PROVE path'[i] \in repos
    <3>1. tx[p][i].path \in Visited(p)
      BY <1>2, <1>7, <2>1 DEF Undisturbed, AtRows
    <3> QED BY <1>3, <1>7, <2>1, <3>1
  <2> QED BY <1>1, <2>1 DEF NoGhostRepository
<1>9. RowFollowsMarker'
  <2>1. ASSUME DistinctMarkers, NEW n \in repos, path'[marker[n]] # 0
        PROVE  path'[marker[n]] = n /\ marker[n] \in local'
    <3>1. marker[n] \in Ids /\ OnlyMarker(n)
      <4>1. marker[n] \in Ids
        BY <1>5 DEF Settled
      <4>2. marker[n] # 0
        BY <4>1 DEF Ids
      <4> QED BY <2>1, <4>1, <4>2 DEF DistinctMarkers, OnlyMarker
    <3>2. Visible(p, marker[n]) # 0
      BY <1>1, <2>1, <3>1
    <3> QED BY <1>5, <1>7, <3>1, <3>2 DEF Settled
  <2> QED BY <1>1, <2>1 DEF RowFollowsMarker, DistinctMarkers
<1>10. SecondResyncHeals'
  <2>1. ASSUME syncs' = 2, DistinctMarkers, NEW n \in repos
        PROVE  \E i \in local' : path'[i] = n
    <3>1. syncs > 0
      BY <2>1 DEF Commit, TypeOK
    <3>2. Rowed(p, n)
      BY <1>2, <1>3, <2>1, <3>1 DEF Undisturbed
    <3> QED BY <1>7, <3>2 DEF Rowed
  <2> QED BY <1>1, <2>1 DEF SecondResyncHeals, DistinctMarkers, HasRow
<1>11. \A n \in repos : marker[n] \in Ids
  BY <1>5 DEF Settled
<1> QED BY <1>1, <1>4, <1>8, <1>9, <1>10, <1>11 DEF Synced

\* Synced states stay as promised, until an operator or a commit that was not
\* alone ends them.
LEMMA SyncedStep ==
  ASSUME TypeOK, Progress, CleanRun, Synced, Kinds
  PROVE  Synced'
<1>1. CASE syncs' = 0
  BY <1>1 DEF Synced, NoGhostRepository, RowFollowsMarker, SecondResyncHeals
<1>2. ASSUME UNCHANGED <<disk, table, syncs>>,
             syncs > 0 => \A p \in Procs : pc'[p] # "create"
      PROVE  Synced'
  BY <1>2 DEF Synced, NoGhostRepository, RowFollowsMarker, SecondResyncHeals,
              DistinctMarkers, HasRow, disk, table
<1>3. CASE UNCHANGED vars
  <2>1. UNCHANGED <<disk, table, syncs, pc>>
    BY <1>3 DEF vars, ghost
  <2> QED BY <1>2, <2>1 DEF Synced
<1>4. Operate => syncs' = 0
  BY DEF Operate, InitRepo, DeleteRepo, RenameRepo, CopyRepo, Changed
<1>5. ASSUME NEW p \in Procs, Commit(p) PROVE Synced'
  <2>1. ~clean => syncs' = 0
    BY <1>5 DEF Commit
  <2> QED BY <1>1, <1>5, <2>1, CommitSyncs
<1>6. ASSUME NEW p \in Procs, WriteMarker(p) \/ CrashInMarker(p)
      PROVE  syncs' = 0
  <2>1. pc[p] = "create" /\ syncs' = syncs /\ syncs \in 0..2
    BY <1>6 DEF WriteMarker, CrashInMarker, Goto, ghost, TypeOK
  <2> QED BY <2>1 DEF Synced
<1>7. ASSUME NEW p \in Procs,
             \/ Abort(p) \/ AbortOnUnique(p) \/ ReadDir(p) \/ MarkNonLocal(p)
             \/ Upserts(p) \/ FindNothing(p)
             \/ \E n \in Names : SkipEntry(p, n) \/ ReadMarker(p, n)
      PROVE  Synced'
  <2>1. UNCHANGED <<disk, table, syncs>>
    <3>1. \/ Abort(p) \/ AbortOnUnique(p) \/ ReadDir(p) \/ MarkNonLocal(p)
          \/ FindNothing(p)
          => UNCHANGED <<disk, table, syncs>>
      BY DEF Abort, AbortOnUnique, ReadDir, MarkNonLocal, FindNothing, ghost
    <3>2. \A n \in Names : SkipEntry(p, n) \/ ReadMarker(p, n)
                             => UNCHANGED <<disk, table, syncs>>
      BY DEF SkipEntry, ReadMarker, Visit, ghost
    <3>3. Upserts(p) => UNCHANGED <<disk, table, syncs>>
      BY UpsertRows, Zenon DEF Point, ghost
    <3> QED BY <1>7, <3>1, <3>2, <3>3, Zenon
  <2>2. \A q \in Procs \ {p} : pc'[q] = pc[q]
    <3>1. \/ GivesUp(p) \/ ReadDir(p) \/ MarkNonLocal(p)
          \/ Upserts(p) \/ FindNothing(p)
          \/ \E n \in Names : SkipEntry(p, n) \/ ReadMarker(p, n)
      BY <1>7, Zenon DEF GivesUp
    <3> QED BY <3>1, OthersKept
  <2>3. syncs > 0 => pc'[p] # "create"
    <3>1. Abort(p) \/ AbortOnUnique(p) => pc'[p] = "idle"
      BY Returned DEF Abort, AbortOnUnique
    <3>2. ReadDir(p) \/ MarkNonLocal(p) \/ FindNothing(p) => pc'[p] # "create"
      BY DEF ReadDir, MarkNonLocal, FindNothing, Goto, TypeOK
    <3>3. Upserts(p) => pc'[p] = "scan"
      BY UpsertRows, Pointed, Zenon
    <3>4. \A n \in Names : SkipEntry(p, n) => pc' = pc
      BY DEF SkipEntry
    <3>5. ASSUME NEW n \in Names, ReadMarker(p, n), syncs > 0
          PROVE  pc'[p] = "upsert"
      <4>1. n \in repos /\ marker[n] \in Ids
        BY <3>5 DEF ReadMarker, Visit, Synced
      <4>2. marker[n] # 0
        BY <4>1 DEF Ids
      <4> QED BY <3>5, <4>2 DEF ReadMarker, TypeOK
    <3> QED BY <1>7, <3>1, <3>2, <3>3, <3>4, <3>5 DEF Synced
  <2>4. syncs > 0 => \A q \in Procs : pc'[q] # "create"
    BY <2>2, <2>3 DEF Synced
  <2> QED BY <1>2, <2>1, <2>4
<1> QED BY <1>1, <1>3, <1>4, <1>5, <1>6, <1>7, Zenon DEF Kinds, GivesUp

-----------------------------------------------------------------------------
(* The invariant of every resync.                                          *)

\* It holds at first.
LEMMA InitIInv == Init => IInv
<1> SUFFICES ASSUME Init PROVE IInv
  OBVIOUS
<1>0. /\ 0 \in 0..2 /\ 0 \in 0..NumNames /\ 0 \in 0..MaxIds /\ 0 \in 0..0
      /\ DOMAIN NoRows = {}
  BY BoundsType DEF NoRows
<1>1. TypeOK
  <2>1. DiskTyped /\ TableTyped
    BY <1>0 DEF Init, DiskTyped, TableTyped
  <2>2. ScansTyped
    BY <1>0 DEF Init, ScansTyped, States
  <2>3. GhostsTyped
    BY <1>0, Zenon DEF Init, GhostsTyped
  <2>4. RowsTyped
    BY <1>0 DEF Init, RowsTyped
  <2> QED BY <2>1, <2>2, <2>3, <2>4, TypeParts
<1>2. Progress
  BY DEF Init, Progress
<1>3. CleanRun
  BY DEF Init, CleanRun
<1>4. Synced
  BY DEF Init, Synced, NoGhostRepository, RowFollowsMarker, SecondResyncHeals
<1> QED BY <1>1, <1>2, <1>3, <1>4 DEF IInv

\* Every step keeps it.
THEOREM Invariance == Spec => []IInv
<1>1. IInv /\ [Next]_vars => IInv'
  BY StepKinds, TypeStep, ProgressStep, CleanStep, SyncedStep DEF IInv
<1> QED BY InitIInv, <1>1, PTL DEF Spec

\* Markers, rows and everything a resync has at hand keep their types.
THEOREM TypeCorrect == Spec => []TypeOK
<1>1. IInv => TypeOK
  BY DEF IInv
<1> QED BY Invariance, <1>1, PTL

\* After a resync that nobody disturbed no local row is without its
\* repository (store_repository.go:255).
THEOREM NoGhosts == Spec => []NoGhostRepository
<1>1. IInv => NoGhostRepository
  BY DEF IInv, Synced
<1> QED BY Invariance, <1>1, PTL

\* A repository's row follows its marker file through renames
\* (store_helpers_tx.go:73).
THEOREM RowsFollow == Spec => []RowFollowsMarker
<1>1. IInv => RowFollowsMarker
  BY DEF IInv, Synced
<1> QED BY Invariance, <1>1, PTL

\* Two undisturbed resyncs in a row find every repository.
THEOREM SecondHeals == Spec => []SecondResyncHeals
<1>1. IInv => SecondResyncHeals
  BY DEF IInv, Synced
<1> QED BY Invariance, <1>1, PTL

-----------------------------------------------------------------------------
(* Overlapping resyncs.                                                    *)

\* What a step of p does to the rows transactions hold and to the marks: it
\* adds rows that nobody holds, begins, marks, or ends.
AddsRows(p) ==
  /\ UNCHANGED <<local, snap, marked>>
  /\ pc[p] \notin {"idle", "mark"} /\ pc'[p] \notin {"idle", "mark"}
  /\ DOMAIN tx[p] \subseteq DOMAIN tx'[p]
  /\ \A q \in Procs \ {p} :
       DOMAIN tx[q] \intersect DOMAIN tx'[p]
         \subseteq DOMAIN tx[q] \intersect DOMAIN tx[p]

Begins(p) ==
  /\ UNCHANGED <<local, marked, tx>>
  /\ pc[p] = "idle" /\ pc'[p] = "mark" /\ snap'[p] = local
  /\ \A q \in Procs \ {p} : snap'[q] = snap[q]

Marks(p) ==
  /\ UNCHANGED local
  /\ pc[p] = "mark" /\ pc'[p] = "scan"
  /\ DOMAIN tx'[p] = snap[p] \intersect local
  /\ \A q \in Procs \ {p} :
       snap'[q] = snap[q] /\ snap[p] \intersect DOMAIN tx[q] = {}
  /\ marked' \subseteq marked \union {p}
  /\ p \in marked' \ marked => snap[p] \intersect local # {}

Ends(p) ==
  /\ pc'[p] = "idle" /\ marked' = marked \ {p} /\ DOMAIN tx'[p] = {}
  /\ \A q \in Procs \ {p} : snap'[q] = snap[q]
  /\ \/ UNCHANGED local
     \/ pc[p] = "scan" /\ local \ DOMAIN tx[p] \subseteq local'

MarkKinds ==
  \/ UNCHANGED <<pc, local, snap, tx, marked>>
  \/ \E p \in Procs :
       /\ AddsRows(p) \/ Begins(p) \/ Marks(p) \/ Ends(p)
       /\ \A q \in Procs \ {p} : pc'[q] = pc[q] /\ tx'[q] = tx[q]

\* Every step is of one of these kinds.
LEMMA MarkStep ==
  ASSUME TypeOK, Progress, Kinds
  PROVE  MarkKinds
<1>1. UNCHANGED vars \/ Operate => UNCHANGED <<pc, local, snap, tx, marked>>
  BY DEF vars, scan, table, ghost, Operate, InitRepo, DeleteRepo, RenameRepo,
         CopyRepo, Changed
<1>2. ASSUME NEW p \in Procs, GivesUp(p) \/ Commit(p) PROVE Ends(p)
  <2>1. Return(p)
    BY <1>2 DEF GivesUp, Abort, AbortOnUnique, CrashInMarker, Commit
  <2>2. /\ pc'[p] = "idle" /\ marked' = marked \ {p} /\ DOMAIN tx'[p] = {}
        /\ \A q \in Procs \ {p} : snap'[q] = snap[q]
    BY <2>1, Returned DEF NoRows
  <2>3. GivesUp(p) => UNCHANGED local
    BY DEF GivesUp, Abort, AbortOnUnique, CrashInMarker, table
  <2>4. Commit(p) => pc[p] = "scan" /\ local \ DOMAIN tx[p] \subseteq local'
    BY DEF Commit, TypeOK
  <2> QED BY <1>2, <2>2, <2>3, <2>4 DEF Ends
<1>3. ASSUME NEW p \in Procs, ReadDir(p) PROVE Begins(p)
  BY <1>3 DEF ReadDir, Goto, Begins, TypeOK, table
<1>4. ASSUME NEW p \in Procs, MarkNonLocal(p) PROVE Marks(p)
  <2>1. /\ DOMAIN tx'[p] = snap[p] \intersect local
        /\ pc[p] = "mark" /\ pc'[p] = "scan" /\ UNCHANGED table
        /\ \A q \in Procs \ {p} : snap'[q] = snap[q]
        /\ ~Locked(p, snap[p])
        /\ marked' = marked \union {q \in {p} : snap[p] \intersect local # {}}
    BY <1>4, Marked
  <2> QED BY <2>1 DEF Marks, Locked, table
<1>5. ASSUME NEW p \in Procs, Upserts(p) PROVE AddsRows(p)
  <2>1. PICK S \in SUBSET Ids : Point(p, S) /\ ~Locked(p, S)
    BY <1>5, UpsertRows
  <2>2. /\ DOMAIN tx'[p] = DOMAIN tx[p] \union S /\ pc'[p] = "scan"
        /\ UNCHANGED <<table, snap, ghost>>
    BY <2>1, Pointed, Zenon
  <2>3. pc[p] \notin {"idle", "mark"}
    BY <1>5, UpsertRows
  <2>4. \A q \in Procs \ {p} : S \intersect DOMAIN tx[q] = {}
    BY <2>1 DEF Locked
  <2> QED BY <2>2, <2>3, <2>4 DEF AddsRows, table, ghost
<1>6. ASSUME NEW p \in Procs, WriteMarker(p) \/ FindNothing(p)
      PROVE  AddsRows(p)
  BY <1>6 DEF WriteMarker, FindNothing, Goto, AddsRows, TypeOK, table, scan,
              ghost
<1>7. ASSUME NEW p \in Procs, NEW n \in Names,
             SkipEntry(p, n) \/ ReadMarker(p, n)
      PROVE  AddsRows(p)
  BY <1>7 DEF SkipEntry, ReadMarker, Visit, IsNext, AddsRows, TypeOK, table,
              ghost
<1>8. ASSUME NEW p \in Procs,
             \/ GivesUp(p) \/ ReadDir(p) \/ MarkNonLocal(p) \/ WriteMarker(p)
             \/ Upserts(p) \/ FindNothing(p) \/ Commit(p)
             \/ \E n \in Names : SkipEntry(p, n) \/ ReadMarker(p, n)
      PROVE  MarkKinds
  <2>1. \A q \in Procs \ {p} : pc'[q] = pc[q] /\ tx'[q] = tx[q]
    BY <1>8, OthersKept
  <2>2. AddsRows(p) \/ Begins(p) \/ Marks(p) \/ Ends(p)
    BY <1>2, <1>3, <1>4, <1>5, <1>6, <1>7, <1>8, Zenon
  <2> QED BY <2>1, <2>2 DEF MarkKinds
<1> QED BY <1>1, <1>8, Zenon DEF Kinds, MarkKinds

\* A row that an open transaction has changed is locked for the others.
LEMMA RowsApartStep ==
  ASSUME RowsApart, MarkKinds
  PROVE  RowsApart'
<1>1. CASE UNCHANGED tx
  BY <1>1 DEF RowsApart
<1>2. ASSUME NEW p \in Procs,
             AddsRows(p) \/ Begins(p) \/ Marks(p) \/ Ends(p),
             \A q \in Procs \ {p} : tx'[q] = tx[q]
      PROVE  RowsApart'
  <2>1. \A q \in Procs \ {p} : DOMAIN tx'[p] \intersect DOMAIN tx[q] = {}
    BY <1>2 DEF AddsRows, Begins, Marks, Ends, RowsApart
  <2> QED BY <1>2, <2>1 DEF RowsApart
<1> QED BY <1>1, <1>2, Zenon DEF MarkKinds

\* No commit makes a row non-local that a marked resync holds.
LEMMA MarkedHoldStep ==
  ASSUME RowsApart, MarkedHold, marked \subseteq Procs, MarkKinds
  PROVE  MarkedHold'
<1>1. CASE UNCHANGED <<pc, local, snap, tx, marked>>
  BY <1>1 DEF MarkedHold
<1>2. ASSUME NEW p \in Procs, AddsRows(p) \/ Begins(p) \/ Marks(p) \/ Ends(p),
             \A q \in Procs \ {p} : pc'[q] = pc[q] /\ tx'[q] = tx[q],
             NEW q \in marked'
      PROVE  pc'[q] \notin {"idle", "mark"} /\ DOMAIN tx'[q] \intersect local' # {}
  <2>1. CASE q = p
    BY <1>2, <2>1 DEF AddsRows, Begins, Marks, Ends, MarkedHold
  <2>2. CASE q # p
    <3>1. q \in marked
      BY <1>2, <2>2 DEF AddsRows, Begins, Marks, Ends
    <3>2. pc'[q] = pc[q] /\ tx'[q] = tx[q]
      BY <1>2, <2>2, <3>1
    <3>3. DOMAIN tx[q] \intersect DOMAIN tx[p] = {}
      BY <2>2, <3>1 DEF RowsApart
    <3>4. DOMAIN tx[q] \intersect local' # {}
      BY <1>2, <3>1, <3>3 DEF AddsRows, Begins, Marks, Ends, MarkedHold
    <3> QED BY <3>1, <3>2, <3>4 DEF MarkedHold
  <2> QED BY <2>1, <2>2
<1> QED BY <1>1, <1>2 DEF MarkKinds, MarkedHold

\* Of two resyncs about to mark, the later one waits or finds nothing.
LEMMA MarksMeetStep ==
  ASSUME AtMostTwo, MarkedHold, MarksMeet, marked \subseteq Procs, MarkKinds
  PROVE  MarksMeet'
<1>1. CASE UNCHANGED <<pc, local, snap, tx, marked>>
  BY <1>1 DEF MarksMeet
<1>2. ASSUME NEW p \in Procs, AddsRows(p) \/ Begins(p) \/ Marks(p) \/ Ends(p),
             \A q \in Procs \ {p} : pc'[q] = pc[q] /\ tx'[q] = tx[q]
      PROVE  MarksMeet'
  <2>1. CASE AddsRows(p)
    BY <1>2, <2>1 DEF AddsRows, MarksMeet
  <2>2. CASE Begins(p)
    <3>1. /\ UNCHANGED <<local, marked, tx>> /\ snap'[p] = local
          /\ \A q \in Procs \ {p} : snap'[q] = snap[q] /\ pc'[q] = pc[q]
          /\ p \notin marked
      BY <1>2, <2>2 DEF Begins, MarkedHold
    <3>2. \A q \in marked : DOMAIN tx[q] \intersect local # {}
      BY DEF MarkedHold
    <3>3. \A q \in Procs \ {p} :
            /\ q \in marked => local \intersect DOMAIN tx[q] # {}
            /\ \/ snap[q] \intersect local = {}
               \/ local \intersect snap[q] \intersect local # {}
      BY <3>2
    <3>4. \A q \in Procs : q = p \/ q \in Procs \ {p}
      OBVIOUS
    <3>5. ASSUME NEW r \in Procs, NEW q \in Procs, r # q, pc'[r] = "mark"
          PROVE  /\ q \in marked' => \/ snap'[r] \intersect DOMAIN tx'[q] # {}
                                     \/ snap'[r] \intersect local' = {}
                 /\ pc'[q] = "mark" =>
                      \/ snap'[r] \intersect local' = {}
                      \/ snap'[q] \intersect local' = {}
                      \/ snap'[r] \intersect snap'[q] \intersect local' # {}
      <4>1. CASE r = p
        BY <3>1, <3>3, <3>5, <4>1
      <4>2. CASE q = p
        BY <3>1, <3>3, <3>5, <4>2
      <4> QED BY <3>5, <4>1, <4>2 DEF AtMostTwo
    <3> QED BY <3>5 DEF MarksMeet
  <2>3. CASE Marks(p)
    <3>1. /\ UNCHANGED local /\ pc[p] = "mark" /\ pc'[p] = "scan"
          /\ DOMAIN tx'[p] = snap[p] \intersect local
          /\ marked' \subseteq marked \union {p}
          /\ p \in marked' \ marked => snap[p] \intersect local # {}
          /\ p \notin marked
      BY <2>3 DEF Marks, MarkedHold
    <3>2. \A q \in Procs \ {p} :
            pc'[q] = pc[q] /\ snap'[q] = snap[q] /\ tx'[q] = tx[q]
      BY <1>2, <2>3 DEF Marks
    <3>3. ASSUME NEW r \in Procs, NEW q \in Procs, r # q, pc'[r] = "mark"
          PROVE  /\ q \in marked' => \/ snap'[r] \intersect DOMAIN tx'[q] # {}
                                     \/ snap'[r] \intersect local' = {}
                 /\ pc'[q] # "mark"
      <4>1. r # p /\ pc[r] = "mark" /\ snap'[r] = snap[r]
        BY <3>1, <3>2, <3>3
      <4>2. q = p
        BY <3>3, <4>1 DEF AtMostTwo
      <4>3. snap[p] \intersect local # {} =>
              \/ snap[r] \intersect local = {}
              \/ snap[r] \intersect snap[p] \intersect local # {}
        BY <3>1, <4>1 DEF MarksMeet
      <4> QED BY <3>1, <4>1, <4>2, <4>3
    <3> QED BY <3>3 DEF MarksMeet
  <2>4. CASE Ends(p)
    BY <1>2, <2>4 DEF Ends, MarksMeet, AtMostTwo
  <2> QED BY <1>2, <2>1, <2>2, <2>3, <2>4
<1> QED BY <1>1, <1>2, Zenon DEF MarkKinds

\* The second of two marks is never made.
LEMMA OneScanStep ==
  ASSUME MarksMeet, MarkedHold, OneScanAtATime, marked \subseteq Procs, MarkKinds
  PROVE  OneScanAtATime'
<1>1. \A p, q \in marked : p = q
  BY DEF OneScanAtATime, MarkedHold
<1>2. \A p, q \in marked' : p = q
  <2>1. CASE marked' \subseteq marked
    BY <1>1, <2>1
  <2>2. ASSUME NEW p \in Procs, Marks(p), p \in marked' \ marked
        PROVE  marked = {}
    BY <2>2 DEF Marks, MarksMeet
  <2>3. \A p \in Procs : Marks(p) => marked' \subseteq marked \union {p}
    BY DEF Marks
  <2>4. \/ marked' \subseteq marked
        \/ \E p \in Procs : Marks(p) /\ p \in marked' \ marked
    BY <2>3 DEF MarkKinds, AddsRows, Begins, Ends
  <2> QED BY <2>1, <2>2, <2>3, <2>4
<1> QED BY <1>2 DEF OneScanAtATime

\* With at most two resyncs at a time, the web server's and that of `ctl
\* resync`, only one of them scans once rows are local: the other waits at
\* its first UPDATE (store_repository.go:254).
THEOREM OneScan ==
  ASSUME AtMostTwo
  PROVE  Spec => []OneScanAtATime
<1>1. Init => PairInv
  <2>1. Init => RowsApart
    BY DEF Init, RowsApart, NoRows
  <2>2. Init => MarkedHold /\ MarksMeet /\ OneScanAtATime
    BY DEF Init, MarkedHold, MarksMeet, OneScanAtATime
  <2> QED BY <2>1, <2>2, InitIInv DEF IInv, PairInv
<1>2. PairInv /\ [Next]_vars => PairInv'
  <2> SUFFICES ASSUME PairInv, [Next]_vars PROVE PairInv'
    OBVIOUS
  <2>1. TypeOK' /\ Progress'
    BY StepKinds, TypeStep, ProgressStep DEF PairInv
  <2>2. MarkKinds /\ marked \subseteq Procs
    BY StepKinds, MarkStep DEF PairInv, TypeOK
  <2>3. RowsApart' /\ MarkedHold'
    BY <2>2, RowsApartStep, MarkedHoldStep DEF PairInv
  <2>4. MarksMeet' /\ OneScanAtATime'
    BY AtMostTwo, <2>2, MarksMeetStep, OneScanStep DEF PairInv
  <2> QED BY <2>1, <2>3, <2>4 DEF PairInv
<1>3. PairInv => OneScanAtATime
  BY DEF PairInv
<1> QED BY <1>1, <1>2, <1>3, PTL DEF Spec
===============================================================================

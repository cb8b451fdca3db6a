------------------------------- MODULE RepoSync -------------------------------
(***************************************************************************)
(* ResyncFromFilesystem (src/internal/common/store_repository.go): the     *)
(* directories under $ROOT/repo are scanned in name order, each gets a     *)
(* UUID marker file, and the ff_repository rows are brought in line in one *)
(* transaction.  Operators create, rename, copy and delete directories at  *)
(* any time, and a process may stop at any step: marker files survive, the *)
(* transaction does not.  Resyncs may overlap: the web server runs one at  *)
(* its start and `ctl resync` another.                                     *)
(*                                                                         *)
(* A row's slug and primary key are functions of its filesystem path, so a *)
(* row is its internal id and its path; path 0 is no row.  Marker 0 is no  *)
(* marker file.  PostgreSQL runs READ COMMITTED: a statement sees what is  *)
(* committed and its own transaction's changes, and waits for rows and     *)
(* unique keys that another open transaction has changed; a deadlock ends  *)
(* one of them, like Crash.                                                *)
(***************************************************************************)
EXTENDS Naturals, FiniteSets

CONSTANTS
  NumNames,   \* directory names, in the order os.ReadDir lists them
  MaxIds,     \* bound: UUIDs issued
  MaxBusy,    \* bound: resyncs that run while a directory changes
  SlugOf,     \* slugify
  Procs       \* resyncs that can run at the same time

Names == 1..NumNames
Ids   == 1..MaxIds
Torn  == MaxIds + 1   \* a marker file without a UUID in it

ASSUME BoundsType ==
  NumNames \in Nat \ {0} /\ MaxIds \in Nat \ {0} /\ MaxBusy \in Nat

VARIABLES
  repos,      \* names of the directories that hold a .pijul directory
  marker,     \* UUID in each directory's marker file
  minted,     \* number of UUIDs issued so far
  path,       \* ff_repository.filesystem_path by internal id
  local,      \* internal ids of the rows with is_local
  pc,         \* progress of each resync
  todo,       \* directory entries it has not visited
  slugs,      \* slugs it has met
  entry,      \* the entry it is at
  uuid,       \* that entry's marker
  snap,       \* the local rows its first UPDATE finds
  tx,         \* the rows its transaction has changed, as it left them
  clean,      \* ghost: a resync runs alone and no directory changed under it
  syncs,      \* ghost: clean resyncs in a row, up to 2
  stuck,      \* ghost: such a resync has just failed on a UNIQUE column
  marked      \* ghost: resyncs whose first UPDATE changed a row

disk   == <<repos, marker>>
table  == <<path, local>>
scan   == <<todo, slugs, entry, uuid, snap>>
ghost  == <<clean, syncs, stuck, marked>>
vars   == <<disk, minted, table, pc, scan, tx, ghost>>

TypeOK ==
  /\ repos \subseteq Names
  /\ marker \in [Names -> 0..minted \union {Torn}]
  /\ minted \in 0..MaxIds
  /\ path \in [Ids -> 0..NumNames] /\ local \subseteq Ids
  /\ pc \in [Procs -> {"idle", "mark", "scan", "create", "upsert", "insert"}]
  /\ todo \in [Procs -> SUBSET Names]
  /\ slugs \in [Procs -> SUBSET {SlugOf[n] : n \in Names}]
  /\ entry \in [Procs -> 0..NumNames] /\ uuid \in [Procs -> 0..minted]
  /\ snap \in [Procs -> SUBSET Ids]
  /\ \A p \in Procs :
       /\ DOMAIN tx[p] \subseteq Ids
       /\ \A i \in DOMAIN tx[p] : tx[p][i] \in [path : Names, local : BOOLEAN]
  /\ clean \in BOOLEAN /\ syncs \in 0..2 /\ stuck \in BOOLEAN
  /\ marked \subseteq Procs

NoRows == [i \in {} |-> 0]

Init ==
  /\ repos = {} /\ marker = [n \in Names |-> 0] /\ minted = 0
  /\ path = [i \in Ids |-> 0] /\ local = {}
  /\ pc = [p \in Procs |-> "idle"]
  /\ todo = [p \in Procs |-> {}] /\ slugs = [p \in Procs |-> {}]
  /\ entry = [p \in Procs |-> 0] /\ uuid = [p \in Procs |-> 0]
  /\ snap = [p \in Procs |-> {}] /\ tx = [p \in Procs |-> NoRows]
  /\ clean = FALSE /\ syncs = 0 /\ stuck = FALSE /\ marked = {}

Goto(p, from, to) == pc[p] = from /\ pc' = [pc EXCEPT ![p] = to]

-----------------------------------------------------------------------------
(* What operators do under $ROOT/repo.                                     *)

Changed ==
  /\ Cardinality({p \in Procs : pc[p] # "idle"}) <= MaxBusy
  /\ clean' = FALSE /\ syncs' = 0 /\ stuck' = FALSE
  /\ UNCHANGED <<minted, table, pc, scan, tx, marked>>

InitRepo(n) ==
  /\ n \notin repos /\ minted < MaxIds
  /\ repos' = repos \union {n}
  /\ Changed /\ UNCHANGED marker

DeleteRepo(n) ==
  /\ n \in repos
  /\ repos' = repos \ {n}
  /\ marker' = [marker EXCEPT ![n] = 0]
  /\ Changed

RenameRepo(n, m) ==
  /\ n \in repos /\ m \notin repos
  /\ repos' = (repos \ {n}) \union {m}
  /\ marker' = [marker EXCEPT ![n] = 0, ![m] = marker[n]]
  /\ Changed

\* A copy has the marker file of the original.
CopyRepo(n, m) ==
  /\ n \in repos /\ m \notin repos /\ marker[n] # 0
  /\ repos' = repos \union {m}
  /\ marker' = [marker EXCEPT ![m] = marker[n]]
  /\ Changed

-----------------------------------------------------------------------------
(* ResyncFromFilesystem: the scan.                                         *)

Alone(p) == \A q \in Procs \ {p} : pc[q] = "idle"

\* The resync returns: what its transaction has not committed is gone.
Return(p) ==
  /\ pc' = [pc EXCEPT ![p] = "idle"]
  /\ todo' = [todo EXCEPT ![p] = {}] /\ slugs' = [slugs EXCEPT ![p] = {}]
  /\ entry' = [entry EXCEPT ![p] = 0] /\ uuid' = [uuid EXCEPT ![p] = 0]
  /\ snap' = [snap EXCEPT ![p] = {}] /\ tx' = [tx EXCEPT ![p] = NoRows]
  /\ marked' = marked \ {p} /\ clean' = FALSE

Abort(p) == Return(p) /\ UNCHANGED <<disk, minted, table, syncs, stuck>>

AbortOnUnique(p) ==
  /\ Return(p) /\ stuck' = clean
  /\ UNCHANGED <<disk, minted, table, syncs>>

\* os.ReadDir, BEGIN, and the first UPDATE, which finds the local rows.
ReadDir(p) ==
  /\ Goto(p, "idle", "mark")
  /\ todo' = [todo EXCEPT ![p] = repos]
  /\ snap' = [snap EXCEPT ![p] = local]
  /\ clean' = Alone(p) /\ stuck' = FALSE
  /\ UNCHANGED <<disk, minted, table, slugs, entry, uuid, tx, syncs, marked>>

\* Rows an open transaction of another resync has changed are locked.
Locked(p, S) == \E q \in Procs \ {p} : S \intersect DOMAIN tx[q] # {}

\* Seeded fault: the UPDATE that marks every local row non-local is missing.
MarkNonLocal_Missing(p) ==
  /\ Goto(p, "mark", "scan")
  /\ marked' = marked \union {q \in {p} : snap[p] # {}}
  /\ UNCHANGED <<disk, minted, table, scan, tx, clean, syncs, stuck>>

\* The UPDATE waits for the rows it found, and changes those still local.
MarkNonLocal(p) ==
  /\ Goto(p, "mark", "scan") /\ ~Locked(p, snap[p])
  /\ LET rows == snap[p] \intersect local
     IN /\ tx' = [tx EXCEPT ![p] =
                    [i \in rows |-> [path |-> path[i], local |-> FALSE]]]
        /\ marked' = marked \union {q \in {p} : rows # {}}
  /\ snap' = [snap EXCEPT ![p] = {}]
  /\ UNCHANGED <<disk, minted, table, todo, slugs, entry, uuid, clean,
                 syncs, stuck>>

IsNext(p, n) ==
  pc[p] = "scan" /\ n \in todo[p] /\ \A m \in todo[p] : n <= m

\* The entry was removed or renamed after ReadDir, so IsPijulRepo is false.
SkipEntry(p, n) ==
  /\ IsNext(p, n) /\ n \notin repos
  /\ todo' = [todo EXCEPT ![p] = @ \ {n}]
  /\ UNCHANGED <<disk, minted, table, pc, slugs, entry, uuid, snap, tx,
                 ghost>>

SlugCollision(p, n) ==
  IsNext(p, n) /\ n \in repos /\ SlugOf[n] \in slugs[p] /\ Abort(p)

Visit(p, n) ==
  /\ IsNext(p, n) /\ n \in repos /\ SlugOf[n] \notin slugs[p]
  /\ todo' = [todo EXCEPT ![p] = @ \ {n}]
  /\ slugs' = [slugs EXCEPT ![p] = @ \union {SlugOf[n]}]
  /\ entry' = [entry EXCEPT ![p] = n]
  /\ UNCHANGED <<disk, minted, table, snap, tx, ghost>>

\* Seeded fault: the error of uuid.Parse is ignored.
ReadMarker_Unparsed(p, n) ==
  /\ Visit(p, n)
  /\ pc' = [pc EXCEPT ![p] = IF marker[n] = 0 THEN "create" ELSE "upsert"]
  /\ uuid' = [uuid EXCEPT ![p] = marker[n]]

\* ensureStableUUID, first half: the marker file is read.
ReadMarker(p, n) ==
  /\ Visit(p, n) /\ marker[n] # Torn
  /\ pc' = [pc EXCEPT ![p] = IF marker[n] = 0 THEN "create" ELSE "upsert"]
  /\ uuid' = [uuid EXCEPT ![p] = marker[n]]

BadMarker(p, n) ==
  /\ IsNext(p, n) /\ n \in repos /\ SlugOf[n] \notin slugs[p]
  /\ marker[n] = Torn /\ Abort(p)

\* Second half: without one, a new UUID is written.
WriteMarker(p) ==
  /\ Goto(p, "create", "upsert")
  /\ entry[p] \in repos /\ minted < MaxIds
  /\ minted' = minted + 1
  /\ uuid' = [uuid EXCEPT ![p] = minted + 1]
  /\ marker' = [marker EXCEPT ![entry[p]] = minted + 1]
  /\ UNCHANGED <<repos, table, todo, slugs, entry, snap, tx, ghost>>

\* The process stops, or the database or the disk returns an error; a
\* deadlock between two resyncs ends one of them this way too.
Crash(p) == pc[p] # "idle" /\ Abort(p)

\* It stops between the creation of the marker file and its first byte.
CrashInMarker(p) ==
  /\ pc[p] = "create" /\ entry[p] \in repos /\ Return(p)
  /\ marker' = [marker EXCEPT ![entry[p]] = Torn]
  /\ UNCHANGED <<repos, minted, table, syncs, stuck>>

-----------------------------------------------------------------------------
(* upsertLocalRepositoryTx: UPDATE by internal id, else UPDATE by slug or  *)
(* path, else INSERT.  ff_repository.slug is UNIQUE.                       *)

Visible(p, i) == IF i \in DOMAIN tx[p] THEN tx[p][i].path ELSE path[i]

HasSlug(at, n) == at # 0 /\ SlugOf[at] = SlugOf[n]

\* The rows that hold the entry's slug.
Holders(p) == {i \in Ids : HasSlug(Visible(p, i), entry[p])}

\* Another open transaction has given a row that slug, or taken it away.
Contended(p) ==
  \E q \in Procs \ {p} : \E i \in DOMAIN tx[q] :
    HasSlug(tx[q][i].path, entry[p]) \/ HasSlug(path[i], entry[p])

Point(p, S) ==
  /\ pc' = [pc EXCEPT ![p] = "scan"]
  /\ tx' = [tx EXCEPT ![p] =
              [i \in DOMAIN @ \union S |->
                 IF i \in S THEN [path |-> entry[p], local |-> TRUE] ELSE @[i]]]
  /\ entry' = [entry EXCEPT ![p] = 0] /\ uuid' = [uuid EXCEPT ![p] = 0]
  /\ UNCHANGED <<disk, minted, table, todo, slugs, snap, ghost>>

UpdateById(p) ==
  /\ pc[p] = "upsert" /\ Visible(p, uuid[p]) # 0
  /\ ~Locked(p, {uuid[p]}) /\ ~Contended(p)
  /\ \/ Holders(p) \subseteq {uuid[p]} /\ Point(p, {uuid[p]})
     \/ ~ Holders(p) \subseteq {uuid[p]} /\ AbortOnUnique(p)

UpdateBySlug(p) ==
  /\ pc[p] = "upsert" /\ Visible(p, uuid[p]) = 0
  /\ Holders(p) # {} /\ ~Locked(p, Holders(p))
  /\ Point(p, Holders(p))

FindNothing(p) ==
  /\ Goto(p, "upsert", "insert")
  /\ Visible(p, uuid[p]) = 0 /\ Holders(p) = {}
  /\ UNCHANGED <<disk, minted, table, scan, tx, ghost>>

\* Seeded fault: a repository without a row is left for later.
InsertRow_Never(p) == pc[p] = "insert" /\ Point(p, {})

\* The INSERT waits for a transaction with the same keys, and fails when it
\* has committed them.
InsertRow(p) ==
  /\ pc[p] = "insert" /\ ~Locked(p, {uuid[p]}) /\ ~Contended(p)
  /\ IF Visible(p, uuid[p]) = 0 /\ Holders(p) = {} THEN Point(p, {uuid[p]})
     ELSE AbortOnUnique(p)

\* Seeded fault: the slug decides before the marker does.
Upsert_BySlugFirst(p) ==
  /\ pc[p] = "upsert"
  /\ IF Holders(p) # {} THEN Point(p, Holders(p)) ELSE Point(p, {uuid[p]})

Upsert(p) == UpdateById(p) \/ UpdateBySlug(p) \/ FindNothing(p)

Commit(p) ==
  /\ pc[p] = "scan" /\ todo[p] = {} /\ Return(p)
  /\ path' = [i \in Ids |-> Visible(p, i)]
  /\ local' = {i \in Ids : IF i \in DOMAIN tx[p] THEN tx[p][i].local
                           ELSE i \in local}
  /\ syncs' = IF ~clean THEN 0 ELSE IF syncs = 2 THEN 2 ELSE syncs + 1
  /\ UNCHANGED <<disk, minted, stuck>>

-----------------------------------------------------------------------------
Operate ==
  \E n \in Names :
    \/ InitRepo(n) \/ DeleteRepo(n)
    \/ \E m \in Names : RenameRepo(n, m) \/ CopyRepo(n, m)

Resync(p) ==
  \/ ReadDir(p) \/ MarkNonLocal(p) \/ WriteMarker(p)
  \/ Upsert(p) \/ InsertRow(p) \/ Commit(p)
  \/ \E n \in Names :
       SkipEntry(p, n) \/ SlugCollision(p, n) \/ ReadMarker(p, n) \/ BadMarker(p, n)

Next == Operate \/ \E p \in Procs : Resync(p) \/ Crash(p) \/ CrashInMarker(p)

Spec == Init /\ [][Next]_vars

-----------------------------------------------------------------------------
(* Properties.  "Synced" states are those after a resync that no operator  *)
(* and no other resync disturbed, while the directories stay as they are;  *)
(* what earlier resyncs left, overlapping or broken off, may be anything.  *)

DistinctMarkers ==
  \A n, m \in repos : marker[n] # 0 /\ marker[n] = marker[m] => n = m

HasRow(n) == \E i \in local : path[i] = n

\* After a resync every local row is a repository that is really there
\* (store_repository.go:255), whatever rows earlier and failed resyncs left.
NoGhostRepository ==
  syncs > 0 => \A i \in local : path[i] \in repos

\* The row whose internal id is in a directory's marker file follows the
\* directory, with its members, tracker and tickets, through every rename
\* (store_helpers_tx.go:73).
RowFollowsMarker ==
  syncs > 0 /\ DistinctMarkers =>
    \A n \in repos : marker[n] \in Ids /\ path[marker[n]] # 0 =>
      path[marker[n]] = n /\ marker[n] \in local

\* Two resyncs in a row find every repository, unless directories share a
\* marker file: what the first one misses the second one inserts.
SecondResyncHeals ==
  syncs = 2 /\ DistinctMarkers => \A n \in repos : HasRow(n)

\* Two resyncs race for a marker file or a slug (util.go:114) only while no
\* row is local for one of them, that is before the first resync or after one
\* that found nothing: otherwise the first UPDATE (store_repository.go:254)
\* makes the later one wait.
OneScanAtATime ==
  \A p, q \in Procs :
    {p, q} \subseteq marked /\ pc[p] # "idle" /\ pc[q] # "idle" => p = q

\* doc/spec/common.md:125: "`$ROOT/repo` is source of truth for local
\* repositories": what the table remembers never makes a resync fail.
DiskDecides == DistinctMarkers => ~stuck
=============================================================================

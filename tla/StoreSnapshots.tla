--------------------------- MODULE StoreSnapshots ---------------------------
(* scripts/operations/collect-system-health.py on the declared SQLite      *)
(* stores: a pass reads each in place, copies what may be copied for       *)
(* Grafana's SQLite datasource, and replaces the rows of schema ao_status. *)
(* Stores change under it, a copy may fail, systemd kills a pass after 180 *)
(* seconds and psql may fail.                                              *)
EXTENDS Naturals, Sequences

CONSTANTS
  NStores,    \* declared stores
  MaxChanges  \* times a store may change

ASSUME StoreAssumption == NStores \in Nat /\ MaxChanges \in Nat

Declared == 1..NStores

\* Read by stat only, in place only, or copied.
Uses == {"mount_only", "no_snapshot", "snapshot"}

\* What a store's file can be: absent; no SQLite file, or no more; one the collector may
\* not read; one whose pages do not parse; or a database.
Conditions == {"missing", "foreign", "forbidden", "malformed", "good"}

VARIABLES
  use,        \* the flags of each store in SQLITE_STORES
  store,      \* its file: condition, and a version that grows with every change
  snap,       \* the version in its snapshot, 0 if there is none
  changes,
  storeStage, \* of the pass: "idle", "metadata", "snapshots", "vacuum"
  at,         \* the store it is at
  noted,      \* what was read of it when it was found present, before its copy
  store_rows, store_metrics, \* what it has found
  passFiles,  \* the condition and version of each store as the pass began, and since
  projection  \* tables sqlite_store and sqlite_metric, and the files they were made from

storeVars == <<use, store, snap, changes, storeStage, at, noted, store_rows, store_metrics,
               passFiles, projection>>

StoreInit ==
  /\ use \in [Declared -> Uses] /\ snap \in [Declared -> {0, 1}]
  /\ store \in [Declared -> [is : Conditions, version : {1}]]
  /\ changes = 0 /\ storeStage = "idle" /\ at = 1 /\ noted = "none"
  /\ store_rows = <<>> /\ store_metrics = {}
  /\ passFiles = [i \in Declared |-> {}]
  /\ projection = [rows |-> <<>>, metrics |-> {}, since |-> passFiles]

\* The store's own program, or the operator.
ChangeStore ==
  /\ changes < MaxChanges /\ changes' = changes + 1
  /\ \E i \in Declared, is \in Conditions :
       /\ store' = [store EXCEPT ![i] = [is |-> is, version |-> @.version + 1]]
       /\ passFiles' = [passFiles EXCEPT
                         ![i] = IF storeStage = "idle" THEN {} ELSE @ \cup {store'[i]}]
  /\ UNCHANGED <<use, snap, storeStage, at, noted, store_rows, store_metrics, projection>>

-----------------------------------------------------------------------------
(* One row.                                                                *)

\* Mutant: a failed read has no marker.
ErrorTextsFew == {"bad header"}
\* _STORE_ERRORS and _STORE_CORRUPT: the texts that are a fault.
ErrorTexts == {"failed", "bad header"}

ClassifyStore(present, text) ==
  IF ~present THEN "absent"
  ELSE IF text \in ErrorTexts THEN "error"
  ELSE IF text # "none" THEN "excluded" ELSE "ok"

\* inspect_sqlite_store: present is set for a file not to be opened, or once it is open;
\* a file whose header cannot be read or is another's stays not present.
Present(i) == \/ use[i] = "mount_only" /\ store[i].is # "missing"
              \/ store[i].is \in {"malformed", "good"}

Text(i) ==
  CASE store[i].is = "missing" -> "not present"
    [] store[i].is # "missing" /\ use[i] = "mount_only" -> "metadata only"
    [] OTHER -> CASE store[i].is = "foreign" -> "bad header"
                  [] store[i].is \in {"forbidden", "malformed"} -> "failed"
                  [] OTHER -> "none"

StoreRow(text, integrated) ==
  [status |-> ClassifyStore(Present(at), text), text |-> text, integrated |-> integrated]

Record(row) == store_rows' = Append(store_rows, row) /\ at' = at + 1 /\ UNCHANGED noted

-----------------------------------------------------------------------------
(* A pass.                                                                 *)

StartPass ==
  /\ storeStage = "idle" /\ storeStage' = "metadata" /\ at' = 1
  /\ store_rows' = <<>> /\ store_metrics' = {}
  /\ passFiles' = [i \in Declared |-> {store[i]}]
  /\ UNCHANGED <<use, store, snap, changes, noted, projection>>

\* collect_sqlite: one store of the first pass, and its counts.
CollectSqlite ==
  /\ storeStage = "metadata" /\ at \in Declared
  /\ Record(StoreRow(Text(at), FALSE))
  /\ store_metrics' = store_metrics
       \cup {i \in {at} : use[i] # "mount_only" /\ store[i].is = "good"}
  /\ UNCHANGED <<use, store, snap, changes, storeStage, passFiles, projection>>

\* snapshot_all_sqlite: its rows replace those of the first pass; the counts stay.
SnapshotAll ==
  /\ storeStage = "metadata" /\ at \notin Declared
  /\ storeStage' = "snapshots" /\ at' = 1 /\ store_rows' = <<>>
  /\ UNCHANGED <<use, store, snap, changes, noted, store_metrics, passFiles, projection>>

\* The earlier copy of the store is unlinked.
Uncopied == [snap EXCEPT ![at] = 0]

\* A store that is not there or not to be copied.  A copy an earlier revision left of a
\* store that must have none is removed.
SkipSnapshot ==
  /\ storeStage = "snapshots" /\ at \in Declared
  /\ \/ /\ ~Present(at) \/ use[at] = "mount_only"
        /\ Record(StoreRow(Text(at), FALSE)) /\ UNCHANGED snap
     \/ /\ Present(at) /\ use[at] = "no_snapshot"
        /\ Record(StoreRow("metadata only", FALSE)) /\ snap' = Uncopied
  /\ UNCHANGED <<use, store, changes, storeStage, store_metrics, passFiles, projection>>

\* The store has been found present; from here to the copy it may change.
BeginSnapshot ==
  /\ storeStage = "snapshots" /\ at \in Declared /\ Present(at) /\ use[at] = "snapshot"
  /\ storeStage' = "vacuum" /\ noted' = Text(at)
  /\ UNCHANGED <<use, store, snap, changes, at, store_rows, store_metrics, passFiles,
                 projection>>

\* Mutant: an earlier snapshot counts as integrated.
IntegratedOnDisk(copied) == copied \/ snap[at] # 0
\* A store is integrated when the copy just made is on disk.
Integrated(copied) == copied

\* VACUUM INTO a staging file that takes the snapshot's place.  It may fail on any store;
\* the earlier snapshot then stays.
Vacuum ==
  /\ storeStage = "vacuum" /\ storeStage' = "snapshots"
  /\ \/ /\ store[at].is = "good"
        /\ Record([status |-> ClassifyStore(TRUE, noted), text |-> noted,
                   integrated |-> Integrated(TRUE)])
        /\ snap' = [snap EXCEPT ![at] = store[at].version]
     \/ /\ Record([status |-> "error", text |-> "failed", integrated |-> Integrated(FALSE)])
        /\ UNCHANGED snap
  /\ UNCHANGED <<use, store, changes, store_metrics, passFiles, projection>>

\* write_projection: one transaction.
WriteProjection ==
  /\ storeStage = "snapshots" /\ at \notin Declared /\ storeStage' = "idle"
  /\ projection' = [rows |-> store_rows, metrics |-> store_metrics, since |-> passFiles]
  /\ passFiles' = [i \in Declared |-> {}]
  /\ UNCHANGED <<use, store, snap, changes, at, noted, store_rows, store_metrics>>

\* psql or a replace fails, or the pass is killed: nothing is committed.
AbortPass == /\ storeStage # "idle" /\ storeStage' = "idle" /\ passFiles' = [i \in Declared |-> {}]
             /\ UNCHANGED <<use, store, snap, changes, at, noted, store_rows, store_metrics,
                            projection>>

StoreNext == \/ ChangeStore \/ StartPass \/ CollectSqlite \/ SnapshotAll \/ SkipSnapshot
             \/ BeginSnapshot \/ Vacuum \/ WriteProjection \/ AbortPass

StoreSpec == StoreInit /\ [][StoreNext]_storeVars

-----------------------------------------------------------------------------
(* Properties.                                                             *)

Rows == DOMAIN projection.rows
During(i) == {f.is : f \in projection.since[i]}

\* A store the projection calls integrated is served by a copy no older than the pass that
\* said so, whatever has failed in the passes since (:748-753, :919).
IntegratedServed ==
  \A i \in Rows : projection.rows[i].integrated =>
    snap[i] # 0 /\ \E f \in projection.since[i] : snap[i] >= f.version

\* No copy is served of a store the projection does not call integrated (:748-753), but one
\* from before of a store read by stat only, whose copies nothing removes (:928-933),
\* of one that was not present in that pass, or of one whose copy failed.
OthersUncopied ==
  \A i \in Rows : ~projection.rows[i].integrated /\ snap[i] # 0 =>
    use[i] = "mount_only" \/ projection.rows[i].status \in {"absent", "error"}

\* What Grafana is served beside the page is what the page says of it: both of the above.
CopiesMatchPage == IntegratedServed /\ OthersUncopied

\* A status is true of the file at some time of its pass.  A store called fine was a good
\* one, and it is copied; an error is of a file that was there and opened; what is to be
\* copied is never called excluded on purpose (:648-667).  A store called absent was
\* missing, or there with a header that is no database's or cannot be read - which the
\* texts of :649-654 mean to be errors - and one read by stat only was missing.
StatusTrue ==
  \A i \in Rows :
    LET row == projection.rows[i]
    IN CASE row.status = "ok"       -> "good" \in During(i) /\ row.integrated
         [] row.status = "excluded" -> use[i] # "snapshot" /\ During(i) # {"missing"}
         [] row.status = "error"    -> /\ use[i] = "snapshot"
                                       /\ During(i) \cap {"malformed", "good"} # {}
         [] OTHER -> /\ During(i) \ {"malformed", "good"} # {}
                     /\ use[i] = "mount_only" => "missing" \in During(i)
=============================================================================

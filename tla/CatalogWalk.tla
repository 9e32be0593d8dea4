----------------------------- MODULE CatalogWalk -----------------------------
(***************************************************************************)
(* What a walk does to the catalog: index_entry for each file it found on  *)
(* the disk, refresh_one for each row it listed.                           *)
(*                                                                         *)
(* A walk takes its list at the start of the run and processes the entries *)
(* later, several at a time, against whatever the owner and other runs     *)
(* have made of the catalog and the disk meanwhile.  An entry is therefore *)
(* an actor of its own that works from what was listed.  The operations of *)
(* FileLifecycle go on beside it.                                          *)
(***************************************************************************)
EXTENDS FileLifecycle

CONSTANTS
    Refreshes,  \* <<run, uuid>>: the rows a re-index may list
    Indexes     \* <<run, path>>: the files an index may find

ASSUME RefreshesAssumption == \A e \in Refreshes : e[2] \in Files
ASSUME IndexesAssumption == \A e \in Indexes : e[2] \in Paths

RefreshPCs == {"idle", "stat", "mark", "restat", "fill", "stamp", "failed", "done"}

(* What the listing read of the row, and the stat taken since.  alone is   *)
(* history: nobody else has changed the catalog or the disk since then.    *)
RefreshType == [pc : RefreshPCs, path : Paths, stamp : Stamps, missing : BOOLEAN,
                extracted : BOOLEAN, alone : BOOLEAN]

IndexPCs == {"idle", "find", "insert", "extract", "stamp", "failed", "done"}

IndexType == [pc : IndexPCs, stamp : Stamps, file : Files]

VARIABLES
    refresh,  \* the rows being refreshed
    index     \* the files being indexed

allVars == <<row, disk, op, now, writes, refresh, index>>

WalkTypeOK ==
    /\ TypeOK
    /\ refresh \in [Refreshes -> RefreshType]
    /\ index \in [Indexes -> IndexType]

-----------------------------------------------------------------------------
(* The statements a walk makes of a row. *)

MissedRow(rw) == [rw EXCEPT !.missing = TRUE]

RestattedLate(rw, stamp) ==
    [rw EXCEPT !.stamp = stamp + 1, !.hash = NoHash, !.missing = FALSE]

RestattedKeepsHash(rw, stamp) == [rw EXCEPT !.stamp = stamp, !.missing = FALSE]

Restatted(rw, stamp) ==
    [rw EXCEPT !.stamp = stamp, !.hash = NoHash, !.missing = FALSE]

FilledReplaces(rw) == [rw EXCEPT !.title = "tag"]

(* fill_missing_metadata: COALESCE(column, ?).                             *)
Filled(rw) == [rw EXCEPT !.title = IF @ = "empty" THEN "tag" ELSE @]

-----------------------------------------------------------------------------
(* refresh_one *)

IdleRefresh == [pc |-> "idle", path |-> SomePath, stamp |-> 0, missing |-> FALSE,
                extracted |-> FALSE, alone |-> FALSE]

Resting == {"idle", "failed", "done"}

(* What becomes of the entries beside a step: they learn of a change.      *)
Beside(entries) ==
    IF row' = row /\ disk' = disk
      THEN entries
      ELSE [e \in DOMAIN entries |-> [entries[e] EXCEPT !.alone = FALSE]]

ToRefresh(e, pc) ==
    refresh' = [Beside(refresh) EXCEPT ![e] = [refresh[e] EXCEPT !.pc = pc]]

FailRefresh(e) == "db" \in Faults /\ UNCHANGED row /\ ToRefresh(e, "failed")

(* list_all has no filter: deleted rows are refreshed as well.             *)
ListRow(e) ==
    LET u == e[2] IN
    /\ refresh[e].pc \in Resting
    /\ InCatalog(u)
    /\ UNCHANGED row
    /\ refresh' = [refresh EXCEPT ![e] =
          [pc |-> "stat", path |-> row[u].path, stamp |-> row[u].stamp,
           missing |-> row[u].missing, extracted |-> row[u].extracted,
           alone |-> TRUE]]

SameEntryIgnoresMissing(e) == disk[refresh[e].path].stamp = refresh[e].stamp

SameEntry(e) ==
    disk[refresh[e].path].stamp = refresh[e].stamp /\ ~refresh[e].missing

StatRowForgets(e) ==
    /\ refresh[e].pc = "stat"
    /\ UNCHANGED row
    /\ ToRefresh(e, IF disk[refresh[e].path].present /\ ~SameEntry(e)
                      THEN "restat" ELSE "done")

StatRow(e) ==
    LET found == disk[refresh[e].path] IN
    /\ refresh[e].pc = "stat"
    /\ UNCHANGED row
    /\ \/ /\ ~found.present
          /\ ToRefresh(e, IF refresh[e].missing THEN "done" ELSE "mark")
       \/ /\ found.present /\ SameEntry(e)
          /\ ToRefresh(e, IF refresh[e].extracted THEN "done" ELSE "fill")
       \/ /\ found.present /\ ~SameEntry(e)
          /\ refresh' = [refresh EXCEPT ![e].pc = "restat", ![e].stamp = found.stamp]
       \/ "disk" \in Faults /\ ToRefresh(e, "failed")

MarkMissing(e) ==
    /\ refresh[e].pc = "mark"
    /\ \/ /\ UpdatePath(refresh[e].path, [u \in Files |-> MissedRow(row[u])])
          /\ ToRefresh(e, "done")
       \/ FailRefresh(e)

RefreshStat(e) ==
    /\ refresh[e].pc = "restat"
    /\ \/ /\ UpdatePath(refresh[e].path,
                [u \in Files |-> Restatted(row[u], refresh[e].stamp)])
          /\ ToRefresh(e, "fill")
       \/ FailRefresh(e)

(* Reading the tags gives something or nothing, and a write that fails, or *)
(* finds the row gone, is stepped over.                                    *)
FillMetadata(e) ==
    /\ refresh[e].pc = "fill"
    /\ \/ InCatalog(e[2]) /\ UpdateRow(e[2], Filled(row[e[2]]))
       \/ UNCHANGED row
    /\ ToRefresh(e, "stamp")

(* UPDATE ... WHERE uuid = ? changes nothing when the row is gone.         *)
StampRow(u) ==
    IF InCatalog(u) THEN UpdateRow(u, [row[u] EXCEPT !.extracted = TRUE])
                    ELSE UNCHANGED row

StampRefreshed(e) ==
    /\ refresh[e].pc = "stamp"
    /\ \/ StampRow(e[2]) /\ ToRefresh(e, "done")
       \/ FailRefresh(e)

RefreshStep(e) ==
    \/ ListRow(e) \/ StatRow(e) \/ MarkMissing(e) \/ RefreshStat(e)
    \/ FillMetadata(e) \/ StampRefreshed(e)

-----------------------------------------------------------------------------
(* index_entry *)

IdleIndex == [pc |-> "idle", stamp |-> 0, file |-> SomeFile]

ToIndex(e, pc) == index' = [index EXCEPT ![e].pc = pc]

FailIndex(e) == UNCHANGED row /\ ToIndex(e, "failed")

(* The listing carries the stat of each file it found.                     *)
ListFile(e) ==
    /\ index[e].pc \in Resting
    /\ disk[e[2]].present
    /\ UNCHANGED row
    /\ index' = [index EXCEPT ![e] =
          [pc |-> "find", stamp |-> disk[e[2]].stamp, file |-> SomeFile]]

FindRow(e) ==
    /\ index[e].pc = "find"
    /\ UNCHANGED row
    /\ \/ ToIndex(e, IF RowsAt(e[2]) # {} THEN "done" ELSE "insert")
       \/ "db" \in Faults /\ ToIndex(e, "failed")

Inserted(e) ==
    \E u \in Files :
        /\ row[u].state = "none"
        /\ UpdateRow(u, NewRow(e[2], index[e].stamp))
        /\ index' = [index EXCEPT ![e].pc = "extract", ![e].file = u]

InsertFileTwice(e) ==
    /\ index[e].pc = "insert"
    /\ Inserted(e) \/ FailIndex(e)

(* A fresh uuid; the unique path refuses what another run has inserted.    *)
InsertFile(e) ==
    /\ index[e].pc = "insert"
    /\ \/ RowsAt(e[2]) = {} /\ Inserted(e)
       \/ ("db" \in Faults \/ RowsAt(e[2]) # {}) /\ FailIndex(e)

(* update_metadata replaces every editable field, with NULL for those the  *)
(* tags do not carry; nothing read, or a failed write, leaves the row.     *)
ReplaceMetadata(e) ==
    LET u == index[e].file IN
    /\ index[e].pc = "extract"
    /\ \/ /\ InCatalog(u)
          /\ \E title \in {"empty", "tag"} :
                UpdateRow(u, [row[u] EXCEPT !.title = title])
       \/ UNCHANGED row
    /\ ToIndex(e, "stamp")

StampIndexed(e) ==
    /\ index[e].pc = "stamp"
    /\ \/ StampRow(index[e].file)
       \/ "db" \in Faults /\ UNCHANGED row
    /\ ToIndex(e, "done")

IndexStep(e) ==
    \/ ListFile(e) \/ FindRow(e) \/ InsertFile(e)
    \/ ReplaceMetadata(e) \/ StampIndexed(e)

-----------------------------------------------------------------------------
(* Everybody together. *)

WalkInit ==
    /\ Init
    /\ refresh = [e \in Refreshes |-> IdleRefresh]
    /\ index = [e \in Indexes |-> IdleIndex]

(* The end of the process ends its walks as well.                          *)
FileStep ==
    \/ /\ Request \/ Surroundings
       /\ refresh' = Beside(refresh)
       /\ UNCHANGED index
    \/ /\ Restart
       /\ refresh' = [e \in Refreshes |-> IdleRefresh]
       /\ index' = [e \in Indexes |-> IdleIndex]

RefreshEntry(e) == UNCHANGED <<disk, op, now, writes, index>> /\ RefreshStep(e)

IndexEntry(e) ==
    UNCHANGED <<disk, op, now, writes>> /\ IndexStep(e) /\ refresh' = Beside(refresh)

WalkNext ==
    \/ FileStep
    \/ \E e \in Refreshes : RefreshEntry(e)
    \/ \E e \in Indexes : IndexEntry(e)

WalkSpec == WalkInit /\ [][WalkNext]_allVars

(* Somebody keeps re-indexing and indexing, and every entry of a walk that *)
(* runs gets its turn.                                                     *)
FairWalkSpec ==
    /\ WalkSpec
    /\ \A e \in Refreshes : WF_allVars(RefreshEntry(e))
    /\ \A e \in Indexes : WF_allVars(IndexEntry(e))

-----------------------------------------------------------------------------
(* Safety *)

(* A row says of its file what the disk says.                              *)
Agrees(u) ==
    LET found == disk[row[u].path] IN
    /\ row[u].missing <=> ~found.present
    /\ found.present => row[u].stamp = found.stamp

(* A refresh that nobody disturbed heals its row, whatever failures and    *)
(* races have left in it: a file that is gone is marked, one that has come *)
(* back is no longer marked, one that has changed is measured again.       *)
RefreshHeals ==
    \A e \in Refreshes :
        refresh[e].pc = "done" /\ refresh[e].alone => Agrees(e[2])

(* FR-FC-25: what the owner wrote stays until the owner writes again.      *)
OwnerEditsStand ==
    [][\A u \in Files :
          InCatalog(u) /\ row[u].title = "owner" /\ InCatalog(u)'
              => row'[u].title = "owner"]_allVars

-----------------------------------------------------------------------------
(* Liveness *)

Quiet == \A c \in Callers : op[c].pc = "idle"

Uncataloged(p) == disk[p].present /\ RowsAt(p) = {}

(* Once requests stop, walks that go on make the catalog agree with the    *)
(* disk for good: the rows they refresh with their files, and the files    *)
(* they index with rows, as long as there are fresh uuids.                 *)
Settled ==
    /\ \A e \in Refreshes : InCatalog(e[2]) => Agrees(e[2])
    /\ \A e \in Indexes :
          Uncataloged(e[2]) => \A u \in Files : row[u].state # "none"

CatalogConverges == <>[]Quiet => <>[]Settled
=============================================================================

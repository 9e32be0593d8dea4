---------------------------- MODULE FileLifecycle ----------------------------
(***************************************************************************)
(* The operations on one file of the library: soft delete, restore, hard   *)
(* purge, purge on disk, rename, edit of the content and edit of the       *)
(* metadata.                                                               *)
(*                                                                         *)
(* Two stores are involved and no transaction spans them: the files table  *)
(* and the disk.  Every handler reads the row first, decides on what it    *)
(* read, and then takes its steps one await at a time, so two requests     *)
(* interleave anywhere between the lookup and the last statement.  A       *)
(* statement of the repository is one transaction and one action, and so   *)
(* is a system call.                                                       *)
(***************************************************************************)
EXTENDS Integers

CONSTANTS
    Files,      \* uuids of rows
    Cataloged,  \* the rows that exist at the start
    Paths,      \* paths of one folder of the library
    Contents,   \* what an edit may write
    Callers,    \* requests that may be in flight at the same time
    Verbs,      \* what callers ask: a subset of AllVerbs
    Targets,    \* the paths a caller renames a file to
    Retention,  \* deletion.retention_days
    MaxTime,    \* bound on the clock
    MaxWrites,  \* bound on the writes that give a file a new stat
    Faults      \* what may go wrong: a subset of FaultKinds

-----------------------------------------------------------------------------
(* Types *)

AllVerbs == {"soft_delete", "restore", "purge", "purge_on_disk", "rename",
             "edit_content", "edit_metadata"}

(* db        a statement fails and changes nothing                         *)
(* reread    the SELECT that follows a committed rename fails              *)
(* disk      a system call fails; a write may leave the file half written  *)
(* stuck     moving a file back after a failed rename fails too            *)
(* external  somebody else creates, changes or removes files               *)
(* crash     the process ends and is started again                         *)
FaultKinds == {"db", "reread", "disk", "stuck", "external", "crash"}

ASSUME NonemptyAssumption == Files # {} /\ Paths # {}
ASSUME CatalogedAssumption == Cataloged \subseteq Files
ASSUME VerbsAssumption == Verbs \subseteq AllVerbs
ASSUME TargetsAssumption == Targets \in [Callers -> [Files -> SUBSET Paths]]
ASSUME RetentionAssumption == Retention \in Nat
ASSUME BoundsAssumption == MaxTime \in Nat /\ MaxWrites \in Nat
ASSUME FaultsAssumption == Faults \subseteq FaultKinds

(* A row that is not in the catalog and a request that is not in flight    *)
(* still have these fields.                                                *)
SomePath == CHOOSE p \in Paths : TRUE
SomeFile == CHOOSE u \in Files : TRUE

(* One unit of time is a day.                                              *)
Times == 0..MaxTime
Never == -1

(* A file's size and mtime: every write of the file gives it a new pair.   *)
Stamps == 0..MaxWrites

(* What a file may hold: what the indexer found, what an edit wrote, or    *)
(* something else (a torn write, a change from outside).  A hash stands    *)
(* for the bytes it is the hash of.                                        *)
Original == "original"
Other == "other"
NoHash == "no hash"
Bytes == Contents \cup {Original, Other}

(* Which file this is, whatever path it is at: that of the row it was      *)
(* indexed for, or the write that created it.                              *)
Ids == Files \cup Stamps

(* In FileLibrary: there is no file at a path.                             *)
Nobody == "nobody"

ASSUME IdsAssumption == Files \cap Stamps = {} /\ Nobody \notin Files

DiskType == [present : BOOLEAN, id : Ids, bytes : Bytes, stamp : Stamps]

Absent == [present |-> FALSE, id |-> 0, bytes |-> Original, stamp |-> 0]

RowType == [state : {"none", "active", "deleted", "purged"}, path : Paths,
            deletedAt : Times \cup {Never}, hash : Bytes \cup {NoHash},
            stamp : Stamps, missing : BOOLEAN,
            title : {"empty", "tag", "owner"}, extracted : BOOLEAN]

OpPCs == {"idle", "write", "remove", "cataloged", "exists", "move", "reread",
          "rollback", "save", "verify", "resave", "reverify", "stat", "record"}

OpType == [verb : AllVerbs, pc : OpPCs, file : Files, path : Paths,
           target : Paths, deletedAt : Times \cup {Never}, at : Times,
           content : Bytes, stamp : Stamps]

VARIABLES
    row,     \* the files table and each row's subtype row
    disk,    \* the library's folder
    op,      \* the requests in flight
    now,     \* the clock
    writes   \* how many writes have given a file a new stat

vars == <<row, disk, op, now, writes>>

TypeOK ==
    /\ row \in [Files -> RowType]
    /\ disk \in [Paths -> DiskType]
    /\ op \in [Callers -> OpType]
    /\ now \in Times
    /\ writes \in Stamps

-----------------------------------------------------------------------------
(* The statements of CatalogRepository, as functions of a row. *)

InCatalog(u) == row[u].state \in {"active", "deleted"}

RowsAt(p) == {u \in Files : InCatalog(u) /\ row[u].path = p}

NewRow(p, stamp) ==
    [state |-> "active", path |-> p, deletedAt |-> Never, hash |-> NoHash,
     stamp |-> stamp, missing |-> FALSE, title |-> "empty", extracted |-> FALSE]

SoftDeleted(rw, at) == [rw EXCEPT !.state = "deleted", !.deletedAt = at]

Restored(rw) == [rw EXCEPT !.state = "active", !.deletedAt = Never]

PurgedRow == [NewRow(SomePath, 0) EXCEPT !.state = "purged"]

Renamed(rw, p) == [rw EXCEPT !.path = p]

Rehashed(rw, hash, stamp) ==
    [rw EXCEPT !.hash = hash, !.stamp = stamp, !.missing = FALSE]

Retitled(rw) == [rw EXCEPT !.title = "owner"]

UpdateRow(u, rw) == row' = [row EXCEPT ![u] = rw]

(* UPDATE ... WHERE path = ?, with what it makes of each row.              *)
UpdatePath(p, changed) ==
    row' = [u \in Files |-> IF u \in RowsAt(p) THEN changed[u] ELSE row[u]]

-----------------------------------------------------------------------------
(* The system calls of StdFilesystem. *)

(* rename(2) replaces whatever is at the target.                           *)
Moved(from, to) == [disk EXCEPT ![to] = disk[from], ![from] = Absent]

WriteFile(p, bytes) ==
    /\ writes < MaxWrites
    /\ writes' = writes + 1
    /\ disk' = [disk EXCEPT ![p] =
          [present |-> TRUE, bytes |-> bytes, stamp |-> writes + 1,
           id |-> IF @.present THEN @.id ELSE writes + 1]]

-----------------------------------------------------------------------------
(* The start: every cataloged row has its file at a path of its own.       *)

IdleOp ==
    [verb |-> "soft_delete", pc |-> "idle", file |-> SomeFile, path |-> SomePath,
     target |-> SomePath, deletedAt |-> Never, at |-> 0,
     content |-> Original, stamp |-> 0]

Init ==
    /\ \E place \in [Cataloged -> Paths] :
          /\ \A u, v \in Cataloged : place[u] = place[v] => u = v
          /\ row = [u \in Files |->
                IF u \in Cataloged
                  THEN [NewRow(place[u], 0) EXCEPT !.extracted = TRUE]
                  ELSE [NewRow(SomePath, 0) EXCEPT !.state = "none"]]
          /\ disk = [p \in Paths |->
                IF \E u \in Cataloged : place[u] = p
                  THEN [present |-> TRUE, bytes |-> Original, stamp |-> 0,
                        id |-> CHOOSE u \in Cataloged : place[u] = p]
                  ELSE Absent]
    /\ op = [c \in Callers |-> IdleOp]
    /\ now = 0
    /\ writes = 0

-----------------------------------------------------------------------------
(* A request: the handler reads the row and refuses what its state forbids. *)
(* A request that is refused changes nothing and is left out.              *)

Elapsed(u) == now - row[u].deletedAt

Restorable(u) == row[u].state = "deleted" /\ Elapsed(u) <= Retention

PurgeableInclusive(u) == row[u].state = "deleted" /\ Elapsed(u) >= Retention

Purgeable(u) == row[u].state = "deleted" /\ Elapsed(u) > Retention

Admits(verb, u) ==
    \/ verb \in {"soft_delete", "rename", "edit_content", "edit_metadata"}
       /\ row[u].state = "active"
    \/ verb = "restore" /\ Restorable(u)
    \/ verb = "purge" /\ Purgeable(u)
    \/ verb = "purge_on_disk" /\ InCatalog(u)

FirstPC(verb) ==
    CASE verb = "rename"        -> "cataloged"
      [] verb = "edit_content"  -> "save"
      [] verb = "purge_on_disk" -> "remove"
      [] OTHER                  -> "write"

Ask(c, verb, u, target, content) ==
    /\ op[c].pc = "idle"
    /\ Admits(verb, u)
    /\ IF verb = "rename"
         THEN target \in Targets[c][u] /\ target # row[u].path
         ELSE target = row[u].path
    /\ verb # "edit_content" => content = Original
    /\ verb = "edit_content" => content \in Contents
    /\ op' = [op EXCEPT ![c] =
          [verb |-> verb, pc |-> FirstPC(verb), file |-> u,
           path |-> row[u].path, target |-> target,
           deletedAt |-> row[u].deletedAt, at |-> now,
           content |-> content, stamp |-> 0]]
    /\ UNCHANGED <<row, disk, now, writes>>

At(c, verb, pc) == op[c].verb = verb /\ op[c].pc = pc
GoTo(c, pc) == op' = [op EXCEPT ![c].pc = pc]
Answer(c) == op' = [op EXCEPT ![c] = IdleOp]

(* A statement that fails, or that finds the row gone, changes nothing.    *)
Refused(c) == "db" \in Faults \/ ~InCatalog(op[c].file)

-----------------------------------------------------------------------------
(* Soft delete, restore, hard purge and the edit of the metadata: one      *)
(* statement after the lookup, which checks nothing again.                 *)

OneStatement(c, verb, rw) ==
    /\ At(c, verb, "write")
    /\ \/ InCatalog(op[c].file) /\ UpdateRow(op[c].file, rw)
       \/ Refused(c) /\ UNCHANGED row
    /\ Answer(c)
    /\ UNCHANGED <<disk, now, writes>>

SoftDelete(c) ==
    OneStatement(c, "soft_delete", SoftDeleted(row[op[c].file], op[c].at))

Restore(c) == OneStatement(c, "restore", Restored(row[op[c].file]))

Purge(c) == OneStatement(c, "purge", PurgedRow)

EditMetadata(c) == OneStatement(c, "edit_metadata", Retitled(row[op[c].file]))

-----------------------------------------------------------------------------
(* Purge on disk: the file first, then the row. *)

RemoveFile(c) ==
    /\ At(c, "purge_on_disk", "remove")
    /\ \/ /\ disk' = [disk EXCEPT ![op[c].path] = Absent]
          /\ GoTo(c, "write")
       \/ /\ "disk" \in Faults
          /\ Answer(c)
          /\ UNCHANGED disk
    /\ UNCHANGED <<row, now, writes>>

PurgeRow(c) == OneStatement(c, "purge_on_disk", PurgedRow)

-----------------------------------------------------------------------------
(* Rename: two checks of the target, the file, the row, and the file moved *)
(* back when the repository answers with an error.                         *)

FindTarget(c) ==
    /\ At(c, "rename", "cataloged")
    /\ \/ RowsAt(op[c].target) \subseteq {op[c].file} /\ GoTo(c, "exists")
       \/ /\ "db" \in Faults \/ RowsAt(op[c].target) \ {op[c].file} # {}
          /\ Answer(c)
    /\ UNCHANGED <<row, disk, now, writes>>

ProbeTargetNever(c) ==
    /\ At(c, "rename", "exists")
    /\ GoTo(c, "move")
    /\ UNCHANGED <<row, disk, now, writes>>

ProbeTarget(c) ==
    /\ At(c, "rename", "exists")
    /\ IF disk[op[c].target].present THEN Answer(c) ELSE GoTo(c, "move")
    /\ UNCHANGED <<row, disk, now, writes>>

MoveFile(c) ==
    /\ At(c, "rename", "move")
    /\ \/ /\ disk[op[c].path].present
          /\ disk' = Moved(op[c].path, op[c].target)
          /\ GoTo(c, "write")
       \/ /\ "disk" \in Faults \/ ~disk[op[c].path].present
          /\ Answer(c)
          /\ UNCHANGED disk
    /\ UNCHANGED <<row, now, writes>>

(* The unique path refuses a target another row has taken meanwhile.       *)
RenameRow(c) ==
    LET u == op[c].file
        taken == RowsAt(op[c].target) \ {u} # {}
    IN
    /\ At(c, "rename", "write")
    /\ \/ /\ InCatalog(u) /\ ~taken
          /\ UpdateRow(u, Renamed(row[u], op[c].target))
          /\ GoTo(c, "reread")
       \/ /\ Refused(c) \/ taken
          /\ GoTo(c, "rollback")
          /\ UNCHANGED row
    /\ UNCHANGED <<disk, now, writes>>

(* rename_file reads the row it has committed, and answers an error when   *)
(* that read fails or the row is gone.                                     *)
RereadRow(c) ==
    /\ At(c, "rename", "reread")
    /\ \/ InCatalog(op[c].file) /\ Answer(c)
       \/ /\ "reread" \in Faults \/ ~InCatalog(op[c].file)
          /\ GoTo(c, "rollback")
    /\ UNCHANGED <<row, disk, now, writes>>

RollBackForgotten(c) ==
    /\ At(c, "rename", "rollback")
    /\ Answer(c)
    /\ UNCHANGED <<row, disk, now, writes>>

RollBack(c) ==
    /\ At(c, "rename", "rollback")
    /\ \/ /\ disk[op[c].target].present
          /\ disk' = Moved(op[c].target, op[c].path)
       \/ /\ "stuck" \in Faults \/ ~disk[op[c].target].present
          /\ UNCHANGED disk
    /\ Answer(c)
    /\ UNCHANGED <<row, now, writes>>

-----------------------------------------------------------------------------
(* Edit of the content: write, verify (and once more if the bytes differ), *)
(* stat, and record what was verified at the path the row had.             *)

SaveContent(c) ==
    /\ op[c].verb = "edit_content" /\ op[c].pc \in {"save", "resave"}
    /\ \/ /\ WriteFile(op[c].path, op[c].content)
          /\ GoTo(c, IF op[c].pc = "save" THEN "verify" ELSE "reverify")
       \/ /\ "disk" \in Faults
          /\ Answer(c)
          /\ \/ UNCHANGED <<disk, writes>>
             \/ WriteFile(op[c].path, Other)
    /\ UNCHANGED <<row, now>>

VerifyContent(c) ==
    LET found == disk[op[c].path] IN
    /\ op[c].verb = "edit_content" /\ op[c].pc \in {"verify", "reverify"}
    /\ \/ found.present /\ found.bytes = op[c].content /\ GoTo(c, "stat")
       \/ /\ found.present /\ found.bytes # op[c].content
          /\ IF op[c].pc = "verify" THEN GoTo(c, "resave") ELSE Answer(c)
       \/ ("disk" \in Faults \/ ~found.present) /\ Answer(c)
    /\ UNCHANGED <<row, disk, now, writes>>

StatContent(c) ==
    LET found == disk[op[c].path] IN
    /\ At(c, "edit_content", "stat")
    /\ \/ /\ found.present
          /\ op' = [op EXCEPT ![c].pc = "record", ![c].stamp = found.stamp]
       \/ ("disk" \in Faults \/ ~found.present) /\ Answer(c)
    /\ UNCHANGED <<row, disk, now, writes>>

RecordContent(c) ==
    /\ At(c, "edit_content", "record")
    /\ \/ UpdatePath(op[c].path,
              [u \in Files |-> Rehashed(row[u], op[c].content, op[c].stamp)])
       \/ "db" \in Faults /\ UNCHANGED row
    /\ Answer(c)
    /\ UNCHANGED <<disk, now, writes>>

-----------------------------------------------------------------------------
(* The world around: time, other programs, the end of the process. *)

Tick ==
    /\ now < MaxTime
    /\ now' = now + 1
    /\ UNCHANGED <<row, disk, op, writes>>

External(p) ==
    /\ "external" \in Faults
    /\ \/ WriteFile(p, Other)
       \/ /\ disk[p].present
          /\ disk' = [disk EXCEPT ![p] = Absent]
          /\ UNCHANGED writes
    /\ UNCHANGED <<row, op, now>>

Restart ==
    /\ "crash" \in Faults
    /\ op' = [c \in Callers |-> IdleOp]
    /\ UNCHANGED <<row, disk, now, writes>>

OpStep(c) ==
    \/ SoftDelete(c) \/ Restore(c) \/ Purge(c) \/ EditMetadata(c)
    \/ RemoveFile(c) \/ PurgeRow(c)
    \/ FindTarget(c) \/ ProbeTarget(c) \/ MoveFile(c) \/ RenameRow(c)
    \/ RereadRow(c) \/ RollBack(c)
    \/ SaveContent(c) \/ VerifyContent(c) \/ StatContent(c) \/ RecordContent(c)

Request ==
    \E c \in Callers :
        \/ \E verb \in Verbs, u \in Files, p \in Paths, content \in Bytes :
              Ask(c, verb, u, p, content)
        \/ OpStep(c)

Surroundings == Tick \/ \E p \in Paths : External(p)

Next == Request \/ Surroundings \/ Restart

Spec == Init /\ [][Next]_vars

(* The steps of requests to rename, to soft-delete and to restore, and no  *)
(* other.                                                                  *)
RenamesNext ==
    \E c \in Callers :
        \/ \E verb \in Verbs, u \in Files, p \in Paths : Ask(c, verb, u, p, Original)
        \/ SoftDelete(c) \/ Restore(c)
        \/ FindTarget(c) \/ ProbeTarget(c) \/ MoveFile(c) \/ RenameRow(c)
        \/ RereadRow(c) \/ RollBack(c)

RenamesSpec == Init /\ [][RenamesNext]_vars

-----------------------------------------------------------------------------
(* Safety *)

(* A row is stamped with a time of deletion exactly while it is deleted,   *)
(* and no two rows of the catalog have one path: restore clears what soft  *)
(* delete stamped, and a rename that lost the race for its target is       *)
(* refused by the table.                                                   *)
RowsSound ==
    /\ \A u \in Files : (row[u].state = "deleted") <=> (row[u].deletedAt # Never)
    /\ \A u, v \in Files :
          InCatalog(u) /\ InCatalog(v) /\ row[u].path = row[v].path => u = v

(* The windows of restore and of the hard purge are complements: of two    *)
(* requests in flight about the same deletion, the restore was let in      *)
(* before the purge, never at the same time and never after it.            *)
WindowsDisjoint ==
    \A c, d \in Callers :
        (/\ At(c, "restore", "write") /\ At(d, "purge", "write")
         /\ op[c].file = op[d].file /\ op[c].deletedAt = op[d].deletedAt)
            => op[c].at < op[d].at

(* A rename of u has moved the file and not yet settled the row.           *)
Moving(u) ==
    \E c \in Callers :
        /\ op[c].verb = "rename" /\ op[c].file = u
        /\ op[c].pc \in {"write", "rollback"}

(* The catalog and the disk agree: but for the moments between the two     *)
(* halves of its rename, a row's own file is at the row's path, whichever  *)
(* step of a rename failed and whatever the other requests do.             *)
RowsFollowFiles ==
    \A u \in Files :
        InCatalog(u) /\ ~Moving(u)
            => disk[row[u].path].present /\ disk[row[u].path].id = u

(* The folder with the moves undone whose rename has yet to settle its row. *)
MovingFrom(p) == {u \in Files : Moving(u) /\ row[u].path = p}

Folder ==
    [p \in Paths |->
        IF MovingFrom(p) # {} THEN CHOOSE u \in MovingFrom(p) : TRUE
        ELSE IF disk[p].present /\ ~Moving(disk[p].id) THEN disk[p].id
        ELSE Nobody]

(* Renames are atomic: what the catalog lists and where the files lie go   *)
(* from one arrangement to the next in one step, or not at all, whichever  *)
(* statement or system call of a rename fails (rename.rs).  RowsFollowFiles *)
(* says what this means for one row.                                       *)
Library == INSTANCE FileLibrary WITH
    state <- [u \in Files |-> row[u].state],
    listed <- [u \in Files |-> row[u].path],
    folder <- Folder

RenamesAreAtomic == Library!Spec

OnDisk(id) == \E p \in Paths : disk[p].present /\ disk[p].id = id

(* No file of the library is lost: one goes only when a request to purge   *)
(* it on disk removes it, or somebody else does.                           *)
NoFileLost ==
    [][\A id \in Ids :
          OnDisk(id) /\ ~OnDisk(id)'
              => \/ \E c \in Callers :
                       RemoveFile(c) /\ id \notin Files \ {op[c].file}
                 \/ \E p \in Paths : External(p)]_vars

(* FR-FC-10: a row whose stat is that of the file on disk never carries    *)
(* the hash of other bytes.                                                *)
HashDescribesBytes ==
    \A u \in Files :
        LET found == disk[row[u].path] IN
        (/\ InCatalog(u) /\ row[u].hash # NoHash
         /\ found.present /\ found.stamp = row[u].stamp)
            => found.bytes = row[u].hash

(* A hard purge removes deleted rows only.                                 *)
PurgesDeletedOnly ==
    [][\A c \in Callers :
          Purge(c) /\ row'[op[c].file].state = "purged"
              => row[op[c].file].state = "deleted"]_vars
=============================================================================

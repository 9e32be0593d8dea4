------------------------------ MODULE FilesProofs ------------------------------
(***************************************************************************)
(* Theorems about FileLifecycle and CatalogWalk: for every set of rows,    *)
(* paths, callers and walks, every retention and every set of faults.      *)
(***************************************************************************)
EXTENDS CatalogWalk, TLAPS

(* The times and the stamps are numbers, and -1 is no time.                *)
LEMMA Numbers ==
    /\ Times \subseteq Int /\ Never \in Int /\ Never \notin Times /\ 0 \in Times
    /\ Stamps \subseteq Int /\ 0 \in Stamps /\ 0 \in Ids
    /\ \A t \in Times : t < MaxTime => t + 1 \in Times
    /\ \A n \in Stamps : n < MaxWrites => n + 1 \in Stamps /\ n + 1 \in Ids
    /\ Retention \in Int
BY BoundsAssumption, RetentionAssumption DEF Times, Stamps, Never, Ids

(* What stands for no row, no file and no request has its type.            *)
LEMMA Defaults ==
    /\ SomePath \in Paths
    /\ SomeFile \in Files
    /\ Absent \in DiskType
    /\ IdleOp \in OpType /\ IdleOp.pc = "idle"
    /\ \A p \in Paths, s \in Stamps : NewRow(p, s) \in RowType
    /\ PurgedRow \in RowType
<1>1. SomePath \in Paths
    BY NonemptyAssumption DEF SomePath
<1>2. SomeFile \in Files
    BY NonemptyAssumption DEF SomeFile
<1>3. Absent \in DiskType
    BY Numbers DEF Absent, DiskType, Bytes
<1>4. IdleOp \in OpType /\ IdleOp.pc = "idle"
    BY <1>1, <1>2, Numbers DEF IdleOp, OpType, OpPCs, AllVerbs, Bytes
<1>5. \A p \in Paths, s \in Stamps : NewRow(p, s) \in RowType
    BY DEF NewRow, RowType
<1>6. PurgedRow \in RowType
    BY <1>1, <1>5, Numbers DEF PurgedRow, NewRow, RowType
<1>. QED
    BY <1>1, <1>2, <1>3, <1>4, <1>5, <1>6

(* The statements of FileLifecycle, as functions of a row.                 *)
LEMMA RowStatements ==
    ASSUME NEW rw \in RowType, NEW t \in Times, NEW p \in Paths,
           NEW h \in Bytes, NEW s \in Stamps
    PROVE  /\ SoftDeleted(rw, t) \in RowType
           /\ Restored(rw) \in RowType
           /\ Renamed(rw, p) \in RowType
           /\ Rehashed(rw, h, s) \in RowType
           /\ Retitled(rw) \in RowType
BY DEF SoftDeleted, Restored, Renamed, Rehashed, Retitled, RowType

(* And those of CatalogWalk.                                               *)
LEMMA WalkStatements ==
    ASSUME NEW rw \in RowType, NEW s \in Stamps, NEW t \in {"empty", "tag"}
    PROVE  /\ MissedRow(rw) \in RowType
           /\ Restatted(rw, s) \in RowType
           /\ Filled(rw) \in RowType
           /\ [rw EXCEPT !.extracted = TRUE] \in RowType
           /\ [rw EXCEPT !.title = t] \in RowType
BY DEF MissedRow, Restatted, Filled, RowType

(* A request moves on or is answered.                                      *)
LEMMA OpMoves ==
    ASSUME TypeOK, NEW c \in Callers, NEW pc \in OpPCs,
           GoTo(c, pc) \/ Answer(c)
    PROVE  op' \in [Callers -> OpType]
<1>1. [op[c] EXCEPT !.pc = pc] \in OpType
    BY DEF TypeOK, OpType
<1>. QED
    BY <1>1, Defaults DEF TypeOK, GoTo, Answer

(* A row is replaced by a row, by its uuid or by its path.                 *)
LEMMA RowMoves ==
    ASSUME row \in [Files -> RowType], NEW u \in Files, NEW rw \in RowType, UpdateRow(u, rw)
    PROVE  row' \in [Files -> RowType]
BY DEF UpdateRow

(* The rows of a path are each replaced by a row.                          *)
LEMMA RowsMove ==
    ASSUME row \in [Files -> RowType], NEW p, NEW changed,
           \A u \in Files : changed[u] \in RowType, UpdatePath(p, changed)
    PROVE  row' \in [Files -> RowType]
BY DEF UpdatePath

(* The disk stays a disk.                                                  *)
LEMMA WriteMoves ==
    ASSUME TypeOK, NEW p \in Paths, NEW b \in Bytes, WriteFile(p, b)
    PROVE  disk' \in [Paths -> DiskType] /\ writes' \in Stamps
<1>. DEFINE file == [present |-> TRUE, bytes |-> b, stamp |-> writes + 1,
                     id |-> IF disk[p].present THEN disk[p].id ELSE writes + 1]
<1>1. writes + 1 \in Stamps /\ writes + 1 \in Ids
    BY Numbers DEF TypeOK, WriteFile
<1>2. disk[p].id \in Ids
    BY DEF TypeOK, DiskType
<1>3. file \in DiskType
    BY <1>1, <1>2 DEF DiskType
<1>4. disk' = [disk EXCEPT ![p] = file] /\ writes' = writes + 1
    BY DEF WriteFile
<1>. HIDE DEF file
<1>. QED
    BY <1>1, <1>3, <1>4 DEF TypeOK

(* A move on the disk leaves a file, or none, at every path.               *)
LEMMA MoveMoves ==
    ASSUME TypeOK, NEW p \in Paths, NEW q \in Paths
    PROVE  Moved(p, q) \in [Paths -> DiskType]
BY Defaults DEF TypeOK, Moved

-----------------------------------------------------------------------------
(* Types *)

(* The start: the rows that are cataloged have a file each.                *)
LEMMA InitTypes == Init => TypeOK
<1>. SUFFICES ASSUME Init PROVE TypeOK
    OBVIOUS
<1>1. PICK place \in [Cataloged -> Paths] :
          /\ \A u, v \in Cataloged : place[u] = place[v] => u = v
          /\ row = [u \in Files |->
                IF u \in Cataloged
                  THEN [NewRow(place[u], 0) EXCEPT !.extracted = TRUE]
                  ELSE [NewRow(SomePath, 0) EXCEPT !.state = "none"]]
          /\ disk = [p \in Paths |->
                IF \E u \in Cataloged : place[u] = p
                  THEN [present |-> TRUE, bytes |-> Original, stamp |-> 0,
                        id |-> CHOOSE u \in Cataloged : place[u] = p]
                  ELSE Absent]
    BY DEF Init
<1>2. \A p \in Paths : /\ [NewRow(p, 0) EXCEPT !.extracted = TRUE] \in RowType
                       /\ [NewRow(p, 0) EXCEPT !.state = "none"] \in RowType
    BY Numbers DEF NewRow, RowType
<1>3. row \in [Files -> RowType]
    BY <1>1, <1>2, Defaults
<1>4. ASSUME NEW p \in Paths, \E u \in Cataloged : place[u] = p
      PROVE  [present |-> TRUE, bytes |-> Original, stamp |-> 0,
              id |-> CHOOSE u \in Cataloged : place[u] = p] \in DiskType
    BY <1>4, Numbers, CatalogedAssumption DEF DiskType, Bytes, Ids
<1>5. disk \in [Paths -> DiskType]
    BY <1>1, <1>4, Defaults
<1>. QED
    BY <1>3, <1>5, Defaults, Numbers DEF TypeOK, Init

(* One statement after the lookup.                                         *)
LEMMA StatementTypes ==
    ASSUME TypeOK, NEW c \in Callers, NEW verb, NEW rw \in RowType,
           OneStatement(c, verb, rw)
    PROVE  TypeOK'
<1>1. op[c].file \in Files
    BY DEF TypeOK, OpType
<1>2. row' \in [Files -> RowType]
    BY <1>1, RowMoves DEF OneStatement, TypeOK
<1>3. op' \in [Callers -> OpType]
    BY OpMoves DEF OneStatement, OpPCs
<1>. QED
    BY <1>2, <1>3 DEF OneStatement, TypeOK

(* Every statement of a request keeps the types.                           *)
LEMMA OpStepTypes ==
    ASSUME TypeOK, NEW c \in Callers, OpStep(c)
    PROVE  TypeOK'
<1>0. op[c] \in OpType /\ op[c].file \in Files /\ row[op[c].file] \in RowType
      /\ op[c].at \in Times /\ op[c].path \in Paths /\ op[c].target \in Paths
      /\ op[c].content \in Bytes /\ op[c].stamp \in Stamps /\ Other \in Bytes
    BY DEF TypeOK, OpType, Bytes
<1>1. CASE SoftDelete(c) \/ Restore(c) \/ Purge(c) \/ EditMetadata(c) \/ PurgeRow(c)
    BY <1>0, <1>1, StatementTypes, RowStatements, Defaults
       DEF SoftDelete, Restore, Purge, EditMetadata, PurgeRow
<1>2. CASE RemoveFile(c)
    <2>1. op' \in [Callers -> OpType]
        BY <1>2, OpMoves DEF RemoveFile, OpPCs
    <2>. QED
        BY <1>2, <2>1, Defaults DEF RemoveFile, TypeOK
<1>3. CASE FindTarget(c) \/ ProbeTarget(c) \/ RereadRow(c) \/ VerifyContent(c)
    <2>1. op' \in [Callers -> OpType]
        BY <1>3, OpMoves DEF FindTarget, ProbeTarget, RereadRow, VerifyContent, OpPCs
    <2>. QED
        BY <1>3, <2>1 DEF FindTarget, ProbeTarget, RereadRow, VerifyContent, TypeOK
<1>4. CASE MoveFile(c) \/ RollBack(c)
    <2>1. op' \in [Callers -> OpType]
        BY <1>4, OpMoves DEF MoveFile, RollBack, OpPCs
    <2>. QED
        BY <1>0, <1>4, <2>1, MoveMoves DEF MoveFile, RollBack, TypeOK
<1>5. CASE RenameRow(c)
    <2>1. op' \in [Callers -> OpType]
        BY <1>5, OpMoves DEF RenameRow, OpPCs
    <2>2. row' \in [Files -> RowType]
        BY <1>0, <1>5, RowMoves, RowStatements DEF RenameRow, TypeOK
    <2>. QED
        BY <1>5, <2>1, <2>2 DEF RenameRow, TypeOK
<1>6. CASE SaveContent(c)
    <2>1. op' \in [Callers -> OpType]
        BY <1>6, OpMoves DEF SaveContent, OpPCs
    <2>2. disk' \in [Paths -> DiskType] /\ writes' \in Stamps
        BY <1>0, <1>6, WriteMoves DEF SaveContent, TypeOK
    <2>. QED
        BY <1>6, <2>1, <2>2 DEF SaveContent, TypeOK
<1>7. CASE StatContent(c)
    <2>1. CASE Answer(c)
        <3>1. op' \in [Callers -> OpType]
            BY <2>1, OpMoves DEF OpPCs
        <3>. QED
            BY <1>7, <3>1 DEF StatContent, TypeOK
    <2>2. CASE op' = [op EXCEPT ![c].pc = "record", ![c].stamp = disk[op[c].path].stamp]
        <3>1. disk[op[c].path].stamp \in Stamps
            BY <1>0 DEF TypeOK, DiskType
        <3>2. [op[c] EXCEPT !.pc = "record", !.stamp = disk[op[c].path].stamp] \in OpType
            BY <1>0, <3>1 DEF OpType, OpPCs
        <3>3. op' \in [Callers -> OpType]
            BY <2>2, <3>2 DEF TypeOK
        <3>. QED
            BY <1>7, <3>3 DEF StatContent, TypeOK
    <2>. QED
        BY <1>7, <2>1, <2>2 DEF StatContent
<1>8. CASE RecordContent(c)
    <2>1. op' \in [Callers -> OpType]
        BY <1>8, OpMoves DEF RecordContent, OpPCs
    <2>. DEFINE changed == [u \in Files |-> Rehashed(row[u], op[c].content, op[c].stamp)]
    <2>2. \A u \in Files : changed[u] \in RowType
        BY <1>0, RowStatements DEF TypeOK
    <2>3. UpdatePath(op[c].path, changed) \/ UNCHANGED row
        BY <1>8 DEF RecordContent
    <2>. HIDE DEF changed
    <2>4. row' \in [Files -> RowType]
        BY <2>2, <2>3, RowsMove DEF TypeOK
    <2>. QED
        BY <1>8, <2>1, <2>4 DEF RecordContent, TypeOK
<1>. QED
    BY <1>1, <1>2, <1>3, <1>4, <1>5, <1>6, <1>7, <1>8 DEF OpStep

(* A new request keeps the types.                                          *)
LEMMA AskTypes ==
    ASSUME TypeOK, NEW c \in Callers, NEW verb \in Verbs, NEW u \in Files,
           NEW p \in Paths, NEW content \in Bytes, Ask(c, verb, u, p, content)
    PROVE  TypeOK'
<1>. DEFINE new == [verb |-> verb, pc |-> FirstPC(verb), file |-> u,
                    path |-> row[u].path, target |-> p,
                    deletedAt |-> row[u].deletedAt, at |-> now,
                    content |-> content, stamp |-> 0]
<1>1. FirstPC(verb) \in OpPCs
    BY DEF FirstPC, OpPCs
<1>2. row[u].path \in Paths /\ row[u].deletedAt \in Times \cup {Never}
    BY DEF TypeOK, RowType
<1>3. new \in OpType
    BY <1>1, <1>2, Numbers, VerbsAssumption DEF OpType, TypeOK
<1>4. op' = [op EXCEPT ![c] = new] /\ UNCHANGED <<row, disk, now, writes>>
    BY DEF Ask
<1>. HIDE DEF new
<1>. QED
    BY <1>3, <1>4 DEF TypeOK

(* So do the surroundings and a restart.                                   *)
LEMMA RestTypes ==
    ASSUME TypeOK, Surroundings \/ Restart
    PROVE  TypeOK'
<1>1. CASE Tick
    BY <1>1, Numbers DEF Tick, TypeOK
<1>2. ASSUME NEW p \in Paths, External(p) PROVE TypeOK'
    <2>1. Other \in Bytes
        BY DEF Bytes
    <2>2. disk' \in [Paths -> DiskType] /\ writes' \in Stamps
        BY <1>2, <2>1, WriteMoves, Defaults DEF External, TypeOK
    <2>. QED
        BY <1>2, <2>2 DEF External, TypeOK
<1>3. CASE Restart
    BY <1>3, Defaults DEF Restart, TypeOK
<1>. QED
    BY <1>1, <1>2, <1>3 DEF Surroundings

(* Every step of FileLifecycle keeps the types.                            *)
LEMMA NextTypes ==
    ASSUME TypeOK, [Next]_vars
    PROVE  TypeOK'
<1>1. CASE UNCHANGED vars
    BY <1>1 DEF vars, TypeOK
<1>. QED
    BY <1>1, OpStepTypes, AskTypes, RestTypes DEF Next, Request

(* The operations on a file alone: a row stays a row, a file a file.       *)
THEOREM TypeCorrect == Spec => []TypeOK
<1>. QED
    BY InitTypes, NextTypes, PTL DEF Spec

(* The entries beside a step only learn of it.                             *)
LEMMA BesideTypes ==
    ASSUME refresh \in [Refreshes -> RefreshType]
    PROVE  Beside(refresh) \in [Refreshes -> RefreshType]
<1>1. \A e \in Refreshes : [refresh[e] EXCEPT !.alone = FALSE] \in RefreshType
    BY DEF RefreshType
<1>. QED
    BY <1>1 DEF Beside

(* A refresh entry moves on.                                               *)
LEMMA ToRefreshTypes ==
    ASSUME refresh \in [Refreshes -> RefreshType], NEW e \in Refreshes,
           NEW pc \in RefreshPCs, ToRefresh(e, pc)
    PROVE  refresh' \in [Refreshes -> RefreshType]
<1>1. [refresh[e] EXCEPT !.pc = pc] \in RefreshType
    BY DEF RefreshType
<1>. QED
    BY <1>1, BesideTypes DEF ToRefresh

(* Every statement of a refresh entry keeps the types.                     *)
LEMMA RefreshTypes ==
    ASSUME WalkTypeOK, NEW e \in Refreshes, RefreshEntry(e)
    PROVE  WalkTypeOK'
<1>0. /\ e[2] \in Files /\ row[e[2]] \in RowType /\ refresh[e] \in RefreshType
      /\ refresh[e].path \in Paths /\ refresh[e].stamp \in Stamps
      /\ disk[refresh[e].path] \in DiskType
    BY RefreshesAssumption DEF WalkTypeOK, TypeOK, RefreshType
<1>1. UNCHANGED <<disk, op, now, writes, index>> /\ row \in [Files -> RowType]
    BY DEF RefreshEntry, WalkTypeOK, TypeOK
<1>2. ASSUME refresh' \in [Refreshes -> RefreshType], row' \in [Files -> RowType]
      PROVE  WalkTypeOK'
    BY <1>1, <1>2 DEF WalkTypeOK, TypeOK
<1>3. \A pc \in RefreshPCs : ToRefresh(e, pc) => refresh' \in [Refreshes -> RefreshType]
    BY ToRefreshTypes DEF WalkTypeOK
<1>4. CASE ListRow(e)
    <2>. DEFINE new == [pc |-> "stat", path |-> row[e[2]].path, stamp |-> row[e[2]].stamp,
                        missing |-> row[e[2]].missing, extracted |-> row[e[2]].extracted,
                        alone |-> TRUE]
    <2>1. new \in RefreshType
        BY <1>0 DEF RowType, RefreshType, RefreshPCs
    <2>2. refresh' = [refresh EXCEPT ![e] = new] /\ UNCHANGED row
        BY <1>4 DEF ListRow
    <2>. HIDE DEF new
    <2>. QED
        BY <1>1, <1>2, <2>1, <2>2 DEF WalkTypeOK
<1>5. CASE StatRow(e)
    <2>1. [refresh[e] EXCEPT !.pc = "restat", !.stamp = disk[refresh[e].path].stamp] \in RefreshType
        BY <1>0 DEF DiskType, RefreshType, RefreshPCs
    <2>2. ASSUME refresh' = [refresh EXCEPT ![e].pc = "restat", ![e].stamp = disk[refresh[e].path].stamp]
          PROVE  refresh' \in [Refreshes -> RefreshType]
        BY <2>1, <2>2 DEF WalkTypeOK
    <2>3. refresh' \in [Refreshes -> RefreshType]
        BY <1>3, <1>5, <2>2 DEF StatRow, RefreshPCs
    <2>. QED
        BY <1>1, <1>2, <1>5, <2>3 DEF StatRow
<1>6. CASE MarkMissing(e)
    <2>. DEFINE changed == [u \in Files |-> MissedRow(row[u])]
    <2>1. \A u \in Files : changed[u] \in RowType
        BY <1>1, Numbers, WalkStatements
    <2>2. UpdatePath(refresh[e].path, changed) \/ UNCHANGED row
        BY <1>6 DEF MarkMissing, FailRefresh
    <2>. HIDE DEF changed
    <2>3. row' \in [Files -> RowType]
        BY <1>1, <2>1, <2>2, RowsMove
    <2>. QED
        BY <1>2, <1>3, <1>6, <2>3 DEF MarkMissing, FailRefresh, RefreshPCs
<1>7. CASE RefreshStat(e)
    <2>. DEFINE changed == [u \in Files |-> Restatted(row[u], refresh[e].stamp)]
    <2>1. \A u \in Files : changed[u] \in RowType
        BY <1>0, <1>1, WalkStatements
    <2>2. UpdatePath(refresh[e].path, changed) \/ UNCHANGED row
        BY <1>7 DEF RefreshStat, FailRefresh
    <2>. HIDE DEF changed
    <2>3. row' \in [Files -> RowType]
        BY <1>1, <2>1, <2>2, RowsMove
    <2>. QED
        BY <1>2, <1>3, <1>7, <2>3 DEF RefreshStat, FailRefresh, RefreshPCs
<1>8. CASE FillMetadata(e)
    <2>1. row' \in [Files -> RowType]
        BY <1>0, <1>1, <1>8, Numbers, WalkStatements, RowMoves DEF FillMetadata
    <2>. QED
        BY <1>2, <1>3, <1>8, <2>1 DEF FillMetadata, RefreshPCs
<1>9. CASE StampRefreshed(e)
    <2>1. row' \in [Files -> RowType]
        BY <1>0, <1>1, <1>9, Numbers, WalkStatements, RowMoves DEF StampRefreshed, StampRow, FailRefresh
    <2>. QED
        BY <1>2, <1>3, <1>9, <2>1 DEF StampRefreshed, FailRefresh, RefreshPCs
<1>. QED
    BY <1>4, <1>5, <1>6, <1>7, <1>8, <1>9 DEF RefreshEntry, RefreshStep

(* Every statement of an index entry keeps the types.                      *)
LEMMA IndexTypes ==
    ASSUME WalkTypeOK, NEW e \in Indexes, IndexEntry(e)
    PROVE  WalkTypeOK'
<1>0. /\ e[2] \in Paths /\ index[e] \in IndexType /\ index[e].stamp \in Stamps
      /\ index[e].file \in Files /\ row[index[e].file] \in RowType
    BY IndexesAssumption DEF WalkTypeOK, TypeOK, IndexType
<1>1. UNCHANGED <<disk, op, now, writes>> /\ refresh' \in [Refreshes -> RefreshType]
    BY BesideTypes DEF IndexEntry, WalkTypeOK
<1>2. ASSUME index' \in [Indexes -> IndexType], row' \in [Files -> RowType]
      PROVE  WalkTypeOK'
    BY <1>1, <1>2 DEF WalkTypeOK, TypeOK
<1>3. ASSUME NEW pc \in IndexPCs, ToIndex(e, pc) PROVE index' \in [Indexes -> IndexType]
    <2>1. [index[e] EXCEPT !.pc = pc] \in IndexType
        BY DEF WalkTypeOK, IndexType
    <2>. QED
        BY <1>3, <2>1 DEF ToIndex, WalkTypeOK
<1>4. CASE ListFile(e)
    <2>. DEFINE new == [pc |-> "find", stamp |-> disk[e[2]].stamp, file |-> SomeFile]
    <2>1. new \in IndexType
        BY <1>0, Defaults DEF WalkTypeOK, TypeOK, DiskType, IndexType, IndexPCs
    <2>2. index' = [index EXCEPT ![e] = new] /\ UNCHANGED row
        BY <1>4 DEF ListFile
    <2>. HIDE DEF new
    <2>. QED
        BY <1>2, <2>1, <2>2 DEF WalkTypeOK, TypeOK
<1>5. CASE FindRow(e)
    BY <1>2, <1>3, <1>5 DEF FindRow, IndexPCs, WalkTypeOK, TypeOK
<1>6. CASE InsertFile(e)
    <2>1. ASSUME NEW u \in Files, UpdateRow(u, NewRow(e[2], index[e].stamp)),
                 index' = [index EXCEPT ![e].pc = "extract", ![e].file = u]
          PROVE  WalkTypeOK'
        <3>1. [index[e] EXCEPT !.pc = "extract", !.file = u] \in IndexType
            BY <1>0 DEF IndexType, IndexPCs
        <3>2. index' \in [Indexes -> IndexType]
            BY <2>1, <3>1 DEF WalkTypeOK
        <3>3. row' \in [Files -> RowType]
            BY <1>0, <2>1, Defaults, RowMoves DEF WalkTypeOK, TypeOK
        <3>. QED
            BY <1>2, <3>2, <3>3
    <2>2. CASE FailIndex(e)
        BY <1>2, <1>3, <2>2 DEF FailIndex, IndexPCs, WalkTypeOK, TypeOK
    <2>. QED
        BY <1>6, <2>1, <2>2 DEF InsertFile, Inserted
<1>7. CASE ReplaceMetadata(e)
    <2>1. row' \in [Files -> RowType]
        BY <1>0, <1>7, Numbers, WalkStatements, RowMoves DEF ReplaceMetadata, WalkTypeOK, TypeOK
    <2>. QED
        BY <1>2, <1>3, <1>7, <2>1 DEF ReplaceMetadata, IndexPCs
<1>8. CASE StampIndexed(e)
    <2>1. row' \in [Files -> RowType]
        BY <1>0, <1>8, Numbers, WalkStatements, RowMoves DEF StampIndexed, StampRow, WalkTypeOK, TypeOK
    <2>. QED
        BY <1>2, <1>3, <1>8, <2>1 DEF StampIndexed, IndexPCs
<1>. QED
    BY <1>4, <1>5, <1>6, <1>7, <1>8 DEF IndexEntry, IndexStep

(* An entry not yet begun has its type.                                    *)
LEMMA IdleEntries == IdleRefresh \in RefreshType /\ IdleIndex \in IndexType
<1>1. IdleRefresh \in RefreshType
    BY Defaults, Numbers DEF IdleRefresh, RefreshType, RefreshPCs
<1>2. IdleIndex \in IndexType
    BY Defaults, Numbers DEF IdleIndex, IndexType, IndexPCs
<1>. QED
    BY <1>1, <1>2

(* A step of FileLifecycle under the walks keeps the types of both.        *)
LEMMA FileStepTypes ==
    ASSUME WalkTypeOK, FileStep
    PROVE  WalkTypeOK'
<1>1. TypeOK'
    BY NextTypes DEF FileStep, WalkTypeOK, Next
<1>2. refresh' \in [Refreshes -> RefreshType] /\ index' \in [Indexes -> IndexType]
    BY BesideTypes, IdleEntries DEF FileStep, WalkTypeOK
<1>. QED
    BY <1>1, <1>2 DEF WalkTypeOK

(* The walks begin well typed.                                             *)
LEMMA WalkTypesHold == WalkInit => WalkTypeOK
BY InitTypes, IdleEntries DEF WalkInit, WalkTypeOK

(* Every step of the walks keeps the types.                                *)
LEMMA WalkTypesKept ==
    ASSUME WalkTypeOK, [WalkNext]_allVars
    PROVE  WalkTypeOK'
<1>1. CASE UNCHANGED allVars
    BY <1>1 DEF allVars, WalkTypeOK, TypeOK
<1>2. ASSUME NEW e \in Refreshes, RefreshEntry(e) PROVE WalkTypeOK'
    BY <1>2, RefreshTypes
<1>3. ASSUME NEW e \in Indexes, IndexEntry(e) PROVE WalkTypeOK'
    BY <1>3, IndexTypes
<1>. QED
    BY <1>1, <1>2, <1>3, FileStepTypes DEF WalkNext

(* The walks and the requests together.                                    *)
THEOREM WalkTypeCorrect == WalkSpec => []WalkTypeOK
<1>. QED
    BY WalkTypesHold, WalkTypesKept, PTL DEF WalkSpec

-----------------------------------------------------------------------------
(* The rows of the table. *)

(* An update of one row keeps the table sound if the new row is, and takes *)
(* no path of another.                                                     *)
LEMMA SoundUpdate ==
    ASSUME TypeOK, RowsSound, NEW u \in Files, NEW rw \in RowType, UpdateRow(u, rw),
           (rw.state = "deleted") <=> (rw.deletedAt # Never),
           rw.state \in {"active", "deleted"} =>
              \A v \in Files : InCatalog(v) /\ row[v].path = rw.path => v = u
    PROVE  RowsSound'
<1>1. row' = [row EXCEPT ![u] = rw] /\ row \in [Files -> RowType]
    BY DEF UpdateRow, TypeOK
<1>2. \A v \in Files : row'[v] = IF v = u THEN rw ELSE row[v]
    BY <1>1
<1>3. \A v \in Files : InCatalog(v)' <=> row'[v].state \in {"active", "deleted"}
    BY DEF InCatalog
<1>4. \A v \in Files : InCatalog(v) <=> row[v].state \in {"active", "deleted"}
    BY DEF InCatalog
<1>5. \A v \in Files : (row'[v].state = "deleted") <=> (row'[v].deletedAt # Never)
    BY <1>2 DEF RowsSound
<1>6. ASSUME NEW v \in Files, NEW w \in Files, InCatalog(v)', InCatalog(w)', row'[v].path = row'[w].path
      PROVE  v = w
    BY <1>2, <1>3, <1>4, <1>6 DEF RowsSound
<1>. QED
    BY <1>5, <1>6 DEF RowsSound

(* So does one that leaves state, time of deletion and path as they were.  *)
LEMMA SoundUpdates ==
    ASSUME RowsSound,
           \A u \in Files : /\ row'[u].state = row[u].state
                            /\ row'[u].deletedAt = row[u].deletedAt
                            /\ row'[u].path = row[u].path
    PROVE  RowsSound'
BY DEF RowsSound, InCatalog

(* The first statement of a new table.                                     *)
LEMMA SoundInit == Init => RowsSound
<1>. SUFFICES ASSUME Init PROVE RowsSound
    OBVIOUS
<1>1. PICK place \in [Cataloged -> Paths] :
          /\ \A u, v \in Cataloged : place[u] = place[v] => u = v
          /\ row = [u \in Files |->
                IF u \in Cataloged
                  THEN [NewRow(place[u], 0) EXCEPT !.extracted = TRUE]
                  ELSE [NewRow(SomePath, 0) EXCEPT !.state = "none"]]
    BY DEF Init
<1>2. \A u \in Files : /\ row[u].state = IF u \in Cataloged THEN "active" ELSE "none"
                       /\ row[u].deletedAt = Never
                       /\ u \in Cataloged => row[u].path = place[u]
    BY <1>1 DEF NewRow
<1>. QED
    BY <1>1, <1>2 DEF RowsSound, InCatalog

(* A statement on the row of a request: the row is still there, and keeps  *)
(* its path or leaves the catalog.                                         *)
LEMMA StatementSound ==
    ASSUME TypeOK, RowsSound, NEW c \in Callers, NEW verb, NEW rw \in RowType,
           OneStatement(c, verb, rw),
           (rw.state = "deleted") <=> (rw.deletedAt # Never),
           rw.state \in {"active", "deleted"} => rw.path = row[op[c].file].path
    PROVE  RowsSound'
<1>1. op[c].file \in Files
    BY DEF TypeOK, OpType
<1>2. CASE UNCHANGED row
    BY <1>2, SoundUpdates
<1>3. CASE InCatalog(op[c].file) /\ UpdateRow(op[c].file, rw)
    BY <1>1, <1>3, SoundUpdate DEF RowsSound
<1>. QED
    BY <1>2, <1>3 DEF OneStatement

(* Every statement of a request keeps the shape of the rows.               *)
LEMMA OpStepSound ==
    ASSUME TypeOK, RowsSound, NEW c \in Callers, OpStep(c)
    PROVE  RowsSound'
<1>0. op[c] \in OpType /\ op[c].file \in Files /\ row[op[c].file] \in RowType
      /\ op[c].at \in Times /\ op[c].path \in Paths /\ op[c].target \in Paths
      /\ op[c].content \in Bytes /\ op[c].stamp \in Stamps
    BY DEF TypeOK, OpType
<1>1. CASE SoftDelete(c)
    <2>1. /\ SoftDeleted(row[op[c].file], op[c].at).state = "deleted"
          /\ SoftDeleted(row[op[c].file], op[c].at).deletedAt # Never
          /\ SoftDeleted(row[op[c].file], op[c].at).path = row[op[c].file].path
        BY <1>0, Numbers DEF SoftDeleted, RowType
    <2>. QED
        BY <1>0, <1>1, <2>1, StatementSound, RowStatements DEF SoftDelete
<1>2. CASE Restore(c)
    <2>1. /\ Restored(row[op[c].file]).state = "active"
          /\ Restored(row[op[c].file]).deletedAt = Never
          /\ Restored(row[op[c].file]).path = row[op[c].file].path
        BY <1>0 DEF Restored, RowType
    <2>. QED
        BY <1>0, <1>2, <2>1, StatementSound, RowStatements DEF Restore
<1>3. CASE Purge(c) \/ PurgeRow(c)
    <2>1. PurgedRow.state = "purged" /\ PurgedRow.deletedAt = Never
        BY DEF PurgedRow, NewRow
    <2>. QED
        BY <1>3, <2>1, StatementSound, Defaults DEF Purge, PurgeRow
<1>4. CASE EditMetadata(c)
    <2>1. /\ Retitled(row[op[c].file]).state = row[op[c].file].state
          /\ Retitled(row[op[c].file]).deletedAt = row[op[c].file].deletedAt
          /\ Retitled(row[op[c].file]).path = row[op[c].file].path
        BY <1>0 DEF Retitled, RowType
    <2>2. (row[op[c].file].state = "deleted") <=> (row[op[c].file].deletedAt # Never)
        BY <1>0 DEF RowsSound
    <2>. QED
        BY <1>0, <1>4, <2>1, <2>2, StatementSound, RowStatements DEF EditMetadata
<1>5. CASE RenameRow(c)
    <2>1. CASE UNCHANGED row
        BY <2>1, SoundUpdates
    <2>2. CASE /\ RowsAt(op[c].target) \ {op[c].file} = {}
               /\ UpdateRow(op[c].file, Renamed(row[op[c].file], op[c].target))
        <3>1. /\ Renamed(row[op[c].file], op[c].target).state = row[op[c].file].state
              /\ Renamed(row[op[c].file], op[c].target).deletedAt = row[op[c].file].deletedAt
              /\ Renamed(row[op[c].file], op[c].target).path = op[c].target
            BY <1>0 DEF Renamed, RowType
        <3>2. \A v \in Files : InCatalog(v) /\ row[v].path = op[c].target => v = op[c].file
            BY <2>2 DEF RowsAt
        <3>3. (row[op[c].file].state = "deleted") <=> (row[op[c].file].deletedAt # Never)
            BY <1>0 DEF RowsSound
        <3>. QED
            BY <1>0, <2>2, <3>1, <3>2, <3>3, SoundUpdate, RowStatements
    <2>. QED
        BY <1>5, <2>1, <2>2 DEF RenameRow
<1>6. CASE RecordContent(c)
    <2>1. \A u \in Files : LET rw == Rehashed(row[u], op[c].content, op[c].stamp) IN
              rw.state = row[u].state /\ rw.deletedAt = row[u].deletedAt /\ rw.path = row[u].path
        BY DEF Rehashed, RowType, TypeOK
    <2>2. \A u \in Files : row'[u] = row[u] \/ row'[u] = Rehashed(row[u], op[c].content, op[c].stamp)
        BY <1>6 DEF RecordContent, UpdatePath
    <2>. QED
        BY <2>1, <2>2, SoundUpdates
<1>7. CASE \/ RemoveFile(c) \/ FindTarget(c) \/ ProbeTarget(c) \/ MoveFile(c) \/ RereadRow(c)
           \/ RollBack(c) \/ SaveContent(c) \/ VerifyContent(c) \/ StatContent(c)
    <2>1. UNCHANGED row
        BY <1>7 DEF RemoveFile, FindTarget, ProbeTarget, MoveFile, RereadRow, RollBack,
                    SaveContent, VerifyContent, StatContent
    <2>. QED
        BY <2>1, SoundUpdates
<1>. QED
    BY <1>1, <1>2, <1>3, <1>4, <1>5, <1>6, <1>7 DEF OpStep

(* Every step of FileLifecycle keeps it.                                   *)
LEMMA NextSound ==
    ASSUME TypeOK, RowsSound, [Next]_vars
    PROVE  RowsSound'
<1>1. ASSUME UNCHANGED row PROVE RowsSound'
    BY <1>1, SoundUpdates
<1>2. ASSUME NEW c \in Callers, NEW verb \in Verbs, NEW u \in Files, NEW p \in Paths,
             NEW content \in Bytes, Ask(c, verb, u, p, content)
      PROVE  UNCHANGED row
    BY <1>2 DEF Ask
<1>3. Surroundings \/ Restart \/ UNCHANGED vars => UNCHANGED row
    BY DEF Surroundings, Tick, External, Restart, vars
<1>. QED
    BY <1>1, <1>2, <1>3, OpStepSound DEF Next, Request

(* What a walk does to a row that it finds says where its file is and      *)
(* whether it is there, never where the row is.                            *)
LEMMA WalkKeepsPlace ==
    ASSUME NEW rw \in RowType, NEW s, NEW new,
           \/ new = rw
           \/ new = MissedRow(rw)
           \/ new = Restatted(rw, s)
           \/ new = Filled(rw)
           \/ new = [rw EXCEPT !.extracted = TRUE]
           \/ \E t \in {"empty", "tag"} : new = [rw EXCEPT !.title = t]
    PROVE  new.state = rw.state /\ new.deletedAt = rw.deletedAt /\ new.path = rw.path
BY DEF MissedRow, Restatted, Filled, RowType

(* A refresh entry leaves the state and the path of every row as they are. *)
LEMMA RefreshKeepsPlaces ==
    ASSUME WalkTypeOK, NEW e \in Refreshes, RefreshEntry(e)
    PROVE  \A u \in Files : /\ row'[u].state = row[u].state
                            /\ row'[u].deletedAt = row[u].deletedAt
                            /\ row'[u].path = row[u].path
<1>0. e[2] \in Files /\ row \in [Files -> RowType]
    BY RefreshesAssumption DEF WalkTypeOK, TypeOK
<1>1. \A u \in Files : \/ row'[u] = row[u]
                       \/ row'[u] = MissedRow(row[u])
                       \/ row'[u] = Restatted(row[u], refresh[e].stamp)
                       \/ row'[u] = Filled(row[u])
                       \/ row'[u] = [row[u] EXCEPT !.extracted = TRUE]
    BY <1>0 DEF RefreshEntry, RefreshStep, ListRow, StatRow, MarkMissing, RefreshStat, FillMetadata,
           StampRefreshed, StampRow, FailRefresh, UpdateRow, UpdatePath
<1>2. ASSUME NEW u \in Files
      PROVE  /\ row'[u].state = row[u].state
             /\ row'[u].deletedAt = row[u].deletedAt
             /\ row'[u].path = row[u].path
    <2>1. row[u] \in RowType
        BY <1>0
    <2>2. CASE row'[u] = Restatted(row[u], refresh[e].stamp)
        BY <2>1, <2>2, WalkKeepsPlace
    <2>3. CASE row'[u] = MissedRow(row[u]) \/ row'[u] = Filled(row[u])
        BY <2>1, <2>3, WalkKeepsPlace
    <2>4. CASE row'[u] = row[u] \/ row'[u] = [row[u] EXCEPT !.extracted = TRUE]
        BY <2>1, <2>4, WalkKeepsPlace
    <2>. QED
        BY <1>1, <2>2, <2>3, <2>4
<1>. QED
    BY <1>2

(* So it keeps the shape of the rows.                                      *)
LEMMA RefreshSound ==
    ASSUME WalkTypeOK, RowsSound, NEW e \in Refreshes, RefreshEntry(e)
    PROVE  RowsSound'
BY RefreshKeepsPlaces, SoundUpdates

(* An index entry inserts an active row, or updates one in place.          *)
LEMMA IndexSound ==
    ASSUME WalkTypeOK, RowsSound, NEW e \in Indexes, IndexEntry(e)
    PROVE  RowsSound'
<1>0. /\ e[2] \in Paths /\ index[e].stamp \in Stamps /\ index[e].file \in Files
      /\ row \in [Files -> RowType] /\ TypeOK
    BY IndexesAssumption DEF WalkTypeOK, TypeOK, IndexType
<1>1. ASSUME NEW u \in Files, UpdateRow(u, NewRow(e[2], index[e].stamp)), RowsAt(e[2]) = {}
      PROVE  RowsSound'
    <2>1. /\ NewRow(e[2], index[e].stamp).state = "active"
          /\ NewRow(e[2], index[e].stamp).deletedAt = Never
          /\ NewRow(e[2], index[e].stamp).path = e[2]
        BY DEF NewRow
    <2>2. \A v \in Files : InCatalog(v) => row[v].path # e[2]
        BY <1>1 DEF RowsAt
    <2>. QED
        BY <1>0, <1>1, <2>1, <2>2, SoundUpdate, Defaults
<1>2. ASSUME \A u \in Files : \/ row'[u] = row[u]
                              \/ row'[u] = [row[u] EXCEPT !.extracted = TRUE]
                              \/ \E t \in {"empty", "tag"} : row'[u] = [row[u] EXCEPT !.title = t]
      PROVE  RowsSound'
    <2>1. ASSUME NEW u \in Files
          PROVE  /\ row'[u].state = row[u].state
                 /\ row'[u].deletedAt = row[u].deletedAt
                 /\ row'[u].path = row[u].path
        <3>1. row[u] \in RowType
            BY <1>0
        <3>. QED
            BY <1>2, <3>1, WalkKeepsPlace
    <2>. QED
        BY <2>1, SoundUpdates
<1>3. CASE InsertFile(e)
    BY <1>1, <1>2, <1>3 DEF InsertFile, Inserted, FailIndex
<1>4. CASE ListFile(e) \/ FindRow(e) \/ ReplaceMetadata(e) \/ StampIndexed(e)
    <2>1. \A u \in Files : \/ row'[u] = row[u]
                           \/ row'[u] = [row[u] EXCEPT !.extracted = TRUE]
                           \/ \E t \in {"empty", "tag"} : row'[u] = [row[u] EXCEPT !.title = t]
        BY <1>0, <1>4 DEF ListFile, FindRow, ReplaceMetadata, StampIndexed, StampRow, UpdateRow
    <2>. QED
        BY <1>2, <2>1
<1>. QED
    BY <1>3, <1>4 DEF IndexEntry, IndexStep

(* Every step of the walks keeps the shape of the rows.                    *)
LEMMA WalkSound ==
    ASSUME WalkTypeOK, RowsSound, [WalkNext]_allVars
    PROVE  RowsSound'
<1>1. ASSUME FileStep \/ UNCHANGED allVars PROVE RowsSound'
    BY <1>1, NextSound DEF FileStep, Next, WalkTypeOK, allVars, vars
<1>2. ASSUME NEW e \in Refreshes, RefreshEntry(e) PROVE RowsSound'
    BY <1>2, RefreshSound
<1>3. ASSUME NEW e \in Indexes, IndexEntry(e) PROVE RowsSound'
    BY <1>3, IndexSound
<1>. QED
    BY <1>1, <1>2, <1>3 DEF WalkNext

(* A row carries a time of deletion exactly while it is deleted, and no two *)
(* rows have one path, whatever requests, walks and failures there are.    *)
THEOREM RowsTheorem == WalkSpec => []RowsSound
<1>1. WalkInit => WalkTypeOK /\ RowsSound
    BY WalkTypesHold, SoundInit DEF WalkInit
<1>2. WalkTypeOK /\ RowsSound /\ [WalkNext]_allVars => (WalkTypeOK /\ RowsSound)'
    BY WalkTypesKept, WalkSound
<1>. QED
    BY <1>1, <1>2, PTL DEF WalkSpec

-----------------------------------------------------------------------------
(* The windows of restore and purge. *)

(* A request to restore or to purge was let in while its window was open.  *)
AdmittedInWindow ==
    \A c \in Callers :
        /\ At(c, "restore", "write") => op[c].at - op[c].deletedAt <= Retention
        /\ At(c, "purge", "write") => op[c].at - op[c].deletedAt > Retention

(* A step of a request leaves the others alone and keeps what it was asked, *)
(* until it is answered.                                                   *)
LEMMA OpStepFrame ==
    ASSUME TypeOK, NEW c \in Callers, OpStep(c)
    PROVE  /\ \A d \in Callers : d # c => op'[d] = op[d]
           /\ \/ op'[c] = IdleOp
              \/ /\ op'[c].verb = op[c].verb /\ op'[c].file = op[c].file
                 /\ op'[c].path = op[c].path /\ op'[c].target = op[c].target
                 /\ op'[c].content = op[c].content
                 /\ op[c].verb \in {"rename", "purge_on_disk", "edit_content"}
<1>0. op \in [Callers -> OpType] /\ op[c] \in OpType
    BY DEF TypeOK
<1>1. ASSUME NEW pc, GoTo(c, pc)
      PROVE  /\ \A d \in Callers : d # c => op'[d] = op[d]
             /\ op'[c].verb = op[c].verb /\ op'[c].file = op[c].file
             /\ op'[c].path = op[c].path /\ op'[c].target = op[c].target
             /\ op'[c].content = op[c].content
    BY <1>0, <1>1 DEF GoTo, OpType
<1>2. ASSUME Answer(c)
      PROVE  (\A d \in Callers : d # c => op'[d] = op[d]) /\ op'[c] = IdleOp
    BY <1>0, <1>2 DEF Answer
<1>3. CASE SoftDelete(c) \/ Restore(c) \/ Purge(c) \/ EditMetadata(c) \/ PurgeRow(c) \/ RecordContent(c)
    BY <1>2, <1>3 DEF SoftDelete, Restore, Purge, EditMetadata, PurgeRow, OneStatement, RecordContent
<1>4. CASE RemoveFile(c) \/ FindTarget(c) \/ ProbeTarget(c) \/ MoveFile(c)
    BY <1>1, <1>2, <1>4 DEF RemoveFile, FindTarget, ProbeTarget, MoveFile, At
<1>5. CASE RenameRow(c) \/ RereadRow(c) \/ RollBack(c)
    BY <1>1, <1>2, <1>5 DEF RenameRow, RereadRow, RollBack, At
<1>6. CASE SaveContent(c) \/ VerifyContent(c)
    BY <1>1, <1>2, <1>6 DEF SaveContent, VerifyContent
<1>7. CASE StatContent(c)
    <2>1. CASE op' = [op EXCEPT ![c].pc = "record", ![c].stamp = disk[op[c].path].stamp]
        BY <1>0, <1>7, <2>1 DEF StatContent, At, OpType
    <2>2. CASE Answer(c)
        BY <1>2, <2>2
    <2>. QED
        BY <1>7, <2>1, <2>2 DEF StatContent
<1>. QED
    BY <1>3, <1>4, <1>5, <1>6, <1>7 DEF OpStep

(* Every step keeps what a restore and a purge were admitted on.           *)
LEMMA WindowKept ==
    ASSUME TypeOK, AdmittedInWindow, [Next]_vars
    PROVE  AdmittedInWindow'
<1>0. op \in [Callers -> OpType]
    BY DEF TypeOK
<1>1. CASE UNCHANGED op
    BY <1>1 DEF AdmittedInWindow, At
<1>2. ASSUME NEW c \in Callers, OpStep(c) PROVE AdmittedInWindow'
    <2>1. IdleOp.pc = "idle"
        BY DEF IdleOp
    <2>. QED
        BY <1>2, <2>1, OpStepFrame DEF AdmittedInWindow, At
<1>3. ASSUME NEW c \in Callers, NEW verb \in Verbs, NEW u \in Files, NEW p \in Paths,
             NEW content \in Bytes, Ask(c, verb, u, p, content)
      PROVE  AdmittedInWindow'
    <2>1. \A d \in Callers : d # c => op'[d] = op[d]
        BY <1>0, <1>3 DEF Ask
    <2>2. op'[c].verb = verb /\ op'[c].at = now /\ op'[c].deletedAt = row[u].deletedAt
        BY <1>0, <1>3 DEF Ask
    <2>3. now \in Int /\ row[u].deletedAt \in Int /\ Retention \in Int
        BY Numbers DEF TypeOK, RowType
    <2>4. Admits(verb, u)
        BY <1>3 DEF Ask
    <2>5. verb = "restore" => op'[c].at - op'[c].deletedAt <= Retention
        BY <2>2, <2>4 DEF Admits, Restorable, Elapsed
    <2>6. verb = "purge" => op'[c].at - op'[c].deletedAt > Retention
        BY <2>2, <2>4 DEF Admits, Purgeable, Elapsed
    <2>. QED
        BY <2>1, <2>2, <2>5, <2>6 DEF AdmittedInWindow, At
<1>4. CASE Restart
    BY <1>4 DEF Restart, IdleOp, AdmittedInWindow, At
<1>5. Surroundings \/ UNCHANGED vars => UNCHANGED op
    BY DEF Surroundings, Tick, External, vars
<1>. QED
    BY <1>1, <1>2, <1>3, <1>4, <1>5 DEF Next, Request

(* Of two requests about the same deletion the restore came first.         *)
LEMMA WindowsApart == TypeOK /\ AdmittedInWindow => WindowsDisjoint
<1>. SUFFICES ASSUME TypeOK, AdmittedInWindow, NEW c \in Callers, NEW d \in Callers,
                     At(c, "restore", "write"), At(d, "purge", "write"),
                     op[c].deletedAt = op[d].deletedAt
              PROVE  op[c].at < op[d].at
    BY DEF WindowsDisjoint
<1>1. /\ op[c].at \in Int /\ op[d].at \in Int
      /\ op[c].deletedAt \in Int /\ op[d].deletedAt \in Int /\ Retention \in Int
    BY Numbers DEF TypeOK, OpType
<1>2. op[c].at - op[c].deletedAt <= Retention /\ op[d].at - op[d].deletedAt > Retention
    BY DEF AdmittedInWindow
<1>. QED
    BY <1>1, <1>2

(* Restore is let in until the retention is over and the purge after it:   *)
(* never both at one time (restore.rs, restore; purge.rs, purge).          *)
THEOREM WindowsTheorem == WalkSpec => []WindowsDisjoint
<1>1. WalkInit => WalkTypeOK /\ AdmittedInWindow
    <2>1. Init => AdmittedInWindow
        BY DEF Init, IdleOp, AdmittedInWindow, At
    <2>. QED
        BY <2>1, WalkTypesHold DEF WalkInit
<1>2. ASSUME WalkTypeOK, AdmittedInWindow, [WalkNext]_allVars PROVE AdmittedInWindow'
    <2>1. FileStep => Next
        BY DEF FileStep, Next
    <2>2. ~ FileStep => UNCHANGED op
        BY <1>2 DEF WalkNext, RefreshEntry, IndexEntry, allVars
    <2>. QED
        BY <1>2, <2>1, <2>2, WindowKept DEF WalkTypeOK, AdmittedInWindow, At
<1>3. WalkTypeOK /\ AdmittedInWindow /\ [WalkNext]_allVars => (WalkTypeOK /\ AdmittedInWindow)'
    BY <1>2, WalkTypesKept
<1>4. WalkTypeOK /\ AdmittedInWindow => WindowsDisjoint
    BY WindowsApart DEF WalkTypeOK
<1>. QED
    BY <1>1, <1>3, <1>4, PTL DEF WalkSpec

-----------------------------------------------------------------------------
(* A refresh heals its row. *)

(* What an entry nobody disturbed knows at each of its steps.              *)
Knows(e) ==
    LET found == disk[refresh[e].path] IN
    refresh[e].alone =>
        /\ refresh[e].pc \in {"stat", "mark", "restat"} =>
              InCatalog(e[2]) /\ refresh[e].path = row[e[2]].path
        /\ refresh[e].pc = "stat" =>
              refresh[e].stamp = row[e[2]].stamp /\ refresh[e].missing = row[e[2]].missing
        /\ refresh[e].pc = "mark" => ~found.present
        /\ refresh[e].pc = "restat" => found.present /\ refresh[e].stamp = found.stamp
        /\ refresh[e].pc \in {"fill", "stamp", "done"} => Agrees(e[2])

(* An entry that is disturbed knows nothing more; the others know the same. *)
LEMMA KnowsBeside ==
    ASSUME WalkTypeOK, NEW e \in Refreshes, Knows(e), refresh'[e] = Beside(refresh)[e]
    PROVE  Knows(e)'
<1>1. CASE row' = row /\ disk' = disk
    BY <1>1 DEF Beside, Knows, InCatalog, Agrees
<1>2. CASE ~ (row' = row /\ disk' = disk)
    <2>1. refresh[e] \in RefreshType /\ refresh \in [Refreshes -> RefreshType]
        BY DEF WalkTypeOK
    <2>2. refresh'[e] = [refresh[e] EXCEPT !.alone = FALSE]
        BY <1>2, <2>1 DEF Beside
    <2>3. refresh'[e].alone = FALSE
        BY <2>1, <2>2 DEF RefreshType
    <2>. QED
        BY <2>3 DEF Knows
<1>. QED
    BY <1>1, <1>2

(* An entry moves on by what it knows.                                     *)
LEMMA KnowsMore ==
    ASSUME WalkTypeOK, NEW e \in Refreshes, Knows(e), RefreshEntry(e)
    PROVE  Knows(e)'
<1>0. /\ e[2] \in Files /\ row[e[2]] \in RowType /\ refresh[e] \in RefreshType
      /\ refresh \in [Refreshes -> RefreshType] /\ row \in [Files -> RowType]
      /\ disk' = disk
    BY RefreshesAssumption DEF WalkTypeOK, TypeOK, RefreshEntry
<1>1. ASSUME NEW pc \in RefreshPCs, ToRefresh(e, pc)
      PROVE  refresh'[e] = [refresh[e] EXCEPT !.pc = pc]
    BY <1>0, <1>1, BesideTypes DEF ToRefresh
<1>2. CASE ListRow(e)
    <2>1. refresh'[e] = [pc |-> "stat", path |-> row[e[2]].path, stamp |-> row[e[2]].stamp,
                         missing |-> row[e[2]].missing, extracted |-> row[e[2]].extracted,
                         alone |-> TRUE]
        BY <1>0, <1>2 DEF ListRow
    <2>. QED
        BY <1>0, <1>2, <2>1 DEF ListRow, Knows, InCatalog
<1>3. CASE StatRow(e)
    <2>. DEFINE found == disk[refresh[e].path]
    <2>0. row' = row /\ refresh[e].pc = "stat"
        BY <1>3 DEF StatRow
    <2>1. CASE refresh'[e] = [refresh[e] EXCEPT !.pc = "failed"]
        BY <1>0, <2>1 DEF Knows, RefreshType
    <2>2. ASSUME ~ found.present,
                 refresh'[e] = [refresh[e] EXCEPT !.pc = IF refresh[e].missing THEN "done" ELSE "mark"]
          PROVE  Knows(e)'
        BY <1>0, <2>0, <2>2 DEF Knows, RefreshType, InCatalog, Agrees
    <2>3. ASSUME found.present, SameEntry(e),
                 refresh'[e] = [refresh[e] EXCEPT !.pc = IF refresh[e].extracted THEN "done" ELSE "fill"]
          PROVE  Knows(e)'
        BY <1>0, <2>0, <2>3 DEF Knows, RefreshType, InCatalog, Agrees, SameEntry
    <2>4. ASSUME found.present,
                 refresh'[e] = [refresh[e] EXCEPT !.pc = "restat", !.stamp = found.stamp]
          PROVE  Knows(e)'
        BY <1>0, <2>0, <2>4 DEF Knows, RefreshType, InCatalog
    <2>5. \/ refresh'[e] = [refresh[e] EXCEPT !.pc = "failed"]
          \/ ~ found.present /\
             refresh'[e] = [refresh[e] EXCEPT !.pc = IF refresh[e].missing THEN "done" ELSE "mark"]
          \/ found.present /\ SameEntry(e) /\
             refresh'[e] = [refresh[e] EXCEPT !.pc = IF refresh[e].extracted THEN "done" ELSE "fill"]
          \/ found.present /\
             refresh'[e] = [refresh[e] EXCEPT !.pc = "restat", !.stamp = found.stamp]
        BY <1>0, <1>1, <1>3 DEF StatRow, RefreshPCs
    <2>. QED
        BY <2>1, <2>2, <2>3, <2>4, <2>5
<1>4. CASE MarkMissing(e)
    <2>1. CASE FailRefresh(e)
        <3>1. refresh'[e] = [refresh[e] EXCEPT !.pc = "failed"]
            BY <1>1, <2>1 DEF FailRefresh, RefreshPCs
        <3>. QED
            BY <1>0, <3>1 DEF Knows, RefreshType
    <2>2. CASE /\ UpdatePath(refresh[e].path, [u \in Files |-> MissedRow(row[u])])
               /\ ToRefresh(e, "done")
        <3>1. refresh'[e] = [refresh[e] EXCEPT !.pc = "done"]
            BY <1>1, <2>2 DEF RefreshPCs
        <3>2. CASE refresh[e].alone
            <4>1. InCatalog(e[2]) /\ refresh[e].path = row[e[2]].path /\ ~ disk[refresh[e].path].present
                BY <1>4, <3>2 DEF MarkMissing, Knows
            <4>2. row'[e[2]] = MissedRow(row[e[2]])
                BY <1>0, <2>2, <4>1 DEF UpdatePath, RowsAt
            <4>3. Agrees(e[2])'
                BY <1>0, <4>1, <4>2 DEF Agrees, MissedRow, RowType
            <4>. QED
                BY <1>0, <3>1, <4>3 DEF Knows, RefreshType
        <3>3. CASE ~ refresh[e].alone
            BY <1>0, <3>1, <3>3 DEF Knows, RefreshType
        <3>. QED
            BY <3>2, <3>3
    <2>. QED
        BY <1>4, <2>1, <2>2 DEF MarkMissing
<1>5. CASE RefreshStat(e)
    <2>1. CASE FailRefresh(e)
        <3>1. refresh'[e] = [refresh[e] EXCEPT !.pc = "failed"]
            BY <1>1, <2>1 DEF FailRefresh, RefreshPCs
        <3>. QED
            BY <1>0, <3>1 DEF Knows, RefreshType
    <2>2. CASE /\ UpdatePath(refresh[e].path, [u \in Files |-> Restatted(row[u], refresh[e].stamp)])
               /\ ToRefresh(e, "fill")
        <3>1. refresh'[e] = [refresh[e] EXCEPT !.pc = "fill"]
            BY <1>1, <2>2 DEF RefreshPCs
        <3>2. CASE refresh[e].alone
            <4>1. /\ InCatalog(e[2]) /\ refresh[e].path = row[e[2]].path
                  /\ disk[refresh[e].path].present
                  /\ refresh[e].stamp = disk[refresh[e].path].stamp
                BY <1>5, <3>2 DEF RefreshStat, Knows
            <4>2. row'[e[2]] = Restatted(row[e[2]], refresh[e].stamp)
                BY <1>0, <2>2, <4>1 DEF UpdatePath, RowsAt
            <4>3. Agrees(e[2])'
                BY <1>0, <4>1, <4>2 DEF Agrees, Restatted, RowType
            <4>. QED
                BY <1>0, <3>1, <4>3 DEF Knows, RefreshType
        <3>3. CASE ~ refresh[e].alone
            BY <1>0, <3>1, <3>3 DEF Knows, RefreshType
        <3>. QED
            BY <3>2, <3>3
    <2>. QED
        BY <1>5, <2>1, <2>2 DEF RefreshStat
<1>6. CASE FillMetadata(e) \/ StampRefreshed(e)
    <2>1. \/ row'[e[2]] = row[e[2]]
          \/ row'[e[2]] = Filled(row[e[2]])
          \/ row'[e[2]] = [row[e[2]] EXCEPT !.extracted = TRUE]
        BY <1>0, <1>6 DEF FillMetadata, StampRefreshed, StampRow, FailRefresh, UpdateRow
    <2>2. /\ row'[e[2]].path = row[e[2]].path
          /\ row'[e[2]].missing = row[e[2]].missing
          /\ row'[e[2]].stamp = row[e[2]].stamp
        <3>1. CASE row'[e[2]] = Filled(row[e[2]])
            BY <1>0, <3>1 DEF Filled, RowType
        <3>2. CASE row'[e[2]] = [row[e[2]] EXCEPT !.extracted = TRUE]
            BY <1>0, <3>2 DEF RowType
        <3>. QED
            BY <2>1, <3>1, <3>2
    <2>3. Agrees(e[2]) => Agrees(e[2])'
        BY <1>0, <2>2 DEF Agrees
    <2>4. /\ refresh[e].pc \in {"fill", "stamp"}
          /\ \E pc \in {"stamp", "done", "failed"} : refresh'[e] = [refresh[e] EXCEPT !.pc = pc]
        BY <1>1, <1>6 DEF FillMetadata, StampRefreshed, FailRefresh, RefreshPCs
    <2>. QED
        BY <1>0, <2>3, <2>4 DEF Knows, RefreshType
<1>. QED
    BY <1>2, <1>3, <1>4, <1>5, <1>6 DEF RefreshEntry, RefreshStep

(* Every step, seen by one entry.                                          *)
LEMMA KnowsKept ==
    ASSUME WalkTypeOK, NEW e \in Refreshes, Knows(e), [WalkNext]_allVars
    PROVE  Knows(e)'
<1>0. refresh \in [Refreshes -> RefreshType]
    BY DEF WalkTypeOK
<1>1. ASSUME NEW f \in Refreshes, RefreshEntry(f), f # e PROVE Knows(e)'
    <2>1. CASE row' = row
        <3>1. refresh'[e] = refresh[e] /\ disk' = disk
            BY <1>0, <1>1, <2>1 DEF RefreshEntry, RefreshStep, ListRow, StatRow, MarkMissing, RefreshStat,
                              FillMetadata, StampRefreshed, FailRefresh, ToRefresh, Beside
        <3>. QED
            BY <2>1, <3>1, KnowsBeside DEF Beside
    <2>2. CASE row' # row
        <3>1. \E pc : ToRefresh(f, pc)
            BY <1>1, <2>2 DEF RefreshEntry, RefreshStep, ListRow, StatRow, MarkMissing, RefreshStat,
                              FillMetadata, StampRefreshed, FailRefresh
        <3>2. refresh'[e] = Beside(refresh)[e]
            BY <1>0, <1>1, <3>1, BesideTypes DEF ToRefresh
        <3>. QED
            BY <3>2, KnowsBeside
    <2>. QED
        BY <2>1, <2>2
<1>2. ASSUME NEW f \in Indexes, IndexEntry(f) PROVE Knows(e)'
    BY <1>2, KnowsBeside DEF IndexEntry
<1>3. CASE FileStep
    <2>1. CASE refresh' = Beside(refresh)
        BY <2>1, KnowsBeside
    <2>2. CASE refresh' = [f \in Refreshes |-> IdleRefresh]
        BY <2>2 DEF IdleRefresh, Knows
    <2>. QED
        BY <1>3, <2>1, <2>2 DEF FileStep
<1>4. CASE UNCHANGED allVars
    BY <1>4 DEF allVars, Knows, InCatalog, Agrees
<1>. QED
    BY <1>1, <1>2, <1>3, <1>4, KnowsMore DEF WalkNext

(* A refresh that nobody disturbed leaves its row as the disk is, whatever *)
(* races and failures have left in it (refresh.rs, refresh_one).           *)
THEOREM RefreshTheorem == WalkSpec => []RefreshHeals
<1>. DEFINE Inv == WalkTypeOK /\ \A e \in Refreshes : Knows(e)
<1>1. WalkInit => Inv
    BY WalkTypesHold DEF WalkInit, IdleRefresh, Knows
<1>2. Inv /\ [WalkNext]_allVars => Inv'
    BY WalkTypesKept, KnowsKept
<1>3. Inv => RefreshHeals
    BY DEF Knows, RefreshHeals
<1>. QED
    BY <1>1, <1>2, <1>3, PTL DEF WalkSpec

-----------------------------------------------------------------------------
(* What becomes of a row. *)

(* A step of a request changes the rows of its file or of its path only,   *)
(* and each by a statement of the repository.                              *)
LEMMA OpStepRows ==
    ASSUME TypeOK, NEW c \in Callers, OpStep(c), NEW u \in Files, row'[u] # row[u]
    PROVE  \/ row'[u] = SoftDeleted(row[u], op[c].at)
           \/ row'[u] = Restored(row[u])
           \/ row'[u] = Retitled(row[u])
           \/ row'[u] = PurgedRow
           \/ /\ RenameRow(c) /\ u = op[c].file
              /\ row'[u] = Renamed(row[u], op[c].target)
           \/ /\ RecordContent(c)
              /\ row'[u] = Rehashed(row[u], op[c].content, op[c].stamp)
<1>0. op[c].file \in Files /\ row \in [Files -> RowType]
    BY DEF TypeOK, OpType
<1>1. ASSUME NEW verb, NEW rw, OneStatement(c, verb, rw)
      PROVE  u = op[c].file /\ row'[u] = rw
    BY <1>0, <1>1 DEF OneStatement, UpdateRow
<1>2. CASE SoftDelete(c) \/ Restore(c) \/ Purge(c) \/ EditMetadata(c) \/ PurgeRow(c)
    BY <1>1, <1>2 DEF SoftDelete, Restore, Purge, EditMetadata, PurgeRow
<1>3. CASE RenameRow(c)
    BY <1>0, <1>3 DEF RenameRow, UpdateRow
<1>4. CASE RecordContent(c)
    BY <1>0, <1>4 DEF RecordContent, UpdatePath
<1>5. CASE \/ RemoveFile(c) \/ FindTarget(c) \/ ProbeTarget(c) \/ MoveFile(c) \/ RereadRow(c)
           \/ RollBack(c) \/ SaveContent(c) \/ VerifyContent(c) \/ StatContent(c)
    BY <1>5 DEF RemoveFile, FindTarget, ProbeTarget, MoveFile, RereadRow, RollBack,
                SaveContent, VerifyContent, StatContent
<1>. QED
    BY <1>2, <1>3, <1>4, <1>5 DEF OpStep

(* An entry of a refresh changes what a row says of its file.              *)
LEMMA RefreshRows ==
    ASSUME WalkTypeOK, NEW e \in Refreshes, RefreshEntry(e), NEW u \in Files, row'[u] # row[u]
    PROVE  \/ row'[u] = MissedRow(row[u])
           \/ row'[u] = Restatted(row[u], refresh[e].stamp)
           \/ row'[u] = Filled(row[u])
           \/ row'[u] = [row[u] EXCEPT !.extracted = TRUE]
<1>0. e[2] \in Files /\ row \in [Files -> RowType]
    BY RefreshesAssumption DEF WalkTypeOK, TypeOK
<1>. QED
    BY <1>0 DEF RefreshEntry, RefreshStep, ListRow, StatRow, MarkMissing, RefreshStat, FillMetadata,
           StampRefreshed, StampRow, FailRefresh, UpdateRow, UpdatePath

(* An entry of an index inserts a row, or completes it.                    *)
LEMMA IndexRows ==
    ASSUME WalkTypeOK, NEW e \in Indexes, IndexEntry(e), NEW u \in Files, row'[u] # row[u]
    PROVE  \/ row'[u] = NewRow(e[2], index[e].stamp)
           \/ InCatalog(u) /\ row'[u] = [row[u] EXCEPT !.extracted = TRUE]
           \/ InCatalog(u) /\ \E t \in {"empty", "tag"} : row'[u] = [row[u] EXCEPT !.title = t]
<1>0. row \in [Files -> RowType] /\ index[e].file \in Files
    BY DEF WalkTypeOK, TypeOK, IndexType
<1>1. CASE InsertFile(e)
    BY <1>0, <1>1 DEF InsertFile, Inserted, FailIndex, UpdateRow
<1>2. CASE ListFile(e) \/ FindRow(e) \/ ReplaceMetadata(e) \/ StampIndexed(e)
    BY <1>0, <1>2 DEF ListFile, FindRow, ReplaceMetadata, StampIndexed, StampRow, UpdateRow
<1>. QED
    BY <1>1, <1>2 DEF IndexEntry, IndexStep

(* Rows change in these ways only.                                         *)
LEMMA WalkRows ==
    ASSUME WalkTypeOK, [WalkNext]_allVars, NEW u \in Files, row'[u] # row[u]
    PROVE  \/ \E c \in Callers : OpStep(c)
           \/ \E e \in Refreshes : RefreshEntry(e)
           \/ \E e \in Indexes : IndexEntry(e)
<1>1. ASSUME NEW c \in Callers, NEW verb \in Verbs, NEW v \in Files, NEW p \in Paths,
             NEW content \in Bytes, Ask(c, verb, v, p, content)
      PROVE  FALSE
    BY <1>1 DEF Ask
<1>2. ~ Surroundings /\ ~ Restart /\ ~ UNCHANGED allVars
    BY DEF Surroundings, Tick, External, Restart, allVars
<1>. QED
    BY <1>1, <1>2 DEF WalkNext, FileStep, Request

(* Refreshes fill what is empty: what the owner wrote in a row stays, until *)
(* the row is purged (FR-FC-25).  An index is left out: it replaces what   *)
(* its tags name in the row that it has inserted itself.                   *)
THEOREM OwnerTheorem ==
    ASSUME Indexes = {}
    PROVE  WalkSpec => OwnerEditsStand
<1>1. ASSUME WalkTypeOK, WalkNext, NEW u \in Files,
             InCatalog(u), row[u].title = "owner", InCatalog(u)'
      PROVE  row'[u].title = "owner"
    <2>0. row[u] \in RowType
        BY <1>1 DEF WalkTypeOK, TypeOK
    <2>1. ASSUME NEW c \in Callers, OpStep(c), row'[u] # row[u]
          PROVE  row'[u].title = "owner"
        <3>1. row'[u] # PurgedRow
            BY <1>1 DEF InCatalog, PurgedRow, NewRow
        <3>2. CASE row'[u] = SoftDeleted(row[u], op[c].at) \/ row'[u] = Restored(row[u])
            BY <1>1, <2>0, <3>2 DEF SoftDeleted, Restored, RowType
        <3>3. CASE row'[u] = Retitled(row[u]) \/ row'[u] = Renamed(row[u], op[c].target)
            BY <1>1, <2>0, <3>3 DEF Retitled, Renamed, RowType
        <3>4. CASE row'[u] = Rehashed(row[u], op[c].content, op[c].stamp)
            BY <1>1, <2>0, <3>4 DEF Rehashed, RowType
        <3>. QED
            BY <1>1, <2>1, <3>1, <3>2, <3>3, <3>4, OpStepRows DEF WalkTypeOK
    <2>2. ASSUME NEW e \in Refreshes, RefreshEntry(e), row'[u] # row[u]
          PROVE  row'[u].title = "owner"
        <3>1. CASE row'[u] = MissedRow(row[u]) \/ row'[u] = Restatted(row[u], refresh[e].stamp)
            BY <1>1, <2>0, <3>1 DEF MissedRow, Restatted, RowType
        <3>2. CASE row'[u] = Filled(row[u])
            BY <1>1, <2>0, <3>2 DEF Filled, RowType
        <3>3. CASE row'[u] = [row[u] EXCEPT !.extracted = TRUE]
            BY <1>1, <2>0, <3>3 DEF RowType
        <3>. QED
            BY <1>1, <2>2, <3>1, <3>2, <3>3, RefreshRows
    <2>3. CASE row'[u] = row[u]
        BY <1>1, <2>3
    <2>. QED
        BY <1>1, <2>1, <2>2, <2>3, WalkRows
<1>2. WalkTypeOK /\ [WalkNext]_allVars =>
        [\A u \in Files : InCatalog(u) /\ row[u].title = "owner" /\ InCatalog(u)'
              => row'[u].title = "owner"]_allVars
    BY <1>1
<1>. QED
    BY <1>2, WalkTypeCorrect, PTL DEF WalkSpec, OwnerEditsStand

-----------------------------------------------------------------------------
(* The hash of a row. *)

(* What the requests are asked one after the other.                        *)
OneCaller == \A c, d \in Callers : c = d

(* Two files with one stat hold the same bytes.                            *)
StampsTellBytes ==
    \A p, q \in Paths :
        disk[p].present /\ disk[q].present /\ disk[p].stamp = disk[q].stamp
            => disk[p].bytes = disk[q].bytes

(* No stat is from the future.                                             *)
StampsArePast == \A p \in Paths : disk[p].stamp <= writes

(* b is what a file of that stat holds, wherever it is.                    *)
Describes(b, stamp) ==
    /\ stamp <= writes
    /\ \A p \in Paths : disk[p].present /\ disk[p].stamp = stamp => disk[p].bytes = b

HashesDescribe ==
    \A u \in Files :
        InCatalog(u) /\ row[u].hash # NoHash => Describes(row[u].hash, row[u].stamp)

(* Between the verification of an edit and its stat nobody touches what is *)
(* at its path: edit_content.rs reads the file twice and holds no lock.     *)
VerifiedStays ==
    \A c \in Callers :
        At(c, "edit_content", "stat") /\ op'[c] = op[c]
            => disk'[op[c].path] = disk[op[c].path]

(* An edit records what it has verified.                                   *)
EditsDescribe ==
    \A c \in Callers :
        /\ At(c, "edit_content", "stat") =>
              (disk[op[c].path].present => disk[op[c].path].bytes = op[c].content)
        /\ At(c, "edit_content", "record") => Describes(op[c].content, op[c].stamp)

HashIInv == StampsTellBytes /\ StampsArePast /\ HashesDescribe /\ EditsDescribe

(* A step that moves files, removes them or writes one with a new stat.    *)
NewFile(p) == disk'[p].stamp = writes + 1 /\ writes' = writes + 1

FilesStay ==
    \/ /\ writes' = writes
       /\ \A p \in Paths : \/ ~ disk'[p].present /\ disk'[p].stamp <= writes
                           \/ \E q \in Paths : disk'[p] = disk[q]
    \/ \E w \in Paths : NewFile(w) /\ \A p \in Paths : p # w => disk'[p] = disk[p]

(* Where no file is written, a stamp still tells which bytes it is of.     *)
LEMMA FilesKeepStamps ==
    ASSUME TypeOK, StampsTellBytes, StampsArePast, FilesStay
    PROVE  /\ StampsTellBytes' /\ StampsArePast'
           /\ \A b, s : s \in Stamps /\ Describes(b, s) => Describes(b, s)'
<1>0. writes \in Int /\ \A p \in Paths : disk[p].stamp \in Int
    BY Numbers DEF TypeOK, DiskType
<1>1. CASE /\ writes' = writes
           /\ \A p \in Paths : \/ ~ disk'[p].present /\ disk'[p].stamp <= writes
                               \/ \E q \in Paths : disk'[p] = disk[q]
    <2>1. StampsTellBytes'
        BY <1>1 DEF StampsTellBytes
    <2>2. StampsArePast'
        BY <1>1 DEF StampsArePast
    <2>3. ASSUME NEW b, NEW s \in Stamps, Describes(b, s) PROVE Describes(b, s)'
        BY <1>1, <2>3 DEF Describes
    <2>. QED
        BY <2>1, <2>2, <2>3
<1>2. ASSUME NEW w \in Paths, NewFile(w), \A p \in Paths : p # w => disk'[p] = disk[p]
      PROVE  /\ StampsTellBytes' /\ StampsArePast'
             /\ \A b, s : s \in Stamps /\ Describes(b, s) => Describes(b, s)'
    <2>1. StampsTellBytes'
        BY <1>0, <1>2 DEF StampsTellBytes, StampsArePast, NewFile
    <2>2. StampsArePast'
        BY <1>0, <1>2 DEF StampsArePast, NewFile
    <2>3. ASSUME NEW b, NEW s \in Stamps, Describes(b, s) PROVE Describes(b, s)'
        <3>1. s \in Int
            BY Numbers
        <3>. QED
            BY <1>0, <1>2, <2>3, <3>1 DEF Describes, NewFile
    <2>. QED
        BY <2>1, <2>2, <2>3
<1>. QED
    BY <1>1, <1>2 DEF FilesStay

(* That is what the steps of a request do to the disk.                     *)
LEMMA OpStepFiles ==
    ASSUME TypeOK, StampsArePast, NEW c \in Callers, OpStep(c)
    PROVE  FilesStay
<1>0. op[c].path \in Paths /\ op[c].target \in Paths /\ disk \in [Paths -> DiskType]
      /\ writes \in Int /\ 0 <= writes
    BY Numbers, BoundsAssumption DEF TypeOK, OpType, Stamps
<1>1. CASE UNCHANGED <<disk, writes>>
    BY <1>1 DEF FilesStay
<1>2. Absent.stamp = 0 /\ ~ Absent.present
    BY DEF Absent
<1>3. CASE RemoveFile(c) \/ MoveFile(c) \/ RollBack(c)
    BY <1>0, <1>1, <1>2, <1>3 DEF RemoveFile, MoveFile, RollBack, Moved, FilesStay
<1>4. ASSUME NEW b, WriteFile(op[c].path, b) PROVE FilesStay
    BY <1>0, <1>4 DEF WriteFile, FilesStay, NewFile
<1>5. CASE SaveContent(c)
    BY <1>1, <1>4, <1>5 DEF SaveContent
<1>6. CASE \/ SoftDelete(c) \/ Restore(c) \/ Purge(c) \/ EditMetadata(c) \/ PurgeRow(c)
           \/ FindTarget(c) \/ ProbeTarget(c) \/ RenameRow(c) \/ RereadRow(c)
           \/ VerifyContent(c) \/ StatContent(c) \/ RecordContent(c)
    BY <1>1, <1>6 DEF SoftDelete, Restore, Purge, EditMetadata, PurgeRow, OneStatement, FindTarget,
                      ProbeTarget, RenameRow, RereadRow, VerifyContent, StatContent, RecordContent
<1>. QED
    BY <1>3, <1>5, <1>6 DEF OpStep

(* A row that a step leaves in the catalog has the hash and the stat it     *)
(* had, or no hash, or those an edit has recorded.                         *)
LEMMA OpStepHashes ==
    ASSUME TypeOK, NEW c \in Callers, OpStep(c), NEW u \in Files, InCatalog(u)'
    PROVE  \/ InCatalog(u) /\ row'[u].hash = row[u].hash /\ row'[u].stamp = row[u].stamp
           \/ RecordContent(c) /\ row'[u].hash = op[c].content /\ row'[u].stamp = op[c].stamp
<1>0. row[u] \in RowType /\ row \in [Files -> RowType]
    BY DEF TypeOK
<1>1. CASE row'[u] = row[u]
    BY <1>1 DEF InCatalog
<1>2. row'[u] # PurgedRow
    BY DEF InCatalog, PurgedRow, NewRow
<1>3. ASSUME row'[u] # row[u] PROVE InCatalog(u)
    BY <1>0, <1>3 DEF OpStep, SoftDelete, Restore, Purge, EditMetadata, PurgeRow, OneStatement, UpdateRow,
                      RemoveFile, FindTarget, ProbeTarget, MoveFile, RenameRow, RereadRow, RollBack,
                      SaveContent, VerifyContent, StatContent, RecordContent, UpdatePath, RowsAt
<1>4. CASE row'[u] = SoftDeleted(row[u], op[c].at) \/ row'[u] = Restored(row[u])
    BY <1>0, <1>1, <1>3, <1>4 DEF SoftDeleted, Restored, RowType
<1>5. CASE row'[u] = Retitled(row[u]) \/ row'[u] = Renamed(row[u], op[c].target)
    BY <1>0, <1>1, <1>3, <1>5 DEF Retitled, Renamed, RowType
<1>6. CASE RecordContent(c) /\ row'[u] = Rehashed(row[u], op[c].content, op[c].stamp)
    BY <1>0, <1>6 DEF Rehashed, RowType
<1>. QED
    BY <1>1, <1>2, <1>4, <1>5, <1>6, OpStepRows

(* Every statement of a request keeps what the hashes describe.            *)
LEMMA OpStepDescribes ==
    ASSUME VerifiedStays, TypeOK, HashIInv, NEW c \in Callers, OpStep(c)
    PROVE  HashIInv'
<1>0. op[c] \in OpType /\ op \in [Callers -> OpType] /\ disk \in [Paths -> DiskType]
      /\ op[c].stamp \in Stamps
    BY DEF TypeOK, OpType
<1>1. /\ StampsTellBytes' /\ StampsArePast'
      /\ \A b, s : s \in Stamps /\ Describes(b, s) => Describes(b, s)'
    BY OpStepFiles, FilesKeepStamps DEF HashIInv
<1>2. HashesDescribe'
    <2>1. ASSUME NEW u \in Files, InCatalog(u)', row'[u].hash # NoHash
          PROVE  Describes(row[u].hash, row[u].stamp)'
        <3>1. CASE InCatalog(u) /\ row'[u].hash = row[u].hash /\ row'[u].stamp = row[u].stamp
            <4>1. row[u].stamp \in Stamps /\ Describes(row[u].hash, row[u].stamp)
                BY <2>1, <3>1 DEF HashIInv, HashesDescribe, TypeOK, RowType
            <4>. QED
                BY <1>1, <3>1, <4>1 DEF Describes
        <3>2. CASE RecordContent(c) /\ row'[u].hash = op[c].content /\ row'[u].stamp = op[c].stamp
            <4>1. Describes(op[c].content, op[c].stamp)
                BY <3>2 DEF RecordContent, HashIInv, EditsDescribe
            <4>. QED
                BY <1>0, <1>1, <3>2, <4>1 DEF Describes
        <3>. QED
            BY <2>1, <3>1, <3>2, OpStepHashes
    <2>. QED
        BY <2>1 DEF HashesDescribe, Describes
<1>3. ASSUME At(c, "edit_content", "stat")' PROVE
      disk'[op'[c].path].present => disk'[op'[c].path].bytes = op'[c].content
    <2>1. VerifyContent(c) /\ op' = [op EXCEPT ![c].pc = "stat"]
        BY <1>0, <1>3 DEF OpStep, SoftDelete, Restore, Purge, EditMetadata, PurgeRow, OneStatement,
                    RemoveFile, FindTarget, ProbeTarget, MoveFile, RenameRow, RereadRow, RollBack,
                    SaveContent, VerifyContent, StatContent, RecordContent, At, GoTo, Answer, IdleOp, OpType
    <2>2. op'[c].path = op[c].path /\ op'[c].content = op[c].content
        BY <1>0, <2>1 DEF OpType
    <2>. QED
        BY <1>0, <2>1, <2>2 DEF VerifyContent, GoTo, Answer, IdleOp, OpType
<1>4. ASSUME At(c, "edit_content", "record")' PROVE Describes(op[c].content, op[c].stamp)'
    <2>0. StatContent(c) /\ ~ Answer(c)
        <3>1. ~ Answer(c)
            BY <1>0, <1>4 DEF Answer, IdleOp, At
        <3>2. ~ \E pc \in OpPCs \ {"record"} : GoTo(c, pc)
            BY <1>0, <1>4 DEF GoTo, OpType, At
        <3>. QED
            BY <3>1, <3>2 DEF OpStep, SoftDelete, Restore, Purge, EditMetadata, PurgeRow, OneStatement,
                    RemoveFile, FindTarget, ProbeTarget, MoveFile, RenameRow, RereadRow, RollBack,
                    SaveContent, VerifyContent, RecordContent, OpPCs
    <2>1. /\ At(c, "edit_content", "stat") /\ disk[op[c].path].present
          /\ op'[c] = [op[c] EXCEPT !.pc = "record", !.stamp = disk[op[c].path].stamp]
          /\ UNCHANGED <<disk, writes>>
        BY <1>0, <2>0 DEF StatContent
    <2>2. op'[c].content = op[c].content /\ op'[c].stamp = disk[op[c].path].stamp
        BY <1>0, <2>1 DEF OpType
    <2>3. disk[op[c].path].bytes = op[c].content /\ op[c].path \in Paths
        BY <1>0, <2>1 DEF HashIInv, EditsDescribe, OpType
    <2>. QED
        BY <2>1, <2>2, <2>3 DEF Describes, HashIInv, StampsTellBytes, StampsArePast
<1>5. ASSUME NEW d \in Callers, d # c
      PROVE  /\ At(d, "edit_content", "stat")' =>
                    (disk'[op'[d].path].present => disk'[op'[d].path].bytes = op'[d].content)
             /\ At(d, "edit_content", "record")' => Describes(op[d].content, op[d].stamp)'
    <2>1. op'[d] = op[d] /\ op[d].stamp \in Stamps
        BY <1>5, OpStepFrame DEF TypeOK, OpType
    <2>2. CASE At(d, "edit_content", "stat")
        BY <2>1, <2>2 DEF VerifiedStays, HashIInv, EditsDescribe, At
    <2>3. CASE At(d, "edit_content", "record")
        BY <1>1, <2>1, <2>3 DEF HashIInv, EditsDescribe, At, Describes
    <2>. QED
        BY <2>1, <2>2, <2>3 DEF At
<1>6. EditsDescribe'
    BY <1>3, <1>4, <1>5 DEF EditsDescribe, At
<1>. QED
    BY <1>1, <1>2, <1>6 DEF HashIInv

(* Other programs write files of their own, or remove some.                *)
LEMMA ExternalFiles ==
    ASSUME TypeOK, StampsArePast, NEW w \in Paths, External(w)
    PROVE  FilesStay
<1>0. disk \in [Paths -> DiskType] /\ writes \in Int /\ 0 <= writes
    BY Numbers, BoundsAssumption DEF TypeOK, Stamps
<1>1. Absent.stamp = 0 /\ ~ Absent.present
    BY DEF Absent
<1>2. CASE WriteFile(w, Other)
    BY <1>0, <1>2 DEF WriteFile, FilesStay, NewFile
<1>3. CASE disk' = [disk EXCEPT ![w] = Absent] /\ UNCHANGED writes
    BY <1>0, <1>1, <1>3 DEF FilesStay
<1>. QED
    BY <1>2, <1>3 DEF External

(* Nothing else writes a hash.                                             *)
LEMMA OthersDescribe ==
    ASSUME VerifiedStays, WalkTypeOK, HashIInv, [WalkNext]_allVars,
           \A c \in Callers : ~ OpStep(c)
    PROVE  HashIInv'
<1>0. row \in [Files -> RowType] /\ op \in [Callers -> OpType] /\ TypeOK
    BY DEF WalkTypeOK, TypeOK
<1>1. FilesStay
    <2>1. CASE UNCHANGED <<disk, writes>>
        BY <2>1 DEF FilesStay
    <2>. QED
        BY <1>0, <2>1, ExternalFiles DEF HashIInv, WalkNext, FileStep, Request, Ask, Surroundings,
              Tick, Restart, RefreshEntry, IndexEntry, allVars
<1>2. /\ StampsTellBytes' /\ StampsArePast'
      /\ \A b, s : s \in Stamps /\ Describes(b, s) => Describes(b, s)'
    BY <1>0, <1>1, FilesKeepStamps DEF HashIInv
<1>3. ASSUME NEW u \in Files, InCatalog(u)', row'[u].hash # NoHash
      PROVE  InCatalog(u) /\ row'[u].hash = row[u].hash /\ row'[u].stamp = row[u].stamp
    <2>1. CASE row'[u] = row[u]
        BY <1>3, <2>1 DEF InCatalog
    <2>2. ASSUME NEW e \in Refreshes, RefreshEntry(e), row'[u] # row[u]
          PROVE  /\ InCatalog(u)
                 /\ row'[u].hash = row[u].hash /\ row'[u].stamp = row[u].stamp
        <3>1. InCatalog(u)
            BY <1>3, <2>2, RefreshKeepsPlaces DEF InCatalog
        <3>2. row'[u] # Restatted(row[u], refresh[e].stamp)
            BY <1>0, <1>3 DEF Restatted, RowType
        <3>3. CASE row'[u] = MissedRow(row[u]) \/ row'[u] = Filled(row[u])
            BY <1>0, <3>1, <3>3 DEF MissedRow, Filled, RowType
        <3>4. CASE row'[u] = [row[u] EXCEPT !.extracted = TRUE]
            BY <1>0, <3>1, <3>4 DEF RowType
        <3>. QED
            BY <2>2, <3>2, <3>3, <3>4, RefreshRows
    <2>3. ASSUME NEW e \in Indexes, IndexEntry(e), row'[u] # row[u]
          PROVE  /\ InCatalog(u)
                 /\ row'[u].hash = row[u].hash /\ row'[u].stamp = row[u].stamp
        <3>1. row'[u] # NewRow(e[2], index[e].stamp)
            BY <1>3 DEF NewRow
        <3>0. InCatalog(u)
            BY <2>3, <3>1, IndexRows
        <3>2. CASE row'[u] = [row[u] EXCEPT !.extracted = TRUE]
            BY <1>0, <3>0, <3>2 DEF RowType
        <3>3. ASSUME NEW t \in {"empty", "tag"}, row'[u] = [row[u] EXCEPT !.title = t]
              PROVE  row'[u].hash = row[u].hash /\ row'[u].stamp = row[u].stamp
            BY <1>0, <3>3 DEF RowType
        <3>. QED
            BY <2>3, <3>0, <3>1, <3>2, <3>3, IndexRows
    <2>. QED
        BY <2>1, <2>2, <2>3, WalkRows
<1>4. HashesDescribe'
    <2>1. ASSUME NEW u \in Files, InCatalog(u)', row'[u].hash # NoHash
          PROVE  Describes(row[u].hash, row[u].stamp)'
        <3>1. InCatalog(u) /\ row'[u].hash = row[u].hash /\ row'[u].stamp = row[u].stamp
            BY <1>3, <2>1
        <3>2. row[u].stamp \in Stamps /\ Describes(row[u].hash, row[u].stamp)
            BY <1>0, <2>1, <3>1 DEF HashIInv, HashesDescribe, RowType
        <3>. QED
            BY <1>2, <3>1, <3>2 DEF Describes
    <2>. QED
        BY <2>1 DEF HashesDescribe, Describes
<1>5. ASSUME NEW c \in Callers
      PROVE  \/ op'[c] = op[c]
             \/ op'[c].pc \notin {"stat", "record"}
    <2>1. ASSUME NEW d \in Callers, NEW verb \in Verbs, NEW u \in Files, NEW p \in Paths,
                 NEW content \in Bytes, Ask(d, verb, u, p, content)
          PROVE  op'[c] = op[c] \/ op'[c].pc \notin {"stat", "record"}
        <3>1. CASE c # d
            BY <1>0, <2>1, <3>1 DEF Ask
        <3>2. op'[d].pc = FirstPC(verb)
            BY <1>0, <2>1 DEF Ask
        <3>3. op'[d].pc \notin {"stat", "record"}
            BY <3>2 DEF FirstPC
        <3>. QED
            BY <3>1, <3>3
    <2>2. CASE Restart
        BY <2>2 DEF Restart, IdleOp
    <2>3. CASE UNCHANGED op
        BY <2>3
    <2>. QED
        BY <2>1, <2>2, <2>3 DEF WalkNext, FileStep, Request, Surroundings, Tick, External, allVars,
              RefreshEntry, IndexEntry
<1>6. EditsDescribe'
    <2>1. ASSUME NEW c \in Callers, op'[c] = op[c], At(c, "edit_content", "stat")
          PROVE  disk'[op'[c].path].present => disk'[op'[c].path].bytes = op'[c].content
        BY <2>1 DEF VerifiedStays, HashIInv, EditsDescribe
    <2>2. ASSUME NEW c \in Callers, op'[c] = op[c], At(c, "edit_content", "record")
          PROVE  Describes(op[c].content, op[c].stamp)'
        <3>1. op[c].stamp \in Stamps /\ Describes(op[c].content, op[c].stamp)
            BY <1>0, <2>2 DEF HashIInv, EditsDescribe, OpType
        <3>. QED
            BY <1>2, <2>2, <3>1 DEF Describes
    <2>. QED
        BY <1>5, <2>1, <2>2 DEF EditsDescribe, At, Describes
<1>. QED
    BY <1>2, <1>4, <1>6 DEF HashIInv

(* What the hashes describe, at first.                                     *)
LEMMA InitDescribes == Init => HashIInv
<1>. SUFFICES ASSUME Init PROVE HashIInv
    OBVIOUS
<1>1. \A p \in Paths : disk[p].stamp = 0 /\ disk[p].bytes = Original
    BY DEF Init, Absent
<1>2. \A u \in Files : row[u].hash = NoHash
    <2>1. PICK place \in [Cataloged -> Paths] :
              row = [u \in Files |->
                    IF u \in Cataloged
                      THEN [NewRow(place[u], 0) EXCEPT !.extracted = TRUE]
                      ELSE [NewRow(SomePath, 0) EXCEPT !.state = "none"]]
        BY DEF Init
    <2>. QED
        BY <2>1 DEF NewRow
<1>3. writes = 0 /\ \A c \in Callers : op[c].pc = "idle"
    BY DEF Init, IdleOp
<1>. QED
    BY <1>1, <1>2, <1>3 DEF HashIInv, StampsTellBytes, StampsArePast, HashesDescribe, EditsDescribe, At

(* FR-FC-10: whatever requests, walks and other programs do at once, and    *)
(* whichever steps fail, a row with the stat of the file on disk carries    *)
(* the hash of its bytes, as long as nobody touches a file between the      *)
(* verification of its edit and the stat that follows (edit_content.rs).    *)
THEOREM VerifiedTheorem ==
    WalkSpec /\ [][VerifiedStays]_allVars => []HashDescribesBytes
<1>1. WalkInit => WalkTypeOK /\ HashIInv
    BY WalkTypesHold, InitDescribes DEF WalkInit
<1>2. WalkTypeOK /\ HashIInv /\ [WalkNext]_allVars /\ [VerifiedStays]_allVars
        => (WalkTypeOK /\ HashIInv)'
    <2>. SUFFICES ASSUME WalkTypeOK, HashIInv, [WalkNext]_allVars, [VerifiedStays]_allVars
                  PROVE  (WalkTypeOK /\ HashIInv)'
        OBVIOUS
    <2>1. VerifiedStays
        BY DEF VerifiedStays, allVars
    <2>. QED
        BY <2>1, WalkTypesKept, OpStepDescribes, OthersDescribe DEF WalkTypeOK
<1>3. WalkTypeOK /\ HashIInv => HashDescribesBytes
    BY DEF WalkTypeOK, TypeOK, RowType, HashIInv, HashesDescribe, Describes, HashDescribesBytes
<1>. QED
    BY <1>1, <1>2, <1>3, PTL DEF WalkSpec

(* A step that changes the disk is that of a request, which goes on or ends. *)
LEMMA AloneChanges ==
    ASSUME "external" \notin Faults, WalkTypeOK, [WalkNext]_allVars, disk' # disk
    PROVE  \E c \in Callers : op'[c] # op[c]
<1>0. op \in [Callers -> OpType]
    BY DEF WalkTypeOK, TypeOK
<1>1. PICK c \in Callers : RemoveFile(c) \/ MoveFile(c) \/ RollBack(c) \/ SaveContent(c)
    <2>1. \E c \in Callers : OpStep(c)
        BY DEF WalkNext, FileStep, Request, Ask, Surroundings, Tick, External, Restart, RefreshEntry,
               IndexEntry, allVars
    <2>. QED
        BY <2>1 DEF OpStep, SoftDelete, Restore, Purge, EditMetadata, PurgeRow, OneStatement, FindTarget,
               ProbeTarget, RenameRow, RereadRow, VerifyContent, StatContent, RecordContent
<1>2. op[c].pc \in {"remove", "move", "rollback", "save", "resave"}
    BY <1>1 DEF RemoveFile, MoveFile, RollBack, SaveContent, At
<1>3. op'[c].pc # op[c].pc
    BY <1>0, <1>1, <1>2 DEF RemoveFile, MoveFile, RollBack, SaveContent, At, GoTo, Answer, IdleOp, OpType
<1>. QED
    BY <1>3

(* Nobody else is there to touch it while one request runs at a time and no *)
(* other program writes, so that FR-FC-10 holds then without more ado.      *)
THEOREM HashTheorem ==
    ASSUME OneCaller, "external" \notin Faults
    PROVE  WalkSpec => []HashDescribesBytes
<1>1. ASSUME WalkTypeOK, [WalkNext]_allVars PROVE VerifiedStays
    BY <1>1, AloneChanges DEF OneCaller, VerifiedStays
<1>2. WalkTypeOK /\ [WalkNext]_allVars => [VerifiedStays]_allVars
    BY <1>1
<1>3. WalkSpec => [][VerifiedStays]_allVars
    BY <1>2, WalkTypeCorrect, PTL DEF WalkSpec
<1>. QED
    BY <1>3, VerifiedTheorem, PTL

-----------------------------------------------------------------------------
(* No file is lost. *)

(* A rename holds its two paths, and a purge on disk its one until it has  *)
(* removed what is there.                                                  *)
HoldsPaths(o) ==
    \/ o.verb = "rename" /\ o.pc # "idle"
    \/ o.verb = "purge_on_disk" /\ o.pc = "remove"

(* Nobody else changes what is at the paths of such a request: rename.rs   *)
(* and purge_on_disk.rs look at them and act later, and hold no lock.      *)
PathsStay ==
    \A c \in Callers :
        HoldsPaths(op[c]) /\ op'[c] = op[c]
            => /\ disk'[op[c].path] = disk[op[c].path]
               /\ disk'[op[c].target] = disk[op[c].target]

(* What is on the disk at the path of a row is its file, or no row's.      *)
OwnOrNobodys(p, u) == disk[p].present => disk[p].id \notin Files \ {u}

RowsOwnTheirFiles == \A u \in Files : InCatalog(u) => OwnOrNobodys(row[u].path, u)

NoRowAt(p) == \A v \in Files : InCatalog(v) => row[v].path # p
NoOtherAt(p, u) == \A v \in Files : InCatalog(v) /\ row[v].path = p => v = u

HasMoved(o) == o.pc \in {"write", "reread", "rollback"}

(* A rename knows that no other row is at its path.  Its target is free    *)
(* when it moves the file, and from then on both paths are its own.        *)
RenameKnows(o) ==
    /\ o.target # o.path
    /\ NoOtherAt(o.path, o.file)
    /\ o.pc \in {"cataloged", "exists", "move"} => OwnOrNobodys(o.path, o.file)
    /\ o.pc = "cataloged" /\ InCatalog(o.file) /\ row[o.file].path = o.target
          => disk[o.target].present
    /\ o.pc = "exists" => NoRowAt(o.target) \/ disk[o.target].present
    /\ o.pc \in {"move", "write"} => NoRowAt(o.target)
    /\ o.pc = "move" => ~ disk[o.target].present
    /\ HasMoved(o) =>
          /\ NoOtherAt(o.target, o.file) /\ OwnOrNobodys(o.target, o.file)
          /\ disk[o.target].present /\ ~ disk[o.path].present

RequestKnows(o) ==
    /\ o.verb = "rename" /\ o.pc # "idle" => RenameKnows(o)
    /\ o.verb = "purge_on_disk" /\ o.pc = "remove" => OwnOrNobodys(o.path, o.file)

(* The row that w is about to move is not on its way to a path of o's.     *)
Apart(o, w) ==
    w.verb = "rename" /\ w.pc = "write" /\ o.verb = "rename" =>
        /\ HasMoved(o) => w.target # o.target
        /\ o.pc # "idle" => w.target # o.path

RequestsKnow ==
    /\ \A c \in Callers : RequestKnows(op[c])
    /\ \A c, d \in Callers : c # d => Apart(op[c], op[d])

PlaceIInv == TypeOK /\ RowsSound /\ RowsOwnTheirFiles /\ RequestsKnow

(* A row goes from one path to another by a rename's statement only.       *)
RowsGo ==
    \A u \in Files : InCatalog(u)' =>
        /\ InCatalog(u)
        /\ \/ row'[u].path = row[u].path
           \/ \E w \in Callers :
                 RenameRow(w) /\ u = op[w].file /\ row'[u].path = op[w].target

(* So it is with the statements of every request.                          *)
LEMMA OpStepGoes ==
    ASSUME TypeOK, NEW c \in Callers, OpStep(c)
    PROVE  RowsGo
<1>. SUFFICES ASSUME NEW u \in Files, InCatalog(u)'
              PROVE  /\ InCatalog(u)
                     /\ \/ row'[u].path = row[u].path
                        \/ RenameRow(c) /\ u = op[c].file /\ row'[u].path = op[c].target
    BY DEF RowsGo
<1>0. row[u] \in RowType /\ row \in [Files -> RowType]
    BY DEF TypeOK
<1>1. CASE row'[u] = row[u]
    BY <1>1 DEF InCatalog
<1>2. row'[u] # PurgedRow
    BY DEF InCatalog, PurgedRow, NewRow
<1>3. ASSUME row'[u] # row[u] PROVE InCatalog(u)
    BY <1>0, <1>3 DEF OpStep, SoftDelete, Restore, Purge, EditMetadata, PurgeRow, OneStatement, UpdateRow,
                      RemoveFile, FindTarget, ProbeTarget, MoveFile, RenameRow, RereadRow, RollBack,
                      SaveContent, VerifyContent, StatContent, RecordContent, UpdatePath, RowsAt
<1>4. CASE row'[u] = SoftDeleted(row[u], op[c].at) \/ row'[u] = Restored(row[u])
    BY <1>0, <1>1, <1>3, <1>4 DEF SoftDeleted, Restored, RowType
<1>5. CASE row'[u] = Retitled(row[u]) \/ row'[u] = Rehashed(row[u], op[c].content, op[c].stamp)
    BY <1>0, <1>1, <1>3, <1>5 DEF Retitled, Rehashed, RowType
<1>6. CASE RenameRow(c) /\ u = op[c].file /\ row'[u] = Renamed(row[u], op[c].target)
    BY <1>0, <1>1, <1>3, <1>6 DEF Renamed, RowType
<1>. QED
    BY <1>1, <1>2, <1>4, <1>5, <1>6, OpStepRows

(* A request that waits still knows what it knew, though others go on.     *)
LEMMA WaitingKnows ==
    ASSUME PathsStay, PlaceIInv, RowsGo, NEW d \in Callers, op'[d] = op[d]
    PROVE  RequestKnows(op[d])'
<1>0. op \in [Callers -> OpType] /\ op[d] \in OpType /\ op[d].file \in Files /\ RequestKnows(op[d])
    BY DEF PlaceIInv, TypeOK, OpType, RequestsKnow
<1>1. CASE op[d].verb = "purge_on_disk"
    BY <1>0, <1>1 DEF PathsStay, HoldsPaths, RequestKnows, OwnOrNobodys
<1>2. ASSUME op[d].verb = "rename", op[d].pc # "idle" PROVE RequestKnows(op[d])'
    <2>0. /\ RenameKnows(op[d])
          /\ disk'[op[d].path] = disk[op[d].path] /\ disk'[op[d].target] = disk[op[d].target]
        BY <1>0, <1>2 DEF PathsStay, HoldsPaths, RequestKnows
    <2>1. ASSUME NEW w \in Callers, RenameRow(w)
          PROVE  /\ op[w].target # op[d].path /\ disk[op[w].target].present
                 /\ HasMoved(op[d]) => op[w].target # op[d].target
        <3>1. op[w].verb = "rename" /\ op[w].pc = "write" /\ op'[w].pc # "write"
            BY <1>0, <2>1 DEF RenameRow, At, GoTo, OpType
        <3>2. w # d
            BY <3>1
        <3>3. Apart(op[d], op[w]) /\ RequestKnows(op[w])
            BY <3>2 DEF PlaceIInv, RequestsKnow
        <3>. QED
            BY <1>2, <3>1, <3>3 DEF Apart, RequestKnows, RenameKnows, HasMoved
    <2>2. NoOtherAt(op[d].path, op[d].file)'
        BY <1>0, <2>0, <2>1 DEF RenameKnows, NoOtherAt, RowsGo
    <2>3. ASSUME HasMoved(op[d]) PROVE NoOtherAt(op[d].target, op[d].file)'
        BY <1>0, <2>0, <2>1, <2>3 DEF RenameKnows, NoOtherAt, RowsGo
    <2>4. ASSUME NoRowAt(op[d].target), HasMoved(op[d]) \/ ~ disk[op[d].target].present
          PROVE  NoRowAt(op[d].target)'
        BY <1>0, <2>1, <2>4 DEF NoRowAt, RowsGo
    <2>5. ASSUME InCatalog(op[d].file)', row'[op[d].file].path = op[d].target, op[d].pc = "cataloged"
          PROVE  disk'[op[d].target].present
        BY <1>0, <2>0, <2>1, <2>5 DEF RenameKnows, RowsGo
    <2>6. RenameKnows(op[d])'
        BY <1>0, <2>0, <2>2, <2>3, <2>4, <2>5 DEF RenameKnows, HasMoved, OwnOrNobodys
    <2>. QED
        BY <1>2, <2>6 DEF RequestKnows
<1>. QED
    BY <1>0, <1>1, <1>2 DEF RequestKnows

(* A rename is past the move of its file by that move only.                *)
LEMMA PastTheMove ==
    ASSUME TypeOK, NEW c \in Callers, OpStep(c), op'[c].verb = "rename", HasMoved(op'[c]),
           op'[c].pc = "write" \/ ~ HasMoved(op[c])
    PROVE  /\ At(c, "rename", "move") /\ disk[op[c].path].present
           /\ disk' = Moved(op[c].path, op[c].target)
<1>0. op \in [Callers -> OpType] /\ op[c] \in OpType
    BY DEF TypeOK
<1>1. ~ Answer(c)
    BY <1>0 DEF Answer, IdleOp, HasMoved
<1>2. ASSUME NEW pc, GoTo(c, pc) PROVE op'[c].pc = pc /\ op'[c].verb = op[c].verb
    BY <1>0, <1>2 DEF GoTo, OpType
<1>3. op[c].verb = "rename"
    BY <1>1, OpStepFrame DEF IdleOp
<1>4. ~ FindTarget(c) /\ ~ ProbeTarget(c) /\ ~ RenameRow(c) /\ ~ RereadRow(c)
    BY <1>1, <1>2 DEF FindTarget, ProbeTarget, RenameRow, RereadRow, HasMoved, At
<1>. QED
    BY <1>0, <1>1, <1>2, <1>3, <1>4
       DEF OpStep, SoftDelete, Restore, Purge, EditMetadata, PurgeRow, OneStatement, RemoveFile, MoveFile,
           RollBack, SaveContent, VerifyContent, StatContent, RecordContent, At

(* No two requests are in each other's way, whichever of them steps.       *)
LEMMA StepApart ==
    ASSUME PathsStay, PlaceIInv, NEW c \in Callers, OpStep(c), NEW d \in Callers, d # c
    PROVE  Apart(op[c], op[d])' /\ Apart(op[d], op[c])'
<1>0. /\ TypeOK /\ op \in [Callers -> OpType] /\ disk \in [Paths -> DiskType]
      /\ op[c].path \in Paths /\ op[c].target \in Paths
      /\ RequestKnows(op[c]) /\ RequestKnows(op[d]) /\ Apart(op[c], op[d]) /\ Apart(op[d], op[c])
    BY DEF PlaceIInv, TypeOK, OpType, RequestsKnow
<1>1. /\ op'[d] = op[d]
      /\ \/ op'[c] = IdleOp
         \/ /\ op'[c].verb = op[c].verb /\ op'[c].path = op[c].path /\ op'[c].target = op[c].target
    BY <1>0, OpStepFrame
<1>2. op[c].pc # "idle"
    BY DEF OpStep, SoftDelete, Restore, Purge, EditMetadata, PurgeRow, OneStatement, RemoveFile, MoveFile,
           FindTarget, ProbeTarget, RenameRow, RereadRow, RollBack, SaveContent, VerifyContent,
           StatContent, RecordContent, At
<1>3. ASSUME op'[c].verb = "rename", HasMoved(op'[c]), op'[c].pc = "write" \/ ~ HasMoved(op[c])
      PROVE  /\ ~ disk[op[c].target].present /\ disk'[op[c].target].present
             /\ op[c].verb = "rename"
    <2>1. /\ At(c, "rename", "move") /\ disk[op[c].path].present
          /\ disk' = Moved(op[c].path, op[c].target)
        BY <1>0, <1>3, PastTheMove
    <2>2. ~ disk[op[c].target].present /\ op[c].target # op[c].path
        BY <1>0, <2>1 DEF At, RequestKnows, RenameKnows
    <2>. QED
        BY <1>0, <2>1, <2>2 DEF Moved, At
<1>4. ASSUME op[d].verb = "rename", op[d].pc = "write", op'[c].verb = "rename"
      PROVE  /\ HasMoved(op'[c]) => op[d].target # op'[c].target
             /\ op'[c].pc # "idle" => op[d].target # op'[c].path
    <2>1. disk[op[d].target].present
        BY <1>0, <1>4 DEF RequestKnows, RenameKnows, HasMoved
    <2>2. op[c].verb = "rename" /\ op'[c].path = op[c].path /\ op'[c].target = op[c].target
        BY <1>1, <1>4 DEF IdleOp
    <2>. QED
        BY <1>0, <1>2, <1>3, <1>4, <2>1, <2>2 DEF Apart
<1>5. ASSUME op'[c].verb = "rename", op'[c].pc = "write", op[d].verb = "rename"
      PROVE  /\ HasMoved(op[d]) => op'[c].target # op[d].target
             /\ op[d].pc # "idle" => op'[c].target # op[d].path
    <2>1. /\ ~ disk[op[c].target].present /\ disk'[op[c].target].present
          /\ op'[c].target = op[c].target
        BY <1>1, <1>3, <1>5 DEF HasMoved, IdleOp
    <2>2. HasMoved(op[d]) => disk[op[d].target].present
        BY <1>0, <1>5 DEF RequestKnows, RenameKnows, HasMoved
    <2>3. op[d].pc # "idle" => disk'[op[d].path] = disk[op[d].path]
        BY <1>1, <1>5 DEF PathsStay, HoldsPaths
    <2>. QED
        BY <2>1, <2>2, <2>3
<1>. QED
    BY <1>1, <1>4, <1>5 DEF Apart

(* A file that is written keeps its owner.                                 *)
LEMMA WritesKeepOwners ==
    ASSUME TypeOK, RowsOwnTheirFiles, UNCHANGED row, NEW w \in Paths, NEW b, WriteFile(w, b)
    PROVE  RowsOwnTheirFiles' /\ \A id \in Ids : OnDisk(id) => OnDisk(id)'
<1>0. row \in [Files -> RowType] /\ disk \in [Paths -> DiskType]
    BY DEF TypeOK
<1>1. \A p \in Paths : \/ disk'[p] = disk[p]
                       \/ disk[p].present /\ disk'[p].present /\ disk'[p].id = disk[p].id
                       \/ ~ disk[p].present /\ disk'[p].id \in Stamps
    <2>1. writes < MaxWrites => writes + 1 \in Stamps
        BY <1>0, Numbers DEF TypeOK
    <2>. QED
        BY <1>0, <2>1 DEF WriteFile
<1>2. RowsOwnTheirFiles'
    BY <1>0, <1>1, IdsAssumption DEF RowsOwnTheirFiles, OwnOrNobodys, InCatalog, RowType
<1>3. \A id \in Ids : OnDisk(id) => OnDisk(id)'
    BY <1>1 DEF OnDisk
<1>. QED
    BY <1>2, <1>3

(* Where the disk does not change, no row gets another's file, but by the  *)
(* statement of a rename, which knows whose file is at its target.         *)
LEMMA OwnersStay ==
    ASSUME PlaceIInv, RowsGo, UNCHANGED disk
    PROVE  RowsOwnTheirFiles' /\ \A id \in Ids : OnDisk(id) => OnDisk(id)'
<1>1. ASSUME NEW w \in Callers, RenameRow(w) PROVE OwnOrNobodys(op[w].target, op[w].file)
    BY <1>1 DEF RenameRow, At, PlaceIInv, RequestsKnow, RequestKnows, RenameKnows, HasMoved
<1>. QED
    BY <1>1 DEF PlaceIInv, RowsOwnTheirFiles, OwnOrNobodys, RowsGo, OnDisk

(* The steps of a rename that has yet to move its file.                    *)
LEMMA LooksPlace ==
    ASSUME PlaceIInv, NEW c \in Callers, FindTarget(c) \/ ProbeTarget(c) \/ RereadRow(c)
    PROVE  RequestKnows(op[c])'
<1>0. op[c] \in OpType /\ op \in [Callers -> OpType] /\ RequestKnows(op[c]) /\ op[c].file \in Files
    BY DEF PlaceIInv, TypeOK, OpType, RequestsKnow
<1>1. UNCHANGED <<row, disk>> /\ op[c].verb = "rename" /\ op[c].pc # "idle" /\ RenameKnows(op[c])
    BY <1>0 DEF FindTarget, ProbeTarget, RereadRow, At, RequestKnows
<1>2. CASE Answer(c)
    BY <1>0, <1>2 DEF Answer, IdleOp, RequestKnows
<1>3. ASSUME NEW pc \in {"exists", "move", "rollback"}, GoTo(c, pc)
      PROVE  /\ op'[c].pc = pc /\ op'[c].verb = op[c].verb /\ op'[c].file = op[c].file
             /\ op'[c].path = op[c].path /\ op'[c].target = op[c].target
    BY <1>0, <1>3 DEF GoTo, OpType
<1>4. CASE FindTarget(c) /\ GoTo(c, "exists") /\ RowsAt(op[c].target) \subseteq {op[c].file}
    <2>1. NoRowAt(op[c].target) \/ disk[op[c].target].present
        BY <1>1, <1>4 DEF FindTarget, At, RenameKnows, NoRowAt, RowsAt
    <2>. QED
        BY <1>0, <1>1, <1>3, <1>4, <2>1
           DEF FindTarget, At, RenameKnows, RequestKnows, NoRowAt, NoOtherAt, OwnOrNobodys, HasMoved, InCatalog
<1>5. CASE ProbeTarget(c) /\ GoTo(c, "move") /\ ~ disk[op[c].target].present
    BY <1>0, <1>1, <1>3, <1>5
       DEF ProbeTarget, At, RenameKnows, RequestKnows, NoRowAt, NoOtherAt, OwnOrNobodys, HasMoved, InCatalog
<1>6. CASE RereadRow(c) /\ GoTo(c, "rollback")
    BY <1>0, <1>1, <1>3, <1>6
       DEF RereadRow, At, RenameKnows, RequestKnows, NoRowAt, NoOtherAt, OwnOrNobodys, HasMoved, InCatalog
<1>. QED
    BY <1>2, <1>4, <1>5, <1>6 DEF FindTarget, ProbeTarget, RereadRow

(* The move: the target is nobody's, and what comes there is the row's.    *)
LEMMA MovePlaces ==
    ASSUME PlaceIInv, NEW c \in Callers, MoveFile(c)
    PROVE  /\ RowsOwnTheirFiles' /\ RequestKnows(op[c])'
           /\ \A id \in Ids : OnDisk(id) => OnDisk(id)'
<1>0. /\ op[c].file \in Files /\ op[c].path \in Paths /\ op[c].target \in Paths
      /\ row \in [Files -> RowType] /\ disk \in [Paths -> DiskType] /\ op \in [Callers -> OpType]
      /\ op[c] \in OpType /\ RequestKnows(op[c]) /\ RowsOwnTheirFiles
    BY DEF PlaceIInv, TypeOK, OpType, RequestsKnow
<1>1. /\ UNCHANGED row /\ op[c].verb = "rename" /\ op[c].pc = "move" /\ RenameKnows(op[c])
      /\ ~ Absent.present
    BY <1>0 DEF MoveFile, At, RequestKnows, Absent
<1>2. CASE Answer(c) /\ UNCHANGED disk
    BY <1>0, <1>1, <1>2 DEF Answer, IdleOp, RequestKnows, RowsOwnTheirFiles, OwnOrNobodys, InCatalog, OnDisk
<1>3. CASE disk[op[c].path].present /\ disk' = Moved(op[c].path, op[c].target) /\ GoTo(c, "write")
    <2>1. /\ disk'[op[c].target] = disk[op[c].path] /\ disk'[op[c].path] = Absent
          /\ \A p \in Paths : p # op[c].path /\ p # op[c].target => disk'[p] = disk[p]
        BY <1>0, <1>1, <1>3 DEF Moved, RenameKnows
    <2>2. /\ op'[c].pc = "write" /\ op'[c].verb = op[c].verb /\ op'[c].file = op[c].file
          /\ op'[c].path = op[c].path /\ op'[c].target = op[c].target
        BY <1>0, <1>3 DEF GoTo, OpType
    <2>3. RowsOwnTheirFiles'
        <3>1. ASSUME NEW u \in Files, InCatalog(u) PROVE OwnOrNobodys(row[u].path, u)'
            <4>1. row[u].path \in Paths /\ row[u].path # op[c].target
                BY <1>0, <1>1, <3>1 DEF RowType, NoRowAt, RenameKnows
            <4>. QED
                BY <1>0, <1>1, <2>1, <3>1, <4>1 DEF RowsOwnTheirFiles, OwnOrNobodys
        <3>. QED
            BY <1>1, <3>1 DEF RowsOwnTheirFiles, InCatalog, OwnOrNobodys
    <2>4. NoOtherAt(op[c].target, op[c].file)
        BY <1>1 DEF RenameKnows, NoOtherAt, NoRowAt
    <2>5. RequestKnows(op[c])'
        BY <1>0, <1>1, <1>3, <2>1, <2>2, <2>4
           DEF RequestKnows, RenameKnows, NoRowAt, NoOtherAt, InCatalog, OwnOrNobodys, HasMoved
    <2>6. ASSUME NEW id \in Ids, OnDisk(id) PROVE OnDisk(id)'
        BY <1>0, <1>1, <2>1, <2>6 DEF OnDisk, RenameKnows
    <2>. QED
        BY <2>3, <2>5, <2>6
<1>. QED
    BY <1>2, <1>3 DEF MoveFile

(* The way back: nobody has come to the path.                              *)
LEMMA RollBackPlaces ==
    ASSUME PlaceIInv, NEW c \in Callers, RollBack(c)
    PROVE  /\ RowsOwnTheirFiles' /\ RequestKnows(op[c])'
           /\ \A id \in Ids : OnDisk(id) => OnDisk(id)'
<1>0. /\ op[c].file \in Files /\ op[c].path \in Paths /\ op[c].target \in Paths
      /\ row \in [Files -> RowType] /\ disk \in [Paths -> DiskType] /\ op \in [Callers -> OpType]
      /\ RequestKnows(op[c]) /\ RowsOwnTheirFiles
    BY DEF PlaceIInv, TypeOK, OpType, RequestsKnow
<1>1. /\ UNCHANGED row /\ op[c].verb = "rename" /\ HasMoved(op[c]) /\ RenameKnows(op[c])
      /\ op[c].pc = "rollback" /\ Answer(c) /\ ~ Absent.present
    BY <1>0 DEF RollBack, At, RequestKnows, HasMoved, Absent
<1>2. RequestKnows(op[c])'
    BY <1>0, <1>1 DEF Answer, IdleOp, RequestKnows
<1>3. CASE UNCHANGED disk
    BY <1>0, <1>1, <1>2, <1>3 DEF RowsOwnTheirFiles, OwnOrNobodys, InCatalog, OnDisk
<1>4. CASE disk' = Moved(op[c].target, op[c].path)
    <2>1. /\ disk'[op[c].path] = disk[op[c].target] /\ disk'[op[c].target] = Absent
          /\ \A p \in Paths : p # op[c].path /\ p # op[c].target => disk'[p] = disk[p]
        BY <1>0, <1>1, <1>4 DEF Moved, RenameKnows
    <2>2. ASSUME NEW u \in Files, InCatalog(u) PROVE OwnOrNobodys(row[u].path, u)'
        <3>1. row[u].path \in Paths
            BY <1>0 DEF RowType
        <3>2. CASE row[u].path = op[c].path
            <4>1. u = op[c].file
                BY <1>1, <2>2, <3>2 DEF RenameKnows, NoOtherAt
            <4>. QED
                BY <1>1, <2>1, <3>2, <4>1 DEF RenameKnows, OwnOrNobodys
        <3>3. CASE row[u].path # op[c].path
            BY <1>0, <1>1, <2>1, <2>2, <3>1, <3>3 DEF RowsOwnTheirFiles, OwnOrNobodys
        <3>. QED
            BY <3>2, <3>3
    <2>3. RowsOwnTheirFiles'
        BY <1>1, <2>2 DEF RowsOwnTheirFiles, InCatalog, OwnOrNobodys
    <2>4. ASSUME NEW id \in Ids, OnDisk(id) PROVE OnDisk(id)'
        BY <1>0, <1>1, <2>1, <2>4 DEF OnDisk, RenameKnows
    <2>. QED
        BY <1>2, <2>3, <2>4
<1>. QED
    BY <1>3, <1>4 DEF RollBack

(* The statement: the row comes to the file that was moved.                *)
LEMMA RenameRowPlaces ==
    ASSUME PlaceIInv, NEW c \in Callers, RenameRow(c)
    PROVE  RequestKnows(op[c])'
<1>0. /\ op[c].file \in Files /\ row \in [Files -> RowType] /\ op \in [Callers -> OpType]
      /\ op[c] \in OpType /\ RequestKnows(op[c])
    BY DEF PlaceIInv, TypeOK, OpType, RequestsKnow
<1>1. /\ op[c].verb = "rename" /\ op[c].pc = "write" /\ UNCHANGED disk /\ RenameKnows(op[c])
    BY <1>0 DEF RenameRow, At, RequestKnows
<1>2. ASSUME NEW pc \in {"reread", "rollback"}, GoTo(c, pc)
      PROVE  /\ op'[c].pc = pc /\ op'[c].verb = op[c].verb /\ op'[c].file = op[c].file
             /\ op'[c].path = op[c].path /\ op'[c].target = op[c].target
    BY <1>0, <1>2 DEF GoTo, OpType
<1>3. CASE GoTo(c, "rollback") /\ UNCHANGED row
    BY <1>0, <1>1, <1>2, <1>3
       DEF RenameKnows, RequestKnows, NoOtherAt, OwnOrNobodys, InCatalog, HasMoved
<1>4. CASE /\ InCatalog(op[c].file) /\ GoTo(c, "reread")
           /\ UpdateRow(op[c].file, Renamed(row[op[c].file], op[c].target))
    <2>1. /\ row'[op[c].file].path = op[c].target /\ row'[op[c].file].state = row[op[c].file].state
          /\ \A u \in Files : u # op[c].file => row'[u] = row[u]
        BY <1>0, <1>4 DEF UpdateRow, Renamed, RowType
    <2>. QED
        BY <1>0, <1>1, <1>2, <1>4, <2>1
           DEF RenameKnows, RequestKnows, NoOtherAt, OwnOrNobodys, InCatalog, HasMoved
<1>. QED
    BY <1>3, <1>4 DEF RenameRow

(* A purge removes the file of its row, or nobody's.                       *)
LEMMA RemovePlaces ==
    ASSUME PlaceIInv, NEW c \in Callers, RemoveFile(c)
    PROVE  /\ RowsOwnTheirFiles' /\ RequestKnows(op[c])'
           /\ \A id \in Ids : OnDisk(id) /\ ~ OnDisk(id)' => id \notin Files \ {op[c].file}
<1>0. /\ op[c].path \in Paths /\ disk \in [Paths -> DiskType] /\ op \in [Callers -> OpType]
      /\ row \in [Files -> RowType] /\ op[c] \in OpType /\ RequestKnows(op[c]) /\ RowsOwnTheirFiles
      /\ ~ Absent.present /\ UNCHANGED row /\ At(c, "purge_on_disk", "remove")
    BY DEF PlaceIInv, TypeOK, OpType, RequestsKnow, Absent, RemoveFile
<1>1. CASE disk' = [disk EXCEPT ![op[c].path] = Absent] /\ GoTo(c, "write")
    <2>1. RowsOwnTheirFiles'
        BY <1>0, <1>1 DEF RowsOwnTheirFiles, OwnOrNobodys, InCatalog, RowType
    <2>2. op'[c].pc = "write" /\ op'[c].verb = "purge_on_disk"
        BY <1>0, <1>1 DEF GoTo, OpType, At
    <2>3. ASSUME NEW id \in Ids, OnDisk(id), ~ OnDisk(id)' PROVE id \notin Files \ {op[c].file}
        <3>1. PICK p \in Paths : disk[p].present /\ disk[p].id = id
            BY <2>3 DEF OnDisk
        <3>2. p = op[c].path
            BY <1>0, <1>1, <2>3, <3>1 DEF OnDisk
        <3>. QED
            BY <1>0, <3>1, <3>2 DEF OwnOrNobodys, RequestKnows, At
    <2>. QED
        BY <2>1, <2>2, <2>3 DEF RequestKnows
<1>2. CASE Answer(c) /\ UNCHANGED disk
    BY <1>0, <1>2 DEF RowsOwnTheirFiles, OwnOrNobodys, InCatalog, OnDisk, Answer, IdleOp, RequestKnows
<1>. QED
    BY <1>1, <1>2 DEF RemoveFile

(* Every step of a request leaves each row its file, and only a purge on   *)
(* disk takes a file away.                                                 *)
LEMMA OpStepPlaces ==
    ASSUME PathsStay, PlaceIInv, NEW c \in Callers, OpStep(c)
    PROVE  /\ RowsOwnTheirFiles' /\ RequestsKnow'
           /\ \A id \in Ids : OnDisk(id) /\ ~ OnDisk(id)' => RemoveFile(c) /\ id \notin Files \ {op[c].file}
<1>0. /\ TypeOK /\ RowsOwnTheirFiles /\ op[c] \in OpType /\ op[c].path \in Paths
      /\ op \in [Callers -> OpType]
    BY DEF PlaceIInv, TypeOK, OpType
<1>1. RowsGo
    BY <1>0, OpStepGoes
<1>2. /\ RowsOwnTheirFiles' /\ RequestKnows(op[c])'
      /\ \A id \in Ids : OnDisk(id) /\ ~ OnDisk(id)' => RemoveFile(c) /\ id \notin Files \ {op[c].file}
    <2>1. CASE RemoveFile(c)
        BY <2>1, RemovePlaces
    <2>2. CASE MoveFile(c)
        BY <2>2, MovePlaces
    <2>3. CASE RollBack(c)
        BY <2>3, RollBackPlaces
    <2>4. CASE SaveContent(c)
        <3>1. op'[c].verb = "edit_content" \/ op'[c].pc = "idle"
            BY <1>0, <2>4 DEF SaveContent, GoTo, Answer, OpType, IdleOp
        <3>2. UNCHANGED row /\ (UNCHANGED disk \/ \E b : WriteFile(op[c].path, b))
            BY <2>4 DEF SaveContent
        <3>3. RowsOwnTheirFiles' /\ \A id \in Ids : OnDisk(id) => OnDisk(id)'
            BY <1>0, <1>1, <3>2, WritesKeepOwners, OwnersStay
        <3>. QED
            BY <3>1, <3>3 DEF RequestKnows
    <2>5. CASE FindTarget(c) \/ ProbeTarget(c) \/ RereadRow(c) \/ RenameRow(c)
        <3>1. UNCHANGED disk
            BY <2>5 DEF FindTarget, ProbeTarget, RereadRow, RenameRow
        <3>. QED
            BY <1>1, <2>5, <3>1, LooksPlace, RenameRowPlaces, OwnersStay
    <2>6. CASE \/ SoftDelete(c) \/ Restore(c) \/ EditMetadata(c) \/ Purge(c) \/ PurgeRow(c)
               \/ VerifyContent(c) \/ StatContent(c) \/ RecordContent(c)
        <3>1. UNCHANGED disk
            BY <2>6 DEF SoftDelete, Restore, EditMetadata, Purge, PurgeRow, OneStatement,
                        VerifyContent, StatContent, RecordContent
        <3>2. op'[c] = IdleOp \/ op'[c].verb = "edit_content"
            BY <1>0, <2>6 DEF SoftDelete, Restore, EditMetadata, Purge, PurgeRow, OneStatement,
                        VerifyContent, StatContent, RecordContent, Answer, GoTo, At, OpType
        <3>3. RequestKnows(op[c])'
            BY <3>2 DEF RequestKnows, IdleOp
        <3>. QED
            BY <1>1, <3>1, <3>3, OwnersStay
    <2>. QED
        BY <2>1, <2>2, <2>3, <2>4, <2>5, <2>6 DEF OpStep
<1>3. ASSUME NEW d \in Callers, d # c PROVE RequestKnows(op[d])'
    BY <1>0, <1>1, <1>3, OpStepFrame, WaitingKnows
<1>4. ASSUME NEW d \in Callers, NEW e \in Callers, d # e PROVE Apart(op[d], op[e])'
    <2>1. CASE d = c \/ e = c
        BY <1>4, <2>1, StepApart
    <2>2. CASE d # c /\ e # c
        BY <1>0, <1>4, <2>2, OpStepFrame DEF PlaceIInv, RequestsKnow, Apart, HasMoved
    <2>. QED
        BY <2>1, <2>2
<1>. QED
    BY <1>2, <1>3, <1>4 DEF RequestsKnow

(* A request that is let in knows its row and the file at its path.        *)
LEMMA AskPlaces ==
    ASSUME PathsStay, PlaceIInv, NEW c \in Callers, NEW verb \in Verbs, NEW u \in Files, NEW p \in Paths,
           NEW content \in Bytes, Ask(c, verb, u, p, content)
    PROVE  RequestsKnow'
<1>0. op \in [Callers -> OpType] /\ RowsSound /\ RowsOwnTheirFiles /\ RequestsKnow
    BY DEF PlaceIInv, TypeOK
<1>1. /\ op'[c].verb = verb /\ op'[c].pc = FirstPC(verb) /\ op'[c].file = u
      /\ op'[c].path = row[u].path /\ op'[c].target = p /\ UNCHANGED <<row, disk>>
      /\ Admits(verb, u) /\ (verb = "rename" => p # row[u].path)
      /\ \A d \in Callers : d # c => op'[d] = op[d]
    BY <1>0 DEF Ask
<1>2. InCatalog(u)
    BY <1>1 DEF Admits, Restorable, Purgeable, InCatalog
<1>3. ~ HasMoved(op'[c]) \/ verb # "rename"
    BY <1>1 DEF FirstPC, HasMoved
<1>4. RequestKnows(op[c])'
    <2>1. OwnOrNobodys(row[u].path, u) /\ NoOtherAt(row[u].path, u)
        BY <1>0, <1>2 DEF RowsOwnTheirFiles, RowsSound, NoOtherAt
    <2>. QED
        BY <1>1, <1>2, <2>1
           DEF RequestKnows, RenameKnows, FirstPC, HasMoved, InCatalog, OwnOrNobodys, NoOtherAt, NoRowAt
<1>5. RowsGo
    BY <1>1 DEF RowsGo, InCatalog
<1>6. ASSUME NEW d \in Callers, d # c PROVE RequestKnows(op[d])'
    BY <1>1, <1>5, <1>6, WaitingKnows
<1>7. ASSUME NEW d \in Callers, NEW e \in Callers, d # e PROVE Apart(op[d], op[e])'
    <2>1. CASE d # c /\ e # c
        BY <1>0, <1>1, <1>7, <2>1 DEF RequestsKnow, Apart, HasMoved
    <2>2. CASE e = c
        <3>1. verb # "rename" \/ op'[c].pc # "write"
            BY <1>1 DEF FirstPC
        <3>. QED
            BY <1>1, <2>2, <3>1 DEF Apart
    <2>3. CASE d = c
        <3>1. ASSUME op[e].verb = "rename", op[e].pc = "write" PROVE op[e].target # row[u].path
            BY <1>0, <1>2, <3>1 DEF RequestsKnow, RequestKnows, RenameKnows, NoRowAt
        <3>. QED
            BY <1>1, <1>3, <1>7, <2>3, <3>1 DEF Apart
    <2>. QED
        BY <2>1, <2>2, <2>3
<1>. QED
    BY <1>4, <1>6, <1>7 DEF RequestsKnow

(* Walks, the clock, restarts and other programs give no row another's     *)
(* file.                                                                   *)
LEMMA OthersPlaces ==
    ASSUME Indexes = {}, PathsStay, WalkTypeOK, PlaceIInv, [WalkNext]_allVars,
           \A c \in Callers : ~ OpStep(c)
    PROVE  /\ RowsOwnTheirFiles' /\ RequestsKnow'
           /\ UNCHANGED disk \/ \E p \in Paths : External(p)
<1>0. op \in [Callers -> OpType] /\ disk \in [Paths -> DiskType] /\ TypeOK /\ RowsOwnTheirFiles
      /\ row \in [Files -> RowType]
    BY DEF WalkTypeOK, TypeOK, PlaceIInv
<1>1. UNCHANGED disk \/ \E p \in Paths : External(p)
    BY DEF WalkNext, FileStep, Request, Ask, Surroundings, Tick, Restart, RefreshEntry, allVars
<1>2. \A u \in Files : row'[u].state = row[u].state /\ row'[u].path = row[u].path
    BY WalkRows, RefreshKeepsPlaces
<1>3. RowsGo
    BY <1>2 DEF RowsGo, InCatalog
<1>4. RowsOwnTheirFiles'
    <2>1. ASSUME NEW p \in Paths, External(p) PROVE RowsOwnTheirFiles'
        <3>1. UNCHANGED row /\ ~ Absent.present
            BY <2>1 DEF External, Absent
        <3>2. CASE disk' = [disk EXCEPT ![p] = Absent]
            BY <1>0, <3>1, <3>2 DEF RowsOwnTheirFiles, OwnOrNobodys, InCatalog, RowType
        <3>. QED
            BY <1>0, <2>1, <3>1, <3>2, WritesKeepOwners DEF External
    <2>. QED
        BY <1>1, <1>3, <2>1, OwnersStay
<1>5. CASE UNCHANGED op
    <2>1. \A c \in Callers : RequestKnows(op[c])'
        BY <1>3, <1>5, WaitingKnows
    <2>2. \A c, d \in Callers : c # d => Apart(op[c], op[d])'
        BY <1>5 DEF PlaceIInv, RequestsKnow, Apart, HasMoved
    <2>. QED
        BY <1>1, <1>4, <2>1, <2>2 DEF RequestsKnow
<1>6. CASE Restart
    <2>1. \A c \in Callers : op'[c].pc = "idle"
        BY <1>6 DEF Restart, IdleOp
    <2>2. ASSUME NEW c \in Callers PROVE RequestKnows(op[c])'
        BY <2>1 DEF RequestKnows
    <2>3. ASSUME NEW c \in Callers, NEW d \in Callers PROVE Apart(op[c], op[d])'
        BY <2>1 DEF Apart
    <2>. QED
        BY <1>1, <1>4, <2>2, <2>3 DEF RequestsKnow
<1>7. Surroundings \/ UNCHANGED allVars \/ (\E e \in Refreshes : RefreshEntry(e)) => UNCHANGED op
    BY DEF Surroundings, Tick, External, allVars, RefreshEntry
<1>. QED
    BY <1>1, <1>4, <1>5, <1>6, <1>7, AskPlaces DEF WalkNext, FileStep, Request

(* Every row has its own file at first.                                    *)
LEMMA InitPlaces == Init => RowsOwnTheirFiles /\ RequestsKnow
<1>. SUFFICES ASSUME Init PROVE RowsOwnTheirFiles /\ RequestsKnow
    OBVIOUS
<1>1. PICK place \in [Cataloged -> Paths] :
          /\ \A u, v \in Cataloged : place[u] = place[v] => u = v
          /\ row = [u \in Files |->
                IF u \in Cataloged
                  THEN [NewRow(place[u], 0) EXCEPT !.extracted = TRUE]
                  ELSE [NewRow(SomePath, 0) EXCEPT !.state = "none"]]
          /\ disk = [p \in Paths |->
                IF \E u \in Cataloged : place[u] = p
                  THEN [present |-> TRUE, bytes |-> Original, stamp |-> 0,
                        id |-> CHOOSE u \in Cataloged : place[u] = p]
                  ELSE Absent]
    BY DEF Init
<1>2. \A u \in Files : /\ row[u].state = IF u \in Cataloged THEN "active" ELSE "none"
                       /\ u \in Cataloged => row[u].path = place[u]
    BY <1>1 DEF NewRow
<1>3. ASSUME NEW u \in Cataloged PROVE disk[place[u]].present /\ disk[place[u]].id = u
    BY <1>1
<1>4. RowsOwnTheirFiles
    BY <1>2, <1>3, CatalogedAssumption DEF RowsOwnTheirFiles, OwnOrNobodys, InCatalog
<1>5. RequestsKnow
    BY DEF Init, IdleOp, RequestsKnow, RequestKnows, Apart
<1>. QED
    BY <1>4, <1>5

(* Whatever requests, walks and other programs do at once, whichever step   *)
(* of a rename or an edit fails and wherever the process ends, a file goes *)
(* only when the owner purges it on disk, or another program removes it,   *)
(* as long as nobody else touches the paths of a rename or a purge on disk  *)
(* under way.  (What is indexed for the first time may lie where an earlier *)
(* rename left it: hence Indexes.)                                         *)
THEOREM KeptTheorem ==
    ASSUME Indexes = {}
    PROVE  WalkSpec /\ [][PathsStay]_allVars => NoFileLost
<1>. DEFINE Inv == WalkTypeOK /\ PlaceIInv
<1>1. WalkInit => Inv
    BY WalkTypesHold, SoundInit, InitPlaces DEF WalkInit, PlaceIInv, WalkTypeOK
<1>2. ASSUME [WalkNext]_allVars, [PathsStay]_allVars PROVE PathsStay
    BY <1>2 DEF PathsStay, allVars
<1>3. Inv /\ [WalkNext]_allVars /\ [PathsStay]_allVars => Inv'
    BY <1>2, WalkTypesKept, WalkSound, OpStepPlaces, OthersPlaces DEF PlaceIInv, WalkTypeOK
<1>4. Inv /\ [WalkNext]_allVars /\ [PathsStay]_allVars =>
        [\A id \in Ids :
            OnDisk(id) /\ ~OnDisk(id)'
              => \/ \E c \in Callers :
                       RemoveFile(c) /\ id \notin Files \ {op[c].file}
                 \/ \E p \in Paths : External(p)]_vars
    <2>1. ASSUME Inv, [WalkNext]_allVars, PathsStay, NEW id \in Ids, OnDisk(id), ~ OnDisk(id)'
          PROVE  \/ \E c \in Callers : RemoveFile(c) /\ id \notin Files \ {op[c].file}
                 \/ \E p \in Paths : External(p)
        <3>1. disk' # disk
            BY <2>1 DEF OnDisk
        <3>. QED
            BY <2>1, <3>1, OpStepPlaces, OthersPlaces
    <2>. QED
        BY <1>2, <2>1
<1>. QED
    BY <1>1, <1>3, <1>4, PTL DEF WalkSpec, NoFileLost

(* Nobody else is there to touch them while requests are made one after the *)
(* other and no other program meddles.                                     *)
THEOREM FilesTheorem ==
    ASSUME OneCaller, "external" \notin Faults, Indexes = {}
    PROVE  WalkSpec => NoFileLost
<1>1. ASSUME WalkTypeOK, [WalkNext]_allVars PROVE PathsStay
    BY <1>1, AloneChanges DEF OneCaller, PathsStay
<1>2. WalkTypeOK /\ [WalkNext]_allVars => [PathsStay]_allVars
    BY <1>1
<1>3. WalkSpec => [][PathsStay]_allVars
    BY <1>2, WalkTypeCorrect, PTL DEF WalkSpec
<1>. QED
    BY <1>3, KeptTheorem, PTL

-----------------------------------------------------------------------------
(* Rows follow their files through concurrent renames. *)

(* Each caller renames files of its own to names of its own.               *)
SeparateTargets ==
    \A c, d \in Callers : c # d =>
        \A u \in Files :
            /\ Targets[c][u] = {} \/ Targets[d][u] = {}
            /\ \A v \in Files : Targets[c][u] \cap Targets[d][v] = {}

(* A rename of u by c knows where the file is, and that no row comes to    *)
(* the target it has found free.                                           *)
RenameFollows(o, c) ==
    /\ o.target \in Targets[c][o.file] /\ o.target # o.path /\ InCatalog(o.file)
    /\ o.pc \in {"cataloged", "exists", "move", "write", "rollback"} => row[o.file].path = o.path
    /\ o.pc \in {"exists", "move", "write", "rollback"} => NoRowAt(o.target)
    /\ o.pc = "move" => ~ disk[o.target].present
    /\ o.pc \in {"write", "rollback"} => disk[o.target].present /\ disk[o.target].id = o.file

Renaming(o) == o.verb = "rename" /\ o.pc # "idle"

RenamesFollow == \A c \in Callers : Renaming(op[c]) => RenameFollows(op[c], c)

FollowIInv == TypeOK /\ RowsSound /\ RowsFollowFiles /\ RenamesFollow

(* Two renames in flight are of two files, to two names, and no step of    *)
(* one comes near the target of the other.                                 *)
LEMMA RenamesApart ==
    ASSUME SeparateTargets, FollowIInv, NEW c \in Callers, NEW d \in Callers, c # d,
           Renaming(op[c]), Renaming(op[d])
    PROVE  /\ op[c].file # op[d].file /\ op[c].target # op[d].target
           /\ op[d].pc \in {"exists", "move", "write", "rollback"} =>
                 op[d].target # row[op[c].file].path
<1>1. op[c].file \in Files /\ op[d].file \in Files
    BY DEF FollowIInv, TypeOK, OpType
<1>2. op[c].target \in Targets[c][op[c].file] /\ op[d].target \in Targets[d][op[d].file]
      /\ InCatalog(op[c].file)
    BY DEF FollowIInv, RenamesFollow, RenameFollows
<1>3. op[c].file # op[d].file /\ op[c].target # op[d].target
    BY <1>1, <1>2 DEF SeparateTargets
<1>4. op[d].pc \in {"exists", "move", "write", "rollback"} => op[d].target # row[op[c].file].path
    BY <1>1, <1>2 DEF FollowIInv, RenamesFollow, RenameFollows, NoRowAt
<1>. QED
    BY <1>3, <1>4

(* A step of c, seen by the others: their files and targets are left alone. *)
LEMMA OtherRenames ==
    ASSUME SeparateTargets, FollowIInv, NEW c \in Callers, op[c].verb = "rename", op[c].pc # "idle",
           \A p \in Paths : p # op[c].target /\ p # row[op[c].file].path => disk'[p] = disk[p],
           \A u \in Files : u # op[c].file => row'[u] = row[u],
           row'[op[c].file] = row[op[c].file] \/ row'[op[c].file].path = op[c].target,
           NEW d \in Callers, d # c, op'[d] = op[d], Renaming(op[d])
    PROVE  RenameFollows(op[d], d)'
<1>1. /\ op[c].file # op[d].file /\ op[c].target # op[d].target
      /\ op[d].pc \in {"exists", "move", "write", "rollback"} => op[d].target # row[op[c].file].path
    BY RenamesApart DEF Renaming
<1>2. op[c].file \in Files /\ op[d].file \in Files /\ op[d].target \in Paths
    BY DEF FollowIInv, TypeOK, OpType
<1>3. RenameFollows(op[d], d)
    BY DEF FollowIInv, RenamesFollow
<1>4. row'[op[d].file] = row[op[d].file]
    BY <1>1, <1>2
<1>5. op[d].pc \in {"exists", "move", "write", "rollback"} =>
        disk'[op[d].target] = disk[op[d].target]
    BY <1>1, <1>2
<1>6. NoRowAt(op[d].target) => NoRowAt(op[d].target)'
    BY <1>1, <1>2 DEF NoRowAt, InCatalog
<1>. QED
    BY <1>3, <1>4, <1>5, <1>6 DEF RenameFollows, InCatalog

(* The rows that are not being moved have their files where they had them. *)
LEMMA OtherRows ==
    ASSUME SeparateTargets, FollowIInv, NEW c \in Callers, op[c].verb = "rename",
           op[c].pc \in {"move", "write", "rollback"},
           \A p \in Paths : p # op[c].target /\ p # op[c].path => disk'[p] = disk[p],
           NEW u \in Files, u # op[c].file, row'[u] = row[u], InCatalog(u),
           \A d \in Callers : d # c => op'[d] = op[d],
           ~ Moving(u)'
    PROVE  disk'[row'[u].path].present /\ disk'[row'[u].path].id = u
<1>1. ~ Moving(u)
    BY DEF Moving
<1>2. disk[row[u].path].present /\ disk[row[u].path].id = u /\ row[u].path \in Paths
    BY <1>1 DEF FollowIInv, RowsFollowFiles, TypeOK, RowType
<1>3. /\ op[c].file \in Files /\ InCatalog(op[c].file) /\ row[op[c].file].path = op[c].path
      /\ NoRowAt(op[c].target)
    BY DEF FollowIInv, TypeOK, OpType, RenamesFollow, RenameFollows, Renaming
<1>4. row[u].path # op[c].path /\ row[u].path # op[c].target
    BY <1>3 DEF FollowIInv, RowsSound, NoRowAt
<1>. QED
    BY <1>2, <1>4

(* A step that leaves the disk and the places of the rows, and moves one   *)
(* request elsewhere than into the two moving steps of a rename.           *)
LEMMA CalmStep ==
    ASSUME FollowIInv, NEW c \in Callers, UNCHANGED disk,
           \A u \in Files : row'[u].path = row[u].path /\ (InCatalog(u)' <=> InCatalog(u)),
           \A d \in Callers : d # c => op'[d] = op[d],
           ~ (Renaming(op[c]) /\ op[c].pc \in {"write", "rollback"}),
           Renaming(op'[c]) => op'[c].pc \notin {"write", "rollback"},
           (Renaming(op[c]) => RenameFollows(op[c], c))'
    PROVE  RowsFollowFiles' /\ RenamesFollow'
<1>0. \A d \in Callers : op[d].file \in Files
    BY DEF FollowIInv, TypeOK, OpType
<1>1. \A u \in Files : Moving(u) => Moving(u)'
    BY DEF Moving, Renaming
<1>2. RowsFollowFiles'
    BY <1>1 DEF FollowIInv, RowsFollowFiles
<1>3. ASSUME NEW d \in Callers, d # c, Renaming(op[d]) PROVE RenameFollows(op[d], d)'
    <2>1. RenameFollows(op[d], d) /\ op'[d] = op[d]
        BY <1>3 DEF FollowIInv, RenamesFollow
    <2>2. NoRowAt(op[d].target) => NoRowAt(op[d].target)'
        BY <1>3 DEF NoRowAt
    <2>3. InCatalog(op[d].file) => InCatalog(op[d].file)'
        BY <1>0, <1>3 DEF InCatalog
    <2>. QED
        BY <1>0, <2>1, <2>2, <2>3 DEF RenameFollows
<1>4. RenamesFollow'
    BY <1>3 DEF RenamesFollow, Renaming
<1>. QED
    BY <1>2, <1>4

(* The steps of a rename that only look.                                   *)
LEMMA LookFollows ==
    ASSUME FollowIInv, "reread" \notin Faults, NEW c \in Callers,
           FindTarget(c) \/ ProbeTarget(c) \/ RereadRow(c)
    PROVE  RowsFollowFiles' /\ RenamesFollow'
<1>0. /\ op[c].file \in Files /\ op[c] \in OpType /\ op \in [Callers -> OpType]
      /\ RenameFollows(op[c], c) /\ Renaming(op[c]) /\ op[c].pc \in {"cataloged", "exists", "reread"}
    BY DEF FollowIInv, TypeOK, OpType, RenamesFollow, Renaming, FindTarget, ProbeTarget, RereadRow, At
<1>1. UNCHANGED <<disk, row>>
    BY DEF FindTarget, ProbeTarget, RereadRow
<1>2. ASSUME Answer(c) PROVE RowsFollowFiles' /\ RenamesFollow'
    <2>1. op'[c].pc = "idle" /\ \A d \in Callers : d # c => op'[d] = op[d]
        BY <1>0, <1>2 DEF Answer, IdleOp
    <2>. QED
        BY <1>0, <1>1, <2>1, CalmStep DEF Renaming, InCatalog
<1>3. ASSUME NEW pc \in {"exists", "move"}, GoTo(c, pc),
             NoRowAt(op[c].target), pc = "move" => ~ disk[op[c].target].present,
             row[op[c].file].path = op[c].path
      PROVE  RowsFollowFiles' /\ RenamesFollow'
    <2>1. /\ op'[c].pc = pc /\ op'[c].verb = op[c].verb /\ op'[c].file = op[c].file
          /\ op'[c].path = op[c].path /\ op'[c].target = op[c].target
          /\ \A d \in Callers : d # c => op'[d] = op[d]
        BY <1>0, <1>3 DEF GoTo, OpType
    <2>2. RenameFollows(op[c], c)'
        BY <1>0, <1>1, <1>3, <2>1 DEF RenameFollows, NoRowAt, InCatalog
    <2>. QED
        BY <1>0, <1>1, <1>3, <2>1, <2>2, CalmStep DEF Renaming, InCatalog
<1>4. CASE FindTarget(c)
    <2>1. op[c].pc = "cataloged" /\ row[op[c].file].path = op[c].path /\ op[c].target # op[c].path
        BY <1>0, <1>4 DEF FindTarget, At, RenameFollows
    <2>2. RowsAt(op[c].target) \subseteq {op[c].file} => NoRowAt(op[c].target)
        BY <2>1 DEF RowsAt, NoRowAt
    <2>. QED
        BY <1>2, <1>3, <1>4, <2>1, <2>2 DEF FindTarget
<1>5. CASE ProbeTarget(c)
    <2>1. NoRowAt(op[c].target) /\ row[op[c].file].path = op[c].path
        BY <1>0, <1>5 DEF ProbeTarget, At, RenameFollows
    <2>. QED
        BY <1>2, <1>3, <1>5, <2>1 DEF ProbeTarget
<1>6. CASE RereadRow(c)
    BY <1>0, <1>2, <1>6 DEF RereadRow, RenameFollows
<1>. QED
    BY <1>4, <1>5, <1>6

(* The file, then the row, or the file back.                               *)
LEMMA MoveFollows ==
    ASSUME SeparateTargets, FollowIInv, "stuck" \notin Faults, NEW c \in Callers,
           MoveFile(c) \/ RenameRow(c) \/ RollBack(c)
    PROVE  RowsFollowFiles' /\ RenamesFollow'
<1>. DEFINE u == op[c].file
            from == op[c].path
            to == op[c].target
<1>0. /\ u \in Files /\ from \in Paths /\ to \in Paths
      /\ op \in [Callers -> OpType] /\ disk \in [Paths -> DiskType] /\ row \in [Files -> RowType]
      /\ op[c] \in OpType /\ RowsFollowFiles /\ RenamesFollow
    BY DEF FollowIInv, TypeOK, OpType
<1>1. /\ op[c].verb = "rename" /\ op[c].pc \in {"move", "write", "rollback"} /\ Renaming(op[c])
      /\ RenameFollows(op[c], c)
    BY <1>0 DEF RenamesFollow, Renaming, MoveFile, RenameRow, RollBack, At
<1>2. /\ to # from /\ InCatalog(u) /\ row[u].path = from /\ NoRowAt(to)
      /\ to \in Targets[c][u]
    BY <1>1 DEF RenameFollows
<1>3. CASE MoveFile(c) /\ Answer(c)
    <2>1. op'[c].pc = "idle" /\ (\A d \in Callers : d # c => op'[d] = op[d]) /\ op[c].pc = "move"
        BY <1>0, <1>3 DEF MoveFile, At, Answer, IdleOp
    <2>2. UNCHANGED <<row, disk>>
        BY <1>0, <1>3, <2>1 DEF MoveFile, GoTo, OpType
    <2>. QED
        BY <2>1, <2>2, CalmStep DEF Renaming, InCatalog
<1>4. CASE MoveFile(c) /\ disk[from].present /\ disk' = Moved(from, to) /\ GoTo(c, "write")
    <2>1. /\ disk'[to] = disk[from] /\ UNCHANGED row
          /\ \A p \in Paths : p # from /\ p # to => disk'[p] = disk[p]
        BY <1>0, <1>2, <1>4 DEF Moved, MoveFile
    <2>2. /\ op'[c].pc = "write" /\ op'[c].verb = "rename" /\ op'[c].file = u
          /\ op'[c].path = from /\ op'[c].target = to
          /\ \A d \in Callers : d # c => op'[d] = op[d]
        BY <1>0, <1>1, <1>4 DEF GoTo, OpType
    <2>3. ~ Moving(u)
        <3>1. ASSUME NEW d \in Callers, Renaming(op[d]), op[d].file = u PROVE d = c
            BY <1>1, <3>1, RenamesApart
        <3>. QED
            BY <1>4, <3>1 DEF Moving, MoveFile, At, Renaming
    <2>4. disk[from].id = u
        BY <1>0, <1>2, <2>3 DEF RowsFollowFiles
    <2>5. RowsFollowFiles'
        <3>1. ASSUME NEW v \in Files, InCatalog(v), ~ Moving(v)'
              PROVE  disk'[row[v].path].present /\ disk'[row[v].path].id = v
            <4>1. v # u
                BY <2>2, <3>1 DEF Moving
            <4>. QED
                BY <1>1, <2>1, <2>2, <3>1, <4>1, OtherRows
        <3>. QED
            BY <2>1, <3>1 DEF RowsFollowFiles, InCatalog
    <2>6. RenameFollows(op[c], c)'
        BY <1>2, <1>4, <2>1, <2>2, <2>4 DEF RenameFollows, NoRowAt, InCatalog
    <2>7. ASSUME NEW d \in Callers, d # c, Renaming(op[d]) PROVE RenameFollows(op[d], d)'
        BY <1>1, <1>2, <2>1, <2>2, <2>7, OtherRenames DEF Renaming
    <2>. QED
        BY <2>2, <2>5, <2>6, <2>7 DEF RenamesFollow, Renaming
<1>5. CASE RenameRow(c) /\ GoTo(c, "rollback") /\ UNCHANGED row
    <2>1. /\ op'[c].pc = "rollback" /\ op'[c].verb = "rename" /\ op'[c].file = u
          /\ op'[c].path = from /\ op'[c].target = to
          /\ \A d \in Callers : d # c => op'[d] = op[d]
        BY <1>0, <1>1, <1>5 DEF GoTo, OpType
    <2>2. op[c].pc = "write" /\ UNCHANGED disk
        BY <1>5 DEF RenameRow, At
    <2>3. RowsFollowFiles'
        BY <1>0, <1>1, <1>5, <2>1, <2>2 DEF RowsFollowFiles, Moving, InCatalog
    <2>4. RenameFollows(op[c], c)'
        BY <1>1, <1>5, <2>1, <2>2 DEF RenameFollows, NoRowAt, InCatalog
    <2>5. ASSUME NEW d \in Callers, d # c, Renaming(op[d]) PROVE RenameFollows(op[d], d)'
        BY <1>1, <1>5, <2>1, <2>2, <2>5, OtherRenames DEF Renaming
    <2>. QED
        BY <2>1, <2>3, <2>4, <2>5 DEF RenamesFollow, Renaming
<1>6. CASE RenameRow(c) /\ GoTo(c, "reread") /\ UpdateRow(u, Renamed(row[u], to))
    <2>1. /\ op'[c].pc = "reread" /\ op'[c].verb = "rename" /\ op'[c].file = u
          /\ op'[c].path = from /\ op'[c].target = to
          /\ \A d \in Callers : d # c => op'[d] = op[d]
        BY <1>0, <1>1, <1>6 DEF GoTo, OpType
    <2>2. /\ op[c].pc = "write" /\ UNCHANGED disk
          /\ row'[u].path = to /\ row'[u].state = row[u].state
          /\ \A v \in Files : v # u => row'[v] = row[v]
        BY <1>0, <1>6 DEF RenameRow, At, UpdateRow, Renamed, RowType
    <2>3. RowsFollowFiles'
        <3>1. disk'[row'[u].path].present /\ disk'[row'[u].path].id = u
            BY <1>1, <2>2 DEF RenameFollows
        <3>2. ASSUME NEW v \in Files, v # u, InCatalog(v), ~ Moving(v)'
              PROVE  disk'[row'[v].path].present /\ disk'[row'[v].path].id = v
            BY <1>1, <2>1, <2>2, <3>2, OtherRows
        <3>3. \A v \in Files : InCatalog(v)' => InCatalog(v)
            BY <2>2 DEF InCatalog
        <3>. QED
            BY <3>1, <3>2, <3>3 DEF RowsFollowFiles
    <2>4. RenameFollows(op[c], c)'
        BY <1>2, <2>1, <2>2 DEF RenameFollows, InCatalog
    <2>5. ASSUME NEW d \in Callers, d # c, Renaming(op[d]) PROVE RenameFollows(op[d], d)'
        BY <1>1, <2>1, <2>2, <2>5, OtherRenames DEF Renaming
    <2>. QED
        BY <2>1, <2>3, <2>4, <2>5 DEF RenamesFollow, Renaming
<1>7. CASE RollBack(c)
    <2>1. /\ disk' = Moved(to, from) /\ op[c].pc = "rollback" /\ UNCHANGED row /\ Answer(c)
          /\ disk[to].present /\ disk[to].id = u
        BY <1>1, <1>7 DEF RollBack, At, RenameFollows
    <2>2. /\ disk'[from] = disk[to]
          /\ \A p \in Paths : p # from /\ p # to => disk'[p] = disk[p]
        BY <1>0, <1>2, <2>1 DEF Moved
    <2>3. op'[c].pc = "idle" /\ \A d \in Callers : d # c => op'[d] = op[d]
        BY <1>0, <2>1 DEF Answer, IdleOp
    <2>4. RowsFollowFiles'
        <3>1. ASSUME NEW v \in Files, v # u, InCatalog(v), ~ Moving(v)'
              PROVE  disk'[row[v].path].present /\ disk'[row[v].path].id = v
            BY <1>1, <2>1, <2>2, <2>3, <3>1, OtherRows
        <3>. QED
            BY <1>2, <2>1, <2>2, <3>1 DEF RowsFollowFiles, InCatalog
    <2>5. ASSUME NEW d \in Callers, d # c, Renaming(op[d]) PROVE RenameFollows(op[d], d)'
        BY <1>1, <1>2, <2>1, <2>2, <2>3, <2>5, OtherRenames DEF Renaming
    <2>. QED
        BY <2>3, <2>4, <2>5 DEF RenamesFollow, Renaming
<1>. QED
    BY <1>3, <1>4, <1>5, <1>6, <1>7 DEF MoveFile, RenameRow

(* Every step of two renames to separate targets keeps rows and files      *)
(* together.                                                               *)
LEMMA RenamesNextFollows ==
    ASSUME SeparateTargets, "stuck" \notin Faults, "reread" \notin Faults, FollowIInv, [RenamesNext]_vars
    PROVE  RowsFollowFiles' /\ RenamesFollow'
<1>0. op \in [Callers -> OpType] /\ row \in [Files -> RowType]
    BY DEF FollowIInv, TypeOK
<1>1. CASE UNCHANGED vars
    BY <1>1 DEF vars, FollowIInv, RowsFollowFiles, RenamesFollow, RenameFollows, Renaming, Moving,
                InCatalog, NoRowAt
<1>2. ASSUME NEW c \in Callers, SoftDelete(c) \/ Restore(c) PROVE RowsFollowFiles' /\ RenamesFollow'
    <2>1. op[c].verb # "rename" /\ UNCHANGED disk /\ op[c].file \in Files
          /\ op'[c].pc = "idle" /\ \A d \in Callers : d # c => op'[d] = op[d]
        BY <1>0, <1>2 DEF SoftDelete, Restore, OneStatement, At, Answer, IdleOp, OpType
    <2>2. ASSUME NEW u \in Files PROVE row'[u].path = row[u].path /\ (InCatalog(u)' <=> InCatalog(u))
        <3>1. \/ row'[u] = row[u]
              \/ InCatalog(u) /\ row'[u] = SoftDeleted(row[u], op[c].at)
              \/ InCatalog(u) /\ row'[u] = Restored(row[u])
            BY <1>0, <1>2, <2>1 DEF SoftDelete, Restore, OneStatement, UpdateRow
        <3>2. CASE row'[u] = SoftDeleted(row[u], op[c].at) /\ InCatalog(u)
            BY <1>0, <3>2 DEF SoftDeleted, RowType, InCatalog
        <3>3. CASE row'[u] = Restored(row[u]) /\ InCatalog(u)
            BY <1>0, <3>3 DEF Restored, RowType, InCatalog
        <3>. QED
            BY <3>1, <3>2, <3>3 DEF InCatalog
    <2>. QED
        BY <2>1, <2>2, CalmStep DEF Renaming
<1>3. ASSUME NEW c \in Callers, NEW verb \in Verbs, NEW u \in Files, NEW p \in Paths,
             Ask(c, verb, u, p, Original)
      PROVE  RowsFollowFiles' /\ RenamesFollow'
    <2>1. /\ op'[c].verb = verb /\ op'[c].pc = FirstPC(verb) /\ op'[c].file = u
          /\ op'[c].path = row[u].path /\ op'[c].target = p /\ UNCHANGED <<row, disk>>
          /\ Admits(verb, u) /\ (verb = "rename" => p \in Targets[c][u] /\ p # row[u].path)
          /\ op[c].pc = "idle" /\ \A d \in Callers : d # c => op'[d] = op[d]
        BY <1>0, <1>3 DEF Ask
    <2>2. InCatalog(u)
        BY <2>1 DEF Admits, Restorable, Purgeable, InCatalog
    <2>3. verb = "rename" => op'[c].pc = "cataloged"
        BY <2>1 DEF FirstPC
    <2>4. (Renaming(op[c]) => RenameFollows(op[c], c))'
        BY <2>1, <2>2, <2>3 DEF Renaming, RenameFollows, InCatalog
    <2>. QED
        BY <2>1, <2>3, <2>4, CalmStep DEF Renaming, InCatalog
<1>. QED
    BY <1>1, <1>2, <1>3, LookFollows, MoveFollows DEF RenamesNext

LEMMA InitFollows == Init => FollowIInv
<1>1. ASSUME Init PROVE RowsFollowFiles
    <2>1. PICK place \in [Cataloged -> Paths] :
              /\ \A u, v \in Cataloged : place[u] = place[v] => u = v
              /\ row = [u \in Files |->
                    IF u \in Cataloged
                      THEN [NewRow(place[u], 0) EXCEPT !.extracted = TRUE]
                      ELSE [NewRow(SomePath, 0) EXCEPT !.state = "none"]]
              /\ disk = [p \in Paths |->
                    IF \E u \in Cataloged : place[u] = p
                      THEN [present |-> TRUE, bytes |-> Original, stamp |-> 0,
                            id |-> CHOOSE u \in Cataloged : place[u] = p]
                      ELSE Absent]
        BY <1>1 DEF Init
    <2>2. \A u \in Files : /\ row[u].state = IF u \in Cataloged THEN "active" ELSE "none"
                           /\ u \in Cataloged => row[u].path = place[u]
        BY <2>1 DEF NewRow
    <2>3. ASSUME NEW u \in Cataloged PROVE disk[place[u]].present /\ disk[place[u]].id = u
        BY <2>1
    <2>. QED
        BY <2>2, <2>3 DEF RowsFollowFiles, InCatalog
<1>2. Init => RenamesFollow
    BY DEF Init, IdleOp, RenamesFollow, Renaming
<1>. QED
    BY <1>1, <1>2, InitTypes, SoundInit DEF FollowIInv

(* A row's own file is at the row's path but for the moments between the   *)
(* two halves of its rename, whatever renames, deletions and restores run  *)
(* beside it and whichever statement or call fails, as long as callers     *)
(* rename different files to different names and a file can be moved back  *)
(* (rename_file.rs).                                                       *)
THEOREM FollowTheorem ==
    ASSUME SeparateTargets, "stuck" \notin Faults, "reread" \notin Faults
    PROVE  RenamesSpec => []RowsFollowFiles
<1>1. Init => FollowIInv
    BY InitFollows
<1>2. [RenamesNext]_vars => [Next]_vars
    <2>1. Original \in Bytes
        BY DEF Bytes
    <2>. QED
        BY <2>1 DEF RenamesNext, Next, Request, OpStep
<1>3. FollowIInv /\ [RenamesNext]_vars => FollowIInv'
    BY <1>2, NextTypes, NextSound, RenamesNextFollows DEF FollowIInv
<1>4. FollowIInv => RowsFollowFiles
    BY DEF FollowIInv
<1>. QED
    BY <1>1, <1>3, <1>4, PTL DEF RenamesSpec

-----------------------------------------------------------------------------
(* Renames are atomic: the steps of RenamesSpec are those of FileLibrary,  *)
(* or none of them.                                                        *)

(* The rename that has moved the file of u and not settled its row.        *)
Moves(o, u) == o.verb = "rename" /\ o.file = u /\ o.pc \in {"write", "rollback"}

(* A file is where its row is, or at the target of the rename that moves   *)
(* it; there are no other files.                                           *)
Placed(p, u) ==
    /\ u \in Files /\ InCatalog(u)
    /\ \/ ~ Moving(u) /\ row[u].path = p
       \/ \E c \in Callers : Moves(op[c], u) /\ op[c].target = p

NoStrays == \A p \in Paths : disk[p].present => Placed(p, disk[p].id)

AtomicIInv == FollowIInv /\ NoStrays

StateOf == [u \in Files |-> row[u].state]
ListedOf == [u \in Files |-> row[u].path]

LEMMA MovingMoves == \A u : Moving(u) <=> \E c \in Callers : Moves(op[c], u)
BY DEF Moving, Moves

(* One caller moves a file, and its row says where from.                   *)
LEMMA OneMover ==
    ASSUME SeparateTargets, FollowIInv, NEW c \in Callers, NEW u \in Files, Moves(op[c], u)
    PROVE  /\ InCatalog(u) /\ row[u].path = op[c].path
           /\ NoRowAt(op[c].target)
           /\ \A d \in Callers : Moves(op[d], u) => d = c
<1>1. Renaming(op[c]) /\ RenameFollows(op[c], c)
    BY DEF FollowIInv, RenamesFollow, Renaming, Moves
<1>2. ASSUME NEW d \in Callers, Moves(op[d], u), d # c PROVE FALSE
    BY <1>1, <1>2, RenamesApart DEF Renaming, Moves
<1>. QED
    BY <1>1, <1>2 DEF RenameFollows, Moves

(* The folder with the moves undone is what the catalog lists.             *)
LEMMA FolderIsListed ==
    ASSUME SeparateTargets, AtomicIInv, NEW p \in Paths
    PROVE  /\ \A u \in Files : InCatalog(u) /\ row[u].path = p => Folder[p] = u
           /\ NoRowAt(p) => Folder[p] = Nobody
<1>. USE DEF AtomicIInv
<1>1. \A u \in MovingFrom(p) : u \in Files /\ InCatalog(u) /\ row[u].path = p
    BY OneMover, MovingMoves DEF MovingFrom
<1>2. ASSUME NEW u \in Files, InCatalog(u), row[u].path = p PROVE Folder[p] = u
    <2>1. \A v \in MovingFrom(p) : v = u
        BY <1>1, <1>2 DEF FollowIInv, RowsSound
    <2>2. CASE Moving(u)
        <3>1. MovingFrom(p) = {u}
            BY <1>2, <2>1, <2>2 DEF MovingFrom
        <3>. QED
            BY <3>1 DEF Folder
    <2>3. CASE ~ Moving(u)
        <3>1. MovingFrom(p) = {}
            BY <2>1, <2>3 DEF MovingFrom
        <3>2. disk[p].present /\ disk[p].id = u
            BY <1>2, <2>3 DEF FollowIInv, RowsFollowFiles
        <3>. QED
            BY <2>3, <3>1, <3>2 DEF Folder
    <2>. QED
        BY <2>2, <2>3
<1>3. ASSUME NoRowAt(p) PROVE Folder[p] = Nobody
    <2>1. MovingFrom(p) = {}
        BY <1>1, <1>3 DEF NoRowAt
    <2>2. ~ (disk[p].present /\ ~ Moving(disk[p].id))
        BY <1>3, MovingMoves DEF NoStrays, Placed, NoRowAt
    <2>. QED
        BY <2>1, <2>2 DEF Folder
<1>. QED
    BY <1>2, <1>3

(* A step that leaves the disk, and neither begins nor settles a move,     *)
(* makes no strays.                                                        *)
LEMMA CalmStrays ==
    ASSUME AtomicIInv, NEW c \in Callers, UNCHANGED disk,
           \A u \in Files : row'[u].path = row[u].path /\ (InCatalog(u)' <=> InCatalog(u)),
           \A d \in Callers : d # c => op'[d] = op[d],
           \A u : ~ Moves(op[c], u) /\ ~ Moves(op'[c], u)
    PROVE  NoStrays'
<1>1. \A u : Moving(u)' <=> Moving(u)
    BY DEF Moving, Moves
<1>2. ASSUME NEW p \in Paths, NEW u, Placed(p, u) PROVE Placed(p, u)'
    BY <1>1, <1>2 DEF Placed
<1>. QED
    BY <1>2 DEF AtomicIInv, NoStrays

(* A step of the rename that moves u, or is about to, leaves the others'   *)
(* files where they should be.                                             *)
LEMMA OtherStrays ==
    ASSUME NEW c \in Callers, NEW u \in Files,
           \A v : Moves(op[c], v) \/ Moves(op'[c], v) => v = u,
           \A v \in Files : v # u => row'[v] = row[v],
           \A d \in Callers : d # c => op'[d] = op[d],
           NEW p \in Paths, NEW v, v # u, Placed(p, v)
    PROVE  Placed(p, v)'
<1>1. \A d \in Callers : /\ Moves(op'[d], v) <=> Moves(op[d], v)
                         /\ Moves(op[d], v) => op'[d] = op[d]
    OBVIOUS
<1>2. Moving(v)' <=> Moving(v)
    BY <1>1 DEF Moving, Moves
<1>3. v \in Files /\ InCatalog(v)' /\ row'[v] = row[v]
    BY DEF Placed, InCatalog
<1>. QED
    BY <1>1, <1>2, <1>3 DEF Placed

LEMMA InitStrays == Init => NoStrays
<1>. SUFFICES ASSUME Init PROVE NoStrays
    OBVIOUS
<1>1. PICK place \in [Cataloged -> Paths] :
          /\ row = [u \in Files |->
                IF u \in Cataloged
                  THEN [NewRow(place[u], 0) EXCEPT !.extracted = TRUE]
                  ELSE [NewRow(SomePath, 0) EXCEPT !.state = "none"]]
          /\ disk = [p \in Paths |->
                IF \E u \in Cataloged : place[u] = p
                  THEN [present |-> TRUE, bytes |-> Original, stamp |-> 0,
                        id |-> CHOOSE u \in Cataloged : place[u] = p]
                  ELSE Absent]
    BY DEF Init
<1>2. \A u : ~ Moving(u)
    BY DEF Init, IdleOp, Moving
<1>3. \A u \in Cataloged : u \in Files /\ row[u].state = "active" /\ row[u].path = place[u]
    BY <1>1, CatalogedAssumption DEF NewRow
<1>4. ASSUME NEW p \in Paths, disk[p].present
      PROVE  disk[p].id \in Cataloged /\ place[disk[p].id] = p
    <2>1. \E u \in Cataloged : place[u] = p
        BY <1>1, <1>4 DEF Absent
    <2>. QED
        BY <1>1, <2>1
<1>. QED
    BY <1>2, <1>3, <1>4 DEF NoStrays, Placed, InCatalog

LEMMA MoveStrays ==
    ASSUME SeparateTargets, AtomicIInv, "stuck" \notin Faults, NEW c \in Callers,
           MoveFile(c) \/ RenameRow(c) \/ RollBack(c)
    PROVE  NoStrays'
<1>. DEFINE u == op[c].file
            from == op[c].path
            to == op[c].target
<1>0. /\ u \in Files /\ from \in Paths /\ to \in Paths
      /\ op \in [Callers -> OpType] /\ disk \in [Paths -> DiskType] /\ row \in [Files -> RowType]
      /\ op[c] \in OpType
    BY DEF AtomicIInv, FollowIInv, TypeOK, OpType
<1>1. /\ op[c].verb = "rename" /\ op[c].pc \in {"move", "write", "rollback"} /\ Renaming(op[c])
      /\ RenameFollows(op[c], c)
    BY DEF AtomicIInv, FollowIInv, RenamesFollow, Renaming, MoveFile, RenameRow, RollBack, At
<1>2. /\ to # from /\ InCatalog(u) /\ row[u].path = from
      /\ \A v : Moves(op[c], v) => v = u
      /\ op[c].pc # "move" => Moves(op[c], u)
    BY <1>1 DEF RenameFollows, Moves
<1>3. \A p \in Paths : disk[p].present => Placed(p, disk[p].id)
    BY DEF AtomicIInv, NoStrays
<1>4. \A d \in Callers : Moves(op[d], u) => d = c
    BY <1>1, RenamesApart DEF AtomicIInv, Moves, Renaming
<1>5. CASE MoveFile(c) /\ Answer(c)
    <2>1. op'[c].pc = "idle" /\ (\A d \in Callers : d # c => op'[d] = op[d]) /\ op[c].pc = "move"
        BY <1>0, <1>5 DEF MoveFile, At, Answer, IdleOp
    <2>2. UNCHANGED <<row, disk>>
        BY <1>0, <1>5, <2>1 DEF MoveFile, GoTo, OpType
    <2>. QED
        BY <2>1, <2>2, CalmStrays DEF Moves, InCatalog
<1>6. CASE MoveFile(c) /\ disk[from].present /\ disk' = Moved(from, to) /\ GoTo(c, "write")
    <2>1. /\ disk'[to] = disk[from] /\ ~ disk'[from].present /\ UNCHANGED row /\ op[c].pc = "move"
          /\ \A p \in Paths : p # from /\ p # to => disk'[p] = disk[p]
        BY <1>0, <1>2, <1>6 DEF Moved, MoveFile, Absent, At
    <2>2. /\ op'[c].verb = "rename" /\ op'[c].file = u /\ op'[c].target = to /\ op'[c].pc = "write"
          /\ \A d \in Callers : d # c => op'[d] = op[d]
        BY <1>0, <1>1, <1>6 DEF GoTo, OpType
    <2>3. ~ Moving(u)
        BY <1>4, <2>1, MovingMoves DEF Moves
    <2>4. disk[from].id = u
        BY <1>0, <1>2, <2>3 DEF AtomicIInv, FollowIInv, RowsFollowFiles
    <2>5. \A v : Moves(op[c], v) \/ Moves(op'[c], v) => v = u
        BY <1>2, <2>2 DEF Moves
    <2>6. ASSUME NEW p \in Paths, disk'[p].present, NEW v, v = disk'[p].id PROVE Placed(p, v)'
        <3>1. CASE p = to
            BY <1>0, <1>2, <2>1, <2>2, <2>4, <2>6, <3>1 DEF Placed, Moves, InCatalog
        <3>2. CASE p # to
            <4>1. p # from /\ disk'[p] = disk[p] /\ Placed(p, v)
                BY <1>3, <2>1, <2>6, <3>2
            <4>2. v # u
                BY <1>2, <1>4, <2>1, <2>3, <4>1, MovingMoves DEF Placed, Moves
            <4>. QED
                BY <1>0, <2>1, <2>2, <2>5, <4>1, <4>2, OtherStrays
        <3>. QED
            BY <3>1, <3>2
    <2>. QED
        BY <2>6 DEF NoStrays
<1>7. CASE RenameRow(c)
    <2>1. /\ op[c].pc = "write" /\ UNCHANGED disk
          /\ \A v \in Files : v # u => row'[v] = row[v]
          /\ \/ UNCHANGED row /\ GoTo(c, "rollback")
             \/ GoTo(c, "reread") /\ row' = [row EXCEPT ![u] = Renamed(row[u], to)]
        BY <1>0, <1>7 DEF RenameRow, At, UpdateRow
    <2>2. /\ op'[c].verb = "rename" /\ op'[c].file = u /\ op'[c].target = to
          /\ \A d \in Callers : d # c => op'[d] = op[d]
          /\ op'[c].pc \in {"rollback", "reread"}
        BY <1>0, <1>1, <2>1 DEF GoTo, OpType
    <2>3. \A v : Moves(op[c], v) \/ Moves(op'[c], v) => v = u
        BY <1>2, <2>2 DEF Moves
    <2>4. ASSUME NEW p \in Paths, disk[p].present, NEW v, v = disk[p].id PROVE Placed(p, v)'
        <3>1. Placed(p, v)
            BY <1>3, <2>4
        <3>2. CASE v = u
            <4>1. p = to
                BY <1>2, <1>4, <2>1, <3>1, <3>2, MovingMoves DEF Placed
            <4>2. CASE UNCHANGED row /\ GoTo(c, "rollback")
                <5>1. op'[c].pc = "rollback"
                    BY <1>0, <4>2 DEF GoTo, OpType
                <5>. QED
                    BY <1>0, <1>2, <2>2, <3>2, <4>1, <4>2, <5>1 DEF Placed, Moves, InCatalog
            <4>3. CASE GoTo(c, "reread") /\ row' = [row EXCEPT ![u] = Renamed(row[u], to)]
                <5>1. op'[c].pc = "reread"
                    BY <1>0, <4>3 DEF GoTo, OpType
                <5>2. row'[u].path = to /\ row'[u].state = row[u].state
                    BY <1>0, <4>3 DEF Renamed, RowType
                <5>3. \A d \in Callers : ~ Moves(op'[d], u)
                    BY <1>4, <2>2, <5>1 DEF Moves
                <5>. QED
                    BY <1>0, <1>2, <3>2, <4>1, <5>2, <5>3 DEF Placed, Moving, Moves, InCatalog
            <4>. QED
                BY <2>1, <4>2, <4>3
        <3>3. CASE v # u
            BY <1>0, <2>1, <2>2, <2>3, <3>1, <3>3, OtherStrays
        <3>. QED
            BY <3>2, <3>3
    <2>. QED
        BY <2>1, <2>4 DEF NoStrays
<1>8. CASE RollBack(c)
    <2>1. /\ disk' = Moved(to, from) /\ op[c].pc = "rollback" /\ UNCHANGED row /\ Answer(c)
          /\ disk[to].present /\ disk[to].id = u
        BY <1>1, <1>8 DEF RollBack, At, RenameFollows
    <2>2. /\ disk'[from] = disk[to] /\ ~ disk'[to].present
          /\ \A p \in Paths : p # from /\ p # to => disk'[p] = disk[p]
        BY <1>0, <1>2, <2>1 DEF Moved, Absent
    <2>3. op'[c].pc = "idle" /\ \A d \in Callers : d # c => op'[d] = op[d]
        BY <1>0, <2>1 DEF Answer, IdleOp
    <2>4. /\ \A v : Moves(op[c], v) \/ Moves(op'[c], v) => v = u
          /\ \A d \in Callers : ~ Moves(op'[d], u)
        BY <1>2, <1>4, <2>3 DEF Moves
    <2>5. ASSUME NEW p \in Paths, disk'[p].present, NEW v, v = disk'[p].id PROVE Placed(p, v)'
        <3>1. CASE p = from
            BY <1>0, <1>2, <2>1, <2>2, <2>4, <2>5, <3>1 DEF Placed, Moving, Moves, InCatalog
        <3>2. CASE p # from
            <4>1. p # to /\ disk'[p] = disk[p] /\ Placed(p, v)
                BY <1>3, <2>2, <2>5, <3>2
            <4>2. v # u
                BY <1>2, <1>4, <2>1, <4>1, MovingMoves DEF Placed
            <4>. QED
                BY <1>0, <2>1, <2>3, <2>4, <4>1, <4>2, OtherStrays
        <3>. QED
            BY <3>1, <3>2
    <2>. QED
        BY <2>5 DEF NoStrays
<1>. QED
    BY <1>5, <1>6, <1>7, <1>8 DEF MoveFile

(* What a deletion or a restore does to the rows.                          *)
LEMMA StatesMove ==
    ASSUME TypeOK, NEW c \in Callers, SoftDelete(c) \/ Restore(c)
    PROVE  \E s \in {"active", "deleted"} : \A u \in Files :
              /\ row'[u].path = row[u].path
              /\ \/ row'[u].state = row[u].state
                 \/ u = op[c].file /\ InCatalog(u) /\ row'[u].state = s
<1>1. op[c].file \in Files /\ row \in [Files -> RowType]
    BY DEF TypeOK, OpType
<1>2. ASSUME NEW s, NEW rw,
             (UpdateRow(op[c].file, rw) /\ InCatalog(op[c].file)) \/ UNCHANGED row,
             rw.path = row[op[c].file].path, rw.state = s
      PROVE  \A u \in Files :
                /\ row'[u].path = row[u].path
                /\ \/ row'[u].state = row[u].state
                   \/ u = op[c].file /\ InCatalog(u) /\ row'[u].state = s
    BY <1>1, <1>2 DEF UpdateRow
<1>3. CASE SoftDelete(c)
    <2>1. /\ SoftDeleted(row[op[c].file], op[c].at).path = row[op[c].file].path
          /\ SoftDeleted(row[op[c].file], op[c].at).state = "deleted"
        BY <1>1 DEF SoftDeleted, RowType
    <2>. QED
        BY <1>2, <1>3, <2>1 DEF SoftDelete, OneStatement
<1>4. CASE Restore(c)
    <2>1. /\ Restored(row[op[c].file]).path = row[op[c].file].path
          /\ Restored(row[op[c].file]).state = "active"
        BY <1>1 DEF Restored, RowType
    <2>. QED
        BY <1>2, <1>4, <2>1 DEF Restore, OneStatement
<1>. QED
    BY <1>3, <1>4

LEMMA RenamesNextStrays ==
    ASSUME SeparateTargets, "stuck" \notin Faults, "reread" \notin Faults, AtomicIInv, [RenamesNext]_vars
    PROVE  NoStrays'
<1>0. op \in [Callers -> OpType] /\ row \in [Files -> RowType]
    BY DEF AtomicIInv, FollowIInv, TypeOK
<1>1. CASE UNCHANGED vars
    BY <1>1 DEF vars, AtomicIInv, NoStrays, Placed, Moving, Moves, InCatalog
<1>2. ASSUME NEW c \in Callers, SoftDelete(c) \/ Restore(c) PROVE NoStrays'
    <2>1. op[c].verb # "rename" /\ UNCHANGED disk /\ op[c].file \in Files
          /\ op'[c].pc = "idle" /\ \A d \in Callers : d # c => op'[d] = op[d]
        BY <1>0, <1>2 DEF SoftDelete, Restore, OneStatement, At, Answer, IdleOp, OpType
    <2>2. \A u \in Files : row'[u].path = row[u].path /\ (InCatalog(u)' <=> InCatalog(u))
        BY <1>2, StatesMove DEF AtomicIInv, FollowIInv, InCatalog
    <2>. QED
        BY <2>1, <2>2, CalmStrays DEF Moves
<1>3. ASSUME NEW c \in Callers, NEW verb \in Verbs, NEW u \in Files, NEW p \in Paths,
             Ask(c, verb, u, p, Original)
      PROVE  NoStrays'
    <2>1. /\ op'[c].verb = verb /\ op'[c].pc = FirstPC(verb) /\ UNCHANGED <<row, disk>>
          /\ op[c].pc = "idle" /\ \A d \in Callers : d # c => op'[d] = op[d]
        BY <1>0, <1>3 DEF Ask
    <2>2. verb = "rename" => op'[c].pc = "cataloged"
        BY <2>1 DEF FirstPC
    <2>. QED
        BY <2>1, <2>2, CalmStrays DEF Moves, InCatalog
<1>4. ASSUME NEW c \in Callers, FindTarget(c) \/ ProbeTarget(c) PROVE NoStrays'
    <2>1. /\ op[c].pc \in {"cataloged", "exists"} /\ UNCHANGED <<row, disk>>
          /\ op'[c].pc \in {"idle", "exists", "move"} /\ \A d \in Callers : d # c => op'[d] = op[d]
        BY <1>0, <1>4 DEF FindTarget, ProbeTarget, At, GoTo, Answer, IdleOp, OpType
    <2>. QED
        BY <2>1, CalmStrays DEF Moves, InCatalog
<1>5. ASSUME NEW c \in Callers, RereadRow(c), "reread" \notin Faults PROVE NoStrays'
    <2>1. op[c].pc = "reread" /\ op[c].verb = "rename" /\ UNCHANGED <<row, disk>>
        BY <1>5 DEF RereadRow, At
    <2>2. InCatalog(op[c].file)
        BY <2>1 DEF AtomicIInv, FollowIInv, RenamesFollow, Renaming, RenameFollows
    <2>3. op'[c].pc = "idle" /\ \A d \in Callers : d # c => op'[d] = op[d]
        BY <1>0, <1>5, <2>2 DEF RereadRow, Answer, IdleOp
    <2>. QED
        BY <2>1, <2>3, CalmStrays DEF Moves, InCatalog
<1>. QED
    BY <1>1, <1>2, <1>3, <1>4, <1>5, MoveStrays DEF RenamesNext

LEMMA AtomicStep ==
    ASSUME SeparateTargets, "stuck" \notin Faults, "reread" \notin Faults, AtomicIInv, [RenamesNext]_vars
    PROVE  AtomicIInv'
<1>1. [Next]_vars
    <2>1. Original \in Bytes
        BY DEF Bytes
    <2>. QED
        BY <2>1 DEF RenamesNext, Next, Request, OpStep
<1>. QED
    BY <1>1, NextTypes, NextSound, RenamesNextFollows, RenamesNextStrays DEF AtomicIInv, FollowIInv

(* What FolderIsListed says of every path.                                 *)
FolderListed ==
    \A p \in Paths :
        /\ \A u \in Files : InCatalog(u) /\ row[u].path = p => Folder[p] = u
        /\ NoRowAt(p) => Folder[p] = Nobody

(* The folder of the mapping changes with the rows only.                   *)
LEMMA SameFolder ==
    ASSUME FolderListed, FolderListed',
           \A u \in Files : row'[u].path = row[u].path /\ (InCatalog(u)' <=> InCatalog(u))
    PROVE  Folder' = Folder
<1>1. ASSUME NEW p \in Paths PROVE Folder'[p] = Folder[p]
    BY DEF FolderListed, NoRowAt
<1>. QED
    BY <1>1 DEF Folder

(* A rename whose row has been written is the rename of the library.       *)
LEMMA RenameRefines ==
    ASSUME AtomicIInv, FolderListed, FolderListed', NEW c \in Callers, RenameRow(c), ~ UNCHANGED row,
           NEW u, NEW from, NEW to, u = op[c].file, from = op[c].path, to = op[c].target
    PROVE  Library!Rename(u, to)
<1>0. /\ u \in Files /\ from \in Paths /\ to \in Paths /\ row \in [Files -> RowType]
      /\ RowsSound
    BY DEF AtomicIInv, FollowIInv, TypeOK, OpType
<1>1. RenameFollows(op[c], c) /\ op[c].pc = "write"
    BY DEF AtomicIInv, FollowIInv, RenamesFollow, Renaming, RenameRow, At
<1>2. InCatalog(u) /\ row[u].path = from /\ to # from /\ NoRowAt(to)
    BY <1>1 DEF RenameFollows
<1>3. row' = [row EXCEPT ![u] = Renamed(row[u], to)]
    BY DEF RenameRow, UpdateRow
<1>4. /\ row'[u].path = to /\ row'[u].state = row[u].state
      /\ \A v \in Files : v # u => row'[v] = row[v]
    BY <1>0, <1>3 DEF Renamed, RowType
<1>5. StateOf' = StateOf /\ ListedOf' = [ListedOf EXCEPT ![u] = to]
    BY <1>0, <1>4 DEF StateOf, ListedOf
<1>6. Folder[to] = Nobody
    BY <1>0, <1>2 DEF FolderListed
<1>7. Folder' = [Folder EXCEPT ![to] = u, ![from] = Nobody]
    <2>1. Folder'[to] = u
        BY <1>0, <1>2, <1>4 DEF FolderListed, InCatalog
    <2>2. Folder'[from] = Nobody
        <3>1. NoRowAt(from)'
            BY <1>0, <1>2, <1>4 DEF NoRowAt, RowsSound, InCatalog
        <3>. QED
            BY <1>0, <3>1 DEF FolderListed
    <2>3. ASSUME NEW p \in Paths, p # to, p # from PROVE Folder'[p] = Folder[p]
        <3>1. \A v \in Files : InCatalog(v) /\ row[v].path = p <=> (InCatalog(v) /\ row[v].path = p)'
            BY <1>2, <1>4, <2>3 DEF InCatalog
        <3>. QED
            BY <3>1 DEF FolderListed, NoRowAt
    <2>. QED
        <3>1. /\ Folder = [p \in Paths |-> Folder[p]]
              /\ Folder' = [p \in Paths |-> Folder'[p]]
            BY DEF Folder
        <3>. QED
            BY <1>0, <1>2, <2>1, <2>2, <2>3, <3>1
<1>8. Library!Known(u)
    BY <1>0, <1>2 DEF Library!Known, InCatalog
<1>. QED
    BY <1>0, <1>2, <1>5, <1>6, <1>7, <1>8 DEF Library!Rename, StateOf, ListedOf

(* Every step of the requests is a step of the library, or none.           *)
LEMMA RenamesNextRefines ==
    ASSUME AtomicIInv, FolderListed, FolderListed', [RenamesNext]_vars
    PROVE  Library!Next \/ UNCHANGED Library!library
<1>0. row \in [Files -> RowType] /\ TypeOK /\ \A c \in Callers : op[c].file \in Files /\ op[c].target \in Paths
    BY DEF AtomicIInv, FollowIInv, TypeOK, OpType
<1>1. CASE UNCHANGED row
    <2>1. Folder' = Folder
        BY <1>1, SameFolder DEF InCatalog
    <2>. QED
        BY <1>1, <2>1 DEF Library!library
<1>2. ASSUME NEW c \in Callers, NEW u, u = op[c].file, SoftDelete(c) \/ Restore(c)
      PROVE  Library!Next \/ UNCHANGED Library!library
    <2>1. PICK s \in {"active", "deleted"} : \A v \in Files :
              /\ row'[v].path = row[v].path
              /\ \/ row'[v].state = row[v].state
                 \/ v = u /\ InCatalog(v) /\ row'[v].state = s
        BY <1>0, <1>2, StatesMove
    <2>2. Folder' = Folder /\ ListedOf' = ListedOf
        BY <2>1, SameFolder DEF InCatalog, ListedOf
    <2>3. CASE row'[u].state = row[u].state
        <3>1. StateOf' = StateOf
            BY <2>1, <2>3 DEF StateOf
        <3>. QED
            BY <2>2, <3>1 DEF Library!library, StateOf, ListedOf
    <2>4. CASE row'[u].state # row[u].state
        <3>1. StateOf' = [StateOf EXCEPT ![u] = s] /\ StateOf[u] # s /\ StateOf[u] \in {"active", "deleted"}
            BY <1>0, <1>2, <2>1, <2>4 DEF StateOf, InCatalog
        <3>2. Library!Delete(u) \/ Library!Restore(u)
            BY <1>0, <1>2, <2>2, <3>1 DEF Library!Delete, Library!Restore, Library!Becomes, StateOf, ListedOf
        <3>. QED
            BY <1>0, <1>2, <3>2 DEF Library!Next
    <2>. QED
        BY <2>3, <2>4
<1>3. ASSUME NEW c \in Callers, RenameRow(c), ~ UNCHANGED row,
             NEW u, NEW from, NEW to, u = op[c].file, from = op[c].path, to = op[c].target
      PROVE  Library!Next
    <2>1. Library!Rename(u, to)
        BY <1>3, RenameRefines
    <2>. QED
        BY <1>0, <1>3, <2>1 DEF Library!Next
<1>. QED
    BY <1>1, <1>2, <1>3 DEF RenamesNext, vars, Ask, FindTarget, ProbeTarget, MoveFile, RereadRow, RollBack

LEMMA InitListed ==
    ASSUME Init, FolderListed
    PROVE  Library!Init
<1>1. \A u \in Files : row[u].state \in {"none", "active"} /\ row[u].path \in Paths
    <2>1. TypeOK
        BY InitTypes
    <2>2. PICK place \in [Cataloged -> Paths] : row = [u \in Files |->
                IF u \in Cataloged
                  THEN [NewRow(place[u], 0) EXCEPT !.extracted = TRUE]
                  ELSE [NewRow(SomePath, 0) EXCEPT !.state = "none"]]
        BY DEF Init
    <2>3. \A u \in Files : row[u].state \in {"none", "active"}
        BY <2>2 DEF NewRow
    <2>. QED
        BY <2>1, <2>3 DEF TypeOK, RowType
<1>2. ASSUME NEW p \in Paths, NEW u \in Files
      PROVE  Folder[p] = u <=> InCatalog(u) /\ row[u].path = p
    <2>1. NoRowAt(p) \/ \E v \in Files : InCatalog(v) /\ row[v].path = p
        BY DEF NoRowAt
    <2>. QED
        BY <2>1, IdsAssumption DEF FolderListed
<1>3. Folder \in [Paths -> Files \cup {Nobody}]
    <2>1. \A p \in Paths : Folder[p] \in Files \cup {Nobody}
        BY DEF FolderListed, NoRowAt
    <2>. QED
        BY <2>1 DEF Folder
<1>. QED
    BY <1>1, <1>2, <1>3 DEF Library!Init, Library!Known, InCatalog

(* The requests to rename, soft-delete and restore implement FileLibrary,  *)
(* where a rename is one step: for any number of callers, files and paths, *)
(* whichever statement or system call fails, as long as callers rename     *)
(* different files to different names and a file can be moved back         *)
(* (rename_file.rs).                                                       *)
THEOREM AtomicTheorem ==
    ASSUME SeparateTargets, "stuck" \notin Faults, "reread" \notin Faults
    PROVE  RenamesSpec => RenamesAreAtomic
<1>1. Init => AtomicIInv
    BY InitFollows, InitStrays DEF AtomicIInv
<1>2. AtomicIInv /\ [RenamesNext]_vars => AtomicIInv'
    BY AtomicStep
<1>3. AtomicIInv => FolderListed
    BY FolderIsListed DEF FolderListed
<1>4. Init /\ FolderListed => Library!Init
    BY InitListed
<1>5. AtomicIInv /\ FolderListed /\ FolderListed' /\ [RenamesNext]_vars
        => [Library!Next]_(Library!library)
    BY RenamesNextRefines
<1>. QED
    BY <1>1, <1>2, <1>3, <1>4, <1>5, PTL DEF RenamesSpec, RenamesAreAtomic, Library!Spec
================================================================================

--------------------------- MODULE ProgressLists ---------------------------
(***************************************************************************)
(* Watchlists and reading lists (alexandria-core/src/watchlists,           *)
(* reading_lists): two components of one shape, told apart by the kind of  *)
(* list. A list links files to progress rows; the tables declare no        *)
(* foreign key, so that no row outlives its list or its file is the        *)
(* statements' doing.                                                      *)
(*                                                                         *)
(* Every handler is a sequence of statements, one action each. The         *)
(* episode or issue an update carries replaces the old one with the state  *)
(* and decides nothing, so it is left out.                                 *)
(***************************************************************************)
EXTENDS Integers, FiniteSets

CONSTANTS
  Viewers,        \* concurrent callers
  Lists,          \* lists that may be created
  ListKind,       \* "watch" or "reading", by list
  ListFiles,      \* files of the catalog
  FileKind        \* FileType, by file

ASSUME ListsAssumption ==
  /\ ListKind \in [Lists -> {"watch", "reading"}]
  /\ FileKind \in [ListFiles -> {"video", "document", "comic", "image"}]
  /\ "the catalog" \notin Viewers      \* a purge is no viewer's call

Entries == Lists \X ListFiles
States == {"pending", "active", "finished"}

VARIABLES
  listed,         \* the lists that exist
  unlisted,       \* the lists that have been deleted; uuids are not reused
  kept,           \* the files that are in the catalog
  progress,       \* the progress rows: state by (list, file)
  viewing         \* the call each viewer has in flight

listVars == <<listed, unlisted, kept, progress, viewing>>

NoEntry == << >>
NotCalling == [at |-> "idle", entry |-> NoEntry, from |-> "pending",
               to |-> "pending", raced |-> FALSE, answer |-> "none"]
Steps == {"idle", "find file", "insert", "read back", "update", "reread",
          "drop", "answered"}

ListsTypeOK ==
  /\ listed \subseteq Lists /\ unlisted \subseteq Lists /\ kept \subseteq ListFiles
  /\ listed \cap unlisted = {}
  /\ DOMAIN progress \subseteq Entries
  /\ \A e \in DOMAIN progress : progress[e] \in States
  /\ viewing \in [Viewers ->
        [at : Steps, entry : Entries \cup Lists \cup {NoEntry}, from : States,
         to : States, raced : BOOLEAN, answer : {"none", "ok", "refused"}]]

ListsInit ==
  /\ listed = {} /\ unlisted = {} /\ kept = ListFiles
  /\ progress = << >>
  /\ viewing = [v \in Viewers |-> NotCalling]

----------------------------------------------------------------------------
(* What the handlers decide.                                               *)

\* is_valid_transition: watching may be reported again, nothing else repeats
ValidTransition(from, to) ==
  <<from, to>> \in {<<"pending", "active">>, <<"active", "active">>,
                    <<"active", "finished">>}

\* a video on a watchlist, a document or a comic on a reading list
Allowed(l, f) ==
  IF ListKind[l] = "watch" THEN FileKind[f] = "video"
                           ELSE FileKind[f] \in {"document", "comic"}

Without(rows) == [e \in DOMAIN progress \ rows |-> progress[e]]

\* every call that looked a row up before somebody else wrote or removed it
Racing(v, rows) ==
  [u \in Viewers |-> IF u # v /\ viewing[u].at = "update" /\ viewing[u].entry \in rows
                     THEN [viewing[u] EXCEPT !.raced = TRUE] ELSE viewing[u]]

Idle(v) == viewing[v].at = "idle"
Step(v, at) == viewing' = [viewing EXCEPT ![v].at = at]
Answer(v, answer) ==
  viewing' = [viewing EXCEPT ![v].at = "answered", ![v].answer = answer]

----------------------------------------------------------------------------
(* Lists.                                                                  *)

CreateList(l) ==
  /\ l \notin listed \cup unlisted
  /\ listed' = listed \cup {l}
  /\ UNCHANGED <<unlisted, kept, progress, viewing>>

DeleteListBegin(v, l) ==
  /\ Idle(v) /\ l \in listed
  /\ viewing' = [viewing EXCEPT ![v] = [NotCalling EXCEPT !.at = "drop", !.entry = l]]
  /\ UNCHANGED <<listed, unlisted, kept, progress>>

DeleteListOnly(v) ==
  /\ viewing[v].at = "drop"
  /\ LET rows == {e \in DOMAIN progress : e[1] = viewing[v].entry} IN
     /\ listed' = listed \ {viewing[v].entry}
     /\ unlisted' = unlisted \cup {viewing[v].entry}
     /\ progress' = progress
     /\ viewing' = [Racing(v, rows) EXCEPT ![v] = NotCalling]
  /\ UNCHANGED kept

\* one transaction: the progress rows first, then the list
DeleteList(v) ==
  /\ viewing[v].at = "drop"
  /\ LET rows == {e \in DOMAIN progress : e[1] = viewing[v].entry} IN
     /\ listed' = listed \ {viewing[v].entry}
     /\ unlisted' = unlisted \cup {viewing[v].entry}
     /\ progress' = Without(rows)
     /\ viewing' = [Racing(v, rows) EXCEPT ![v] = NotCalling]
  /\ UNCHANGED kept

----------------------------------------------------------------------------
(* Adding: the list, then the file and its kind, then the insert whose     *)
(* subselects resolve both again, then the row as it now is.               *)

AddFindsList(v, l, f) ==
  /\ Idle(v) /\ l \in listed
  /\ viewing' = [viewing EXCEPT ![v] =
       [NotCalling EXCEPT !.at = "find file", !.entry = <<l, f>>]]
  /\ UNCHANGED <<listed, unlisted, kept, progress>>

AddFindsFile(v) ==
  /\ viewing[v].at = "find file"
  /\ LET e == viewing[v].entry IN
     IF e[2] \in kept /\ Allowed(e[1], e[2]) THEN Step(v, "insert")
     ELSE Answer(v, "refused")
  /\ UNCHANGED <<listed, unlisted, kept, progress>>

\* NOT NULL refuses a list or a file that has vanished; an entry already
\* there stays as it is (ON CONFLICT DO NOTHING)
AddInserts(v) ==
  /\ viewing[v].at = "insert"
  /\ LET e == viewing[v].entry IN
     IF e[1] \in listed /\ e[2] \in kept
     THEN /\ progress' = [x \in DOMAIN progress \cup {e} |->
                            IF x \in DOMAIN progress THEN progress[x] ELSE "pending"]
          /\ Step(v, "read back")
     ELSE Answer(v, "refused") /\ UNCHANGED progress
  /\ UNCHANGED <<listed, unlisted, kept>>

\* add_video and add_item answer with the row they find, or NotFound
ReadBack(v) ==
  /\ viewing[v].at \in {"read back", "reread"}
  /\ Answer(v, IF viewing[v].entry \in DOMAIN progress THEN "ok" ELSE "refused")
  /\ UNCHANGED <<listed, unlisted, kept, progress>>

----------------------------------------------------------------------------
(* Updating: find_progress, the transition, then an UPDATE that names only *)
(* the list and the file. A reading list reads the row back; a watchlist   *)
(* answers with what it was asked to store.                                *)

UpdateChecksNothing(v, e, to) ==
  /\ Idle(v) /\ e \in DOMAIN progress
  /\ viewing' = [viewing EXCEPT ![v] =
       [NotCalling EXCEPT !.at = "update", !.entry = e, !.from = progress[e],
                          !.to = to]]
  /\ UNCHANGED <<listed, unlisted, kept, progress>>

UpdateChecks(v, e, to) ==
  /\ Idle(v) /\ e \in DOMAIN progress
  /\ ValidTransition(progress[e], to)
  /\ viewing' = [viewing EXCEPT ![v] =
       [NotCalling EXCEPT !.at = "update", !.entry = e, !.from = progress[e],
                          !.to = to]]
  /\ UNCHANGED <<listed, unlisted, kept, progress>>

UpdateWrites(v) ==
  /\ viewing[v].at = "update"
  /\ LET e == viewing[v].entry
         reading == ListKind[e[1]] = "reading"
     IN /\ progress' = IF e \in DOMAIN progress
                       THEN [progress EXCEPT ![e] = viewing[v].to] ELSE progress
        /\ viewing' = [Racing(v, {e}) EXCEPT
                         ![v].at = IF reading THEN "reread" ELSE "answered",
                         ![v].answer = IF reading THEN "none" ELSE "ok"]
  /\ UNCHANGED <<listed, unlisted, kept>>

----------------------------------------------------------------------------
(* Removing is one statement, NotFound if it deletes nothing; so is the    *)
(* purge of a file, whose transaction deletes the rows that track it.      *)

RemoveEntry(v, e) ==
  /\ Idle(v) /\ e \in DOMAIN progress
  /\ progress' = Without({e})
  /\ viewing' = Racing(v, {e})
  /\ UNCHANGED <<listed, unlisted, kept>>

PurgeListed(f) ==
  /\ f \in kept
  /\ kept' = kept \ {f}
  /\ LET rows == {e \in DOMAIN progress : e[2] = f} IN
     /\ progress' = Without(rows)
     /\ viewing' = Racing("the catalog", rows)
  /\ UNCHANGED <<listed, unlisted>>

ViewerLeaves(v) ==
  /\ viewing[v].at # "idle"
  /\ viewing' = [viewing EXCEPT ![v] = NotCalling]
  /\ UNCHANGED <<listed, unlisted, kept, progress>>

ListsNext ==
  \/ \E l \in Lists : CreateList(l)
  \/ \E f \in ListFiles : PurgeListed(f)
  \/ \E v \in Viewers :
       \/ \E l \in Lists : \/ DeleteListBegin(v, l)
                           \/ \E f \in ListFiles : AddFindsList(v, l, f)
       \/ \E e \in Entries : \/ RemoveEntry(v, e)
                             \/ \E to \in States : UpdateChecks(v, e, to)
       \/ DeleteList(v) \/ AddFindsFile(v) \/ AddInserts(v) \/ ReadBack(v)
       \/ UpdateWrites(v) \/ ViewerLeaves(v)

ListsSpec == ListsInit /\ [][ListsNext]_listVars

----------------------------------------------------------------------------
(* Properties.                                                             *)

\* No progress row outlives its list or its file, and none is of a file its
\* list may not hold, though the tables declare no foreign key and every
\* check was a statement earlier (delete_watchlist: "must not leave orphaned
\* watch_progress rows").
ProgressRowsLive ==
  \A e \in DOMAIN progress : e[1] \in listed /\ e[2] \in kept /\ Allowed(e[1], e[2])

\* "the state machine can only ever move forward one step"
\* (update_progress.rs) holds of every step but the write of an update whose
\* entry was written or removed by another call after it was looked up.
ForwardUnlessRaced ==
  [][\A e \in DOMAIN progress \cap DOMAIN progress' :
       progress'[e] # progress[e] =>
         \/ ValidTransition(progress[e], progress'[e])
         \/ \E v \in Viewers : /\ viewing[v].at = "update" /\ viewing[v].entry = e
                               /\ viewing[v].raced]_listVars
=============================================================================

---------------------------- MODULE StoresProofs ----------------------------
(***************************************************************************)
(* What is proved of the stores of MCStores: the thumbnail cache, the      *)
(* collections and bookmarks, the watchlists and reading lists.            *)
(***************************************************************************)
EXTENDS MCStores, HeimdallKeysProofs, TLAPS

(***************************************************************************)
(* The thumbnail cache.                                                    *)
(***************************************************************************)

\* The row never runs ahead of the file: what a refresh records was read
\* from the file before.
RowsTrail == mtime <= bytes /\ statted <= bytes

\* What is cached under a version's key shows that version or a later one.
CachedUnderOlder ==
  \A k \in FileVersions : thumbs[k] # NoPicture => k <= thumbs[k]

\* A request keeps to the key of the row it read, and what it rendered is no
\* older than that row.
RequestsKeepTheirKey ==
  \A p \in Previews :
    /\ preview[p].pc # "idle" => /\ preview[p].key = preview[p].row
                                 /\ preview[p].row <= bytes
    /\ preview[p].pc \in {"create", "write", "publish", "shown"} =>
         preview[p].row <= preview[p].picture

\* A scratch file about to be renamed holds what its own request rendered.
ScratchIsWhole ==
  \A p \in Previews : preview[p].pc = "publish" => scratch[p] = preview[p].picture

ThumbIInv == ThumbTypeOK /\ RowsTrail /\ CachedUnderOlder /\ RequestsKeepTheirKey
                         /\ ScratchIsWhole

\* Every step a request takes keeps the invariant of the cache.
LEMMA ThumbStepKept ==
  ASSUME ThumbIInv, NEW q \in Previews, ThumbStep(q)
  PROVE  ThumbIInv'
<1> USE DEF ThumbIInv, ThumbTypeOK, RowsTrail, CachedUnderOlder, RequestsKeepTheirKey,
            ScratchIsWhole, PreviewPCs, Pictures, NoVersion, NoPicture, Partial,
            IdlePreview, KeyFor, ScratchOf, Previewed, Idles
<1>0. FileVersions \subseteq Nat
  BY ThumbnailsAssumption DEF FileVersions
<1>9. /\ IdlePreview \in [pc : PreviewPCs, key : FileVersions, row : FileVersions,
                           picture : FileVersions \cup {NoPicture}]
      /\ IdlePreview.pc = "idle"
  BY ThumbnailsAssumption DEF FileVersions
<1> HIDE DEF IdlePreview
<1>1. CASE ResolveFile(q)  BY <1>1, <1>0 DEF ResolveFile
<1>2. CASE LookInCache(q)  BY <1>2, <1>0 DEF LookInCache
<1>3. CASE Render(q)
  <2>1. CASE Previewed(q, "create", bytes)  BY <1>3, <2>1, <1>0 DEF Render
  <2>2. CASE Idles(q)  BY <1>3, <2>2, <1>0, <1>9 DEF Render
  <2> QED  BY <1>3, <2>1, <2>2 DEF Render
<1>4. CASE CreateScratch(q)  BY <1>4, <1>0 DEF CreateScratch
<1>5. CASE FillScratch(q)  BY <1>5, <1>0 DEF FillScratch
<1>6. CASE Publish(q)  BY <1>6, <1>0 DEF Publish
<1>7. CASE GiveUpPut(q)  BY <1>7, <1>0 DEF GiveUpPut
<1>8. CASE Show(q)  BY <1>8, <1>0, <1>9 DEF Show
<1> QED  BY <1>1, <1>2, <1>3, <1>4, <1>5, <1>6, <1>7, <1>8 DEF ThumbStep

\* The invariant of the cache, from the first state on.
LEMMA ThumbInvariance == ThumbSpec => []ThumbIInv
<1> USE DEF ThumbIInv, ThumbTypeOK, RowsTrail, CachedUnderOlder, RequestsKeepTheirKey,
            ScratchIsWhole, PreviewPCs, Pictures, NoVersion, NoPicture, Partial,
            IdlePreview
<1>0. FileVersions \subseteq Nat /\ 0 \in FileVersions
  BY ThumbnailsAssumption DEF FileVersions
<1>1. ThumbInit => ThumbIInv
  BY <1>0 DEF ThumbInit
<1>2. ThumbIInv /\ [ThumbNext]_thumbVars => ThumbIInv'
  <2> SUFFICES ASSUME ThumbIInv, [ThumbNext]_thumbVars  PROVE ThumbIInv'
    OBVIOUS
  <2>1. CASE \E q \in Previews : ThumbStep(q)
    BY <2>1, ThumbStepKept
  <2>2. CASE EndProcess  BY <2>2, <1>0 DEF EndProcess
  <2>3. CASE ReplaceFile
    BY <2>3, <1>0, ThumbnailsAssumption DEF ReplaceFile, FileVersions
  <2>4. CASE StatFile  BY <2>4, <1>0 DEF StatFile
  <2>5. CASE RecordStat  BY <2>5, <1>0 DEF RecordStat
  <2>6. CASE TogglePlayable  BY <2>6, <1>0 DEF TogglePlayable
  <2>7. CASE UNCHANGED thumbVars  BY <2>7 DEF thumbVars
  <2> QED  BY <2>1, <2>2, <2>3, <2>4, <2>5, <2>6, <2>7 DEF ThumbNext
<1> QED  BY <1>1, <1>2, PTL DEF ThumbSpec

\* Whatever requests run at once and wherever a put fails, no half-written
\* picture is published or shown (thumbnail.rs, put: the scratch name is the
\* call's own, and a rename publishes it).
THEOREM ThumbTypeCorrect == ThumbSpec => []ThumbTypeOK
<1>1. ThumbIInv => ThumbTypeOK  BY DEF ThumbIInv
<1> QED  BY <1>1, ThumbInvariance, PTL

\* No picture shown is older than the row its request read, for any number of
\* requests and versions of the file (thumbnail.rs, cache_key: the key is
\* the mtime of the row).
THEOREM ThumbnailTheorem == ThumbSpec => []NeverOlderThanRow
<1>1. ThumbIInv => NeverOlderThanRow
  <2> SUFFICES ASSUME ThumbIInv, NEW p \in Previews, preview[p].pc = "shown"
               PROVE  preview[p].picture >= preview[p].row
    BY DEF NeverOlderThanRow
  <2>1. preview[p].row <= preview[p].picture
    BY DEF ThumbIInv, RequestsKeepTheirKey
  <2>2. preview[p].row \in Int /\ preview[p].picture \in Int
    BY ThumbnailsAssumption DEF ThumbIInv, ThumbTypeOK, FileVersions, NoPicture
  <2> QED  BY <2>1, <2>2
<1> QED  BY <1>1, ThumbInvariance, PTL

(***************************************************************************)
(* Watchlists and reading lists.                                           *)
(***************************************************************************)

\* What a call between two statements still knows: what it adds or updates is
\* an entry, what it is about to insert is of a kind its list may hold, what
\* it is about to drop is a list.
CallsKnowTheirEntry ==
  \A v \in Viewers :
    /\ viewing[v].at \in {"find file", "insert", "read back", "update", "reread"} =>
         viewing[v].entry \in Entries
    /\ viewing[v].at = "insert" => Allowed(viewing[v].entry[1], viewing[v].entry[2])
    /\ viewing[v].at = "drop" => viewing[v].entry \in Lists

\* An update nobody raced still finds the state its transition was judged by.
UpdateStillHolds ==
  \A v \in Viewers :
    viewing[v].at = "update" =>
      /\ ValidTransition(viewing[v].from, viewing[v].to)
      /\ \/ viewing[v].raced
         \/ /\ viewing[v].entry \in DOMAIN progress
            /\ progress[viewing[v].entry] = viewing[v].from

ListsIInv == ListsTypeOK /\ ProgressRowsLive /\ CallsKnowTheirEntry /\ UpdateStillHolds

CallType ==
  [at : Steps, entry : Entries \cup Lists \cup {NoEntry}, from : States,
   to : States, raced : BOOLEAN, answer : {"none", "ok", "refused"}]

\* The invariant holds at the start.
LEMMA ListsInitHolds == ListsInit => ListsIInv
<1> SUFFICES ASSUME ListsInit  PROVE ListsIInv
  OBVIOUS
<1>1. NotCalling \in CallType /\ NotCalling.at = "idle"
  BY DEF NotCalling, CallType, Steps, States
<1>2. DOMAIN progress = {}
  BY DEF ListsInit
<1>3. viewing \in [Viewers -> CallType] /\ \A v \in Viewers : viewing[v].at = "idle"
  BY <1>1 DEF ListsInit
<1>4. ListsTypeOK
  BY <1>2, <1>3 DEF ListsInit, ListsTypeOK, CallType
<1> QED  BY <1>2, <1>3, <1>4 DEF ListsIInv, ProgressRowsLive, CallsKnowTheirEntry, UpdateStillHolds

\* A call that raced others keeps everything but the mark it leaves on them.
LEMMA RacingMarks ==
  ASSUME viewing \in [Viewers -> CallType], NEW v, NEW rows
  PROVE  /\ Racing(v, rows) \in [Viewers -> CallType]
         /\ \A u \in Viewers :
              /\ Racing(v, rows)[u].at = viewing[u].at
              /\ Racing(v, rows)[u].entry = viewing[u].entry
              /\ Racing(v, rows)[u].from = viewing[u].from
              /\ Racing(v, rows)[u].to = viewing[u].to
              /\ viewing[u].raced => Racing(v, rows)[u].raced
              /\ u # v /\ viewing[u].at = "update" /\ viewing[u].entry \in rows =>
                   Racing(v, rows)[u].raced
<1>1. \A u \in Viewers : viewing[u] \in CallType  OBVIOUS
<1>2. \A u \in Viewers : [viewing[u] EXCEPT !.raced = TRUE] \in CallType
  BY <1>1 DEF CallType
<1> QED  BY <1>1, <1>2 DEF Racing, CallType

\* What one call may become without breaking what the others know: a call on
\* an entry, whose update finds the state it starts from.
LEMMA OwnStepKept ==
  ASSUME ListsIInv, NEW v \in Viewers, NEW call \in CallType,
         viewing' = [viewing EXCEPT ![v] = call],
         UNCHANGED <<listed, unlisted, kept, progress>>,
         call.at \in {"find file", "insert", "read back", "update", "reread"} =>
           call.entry \in Entries,
         call.at = "insert" => Allowed(call.entry[1], call.entry[2]),
         call.at = "drop" => call.entry \in Lists,
         call.at = "update" =>
           /\ ValidTransition(call.from, call.to)
           /\ \/ call.raced
              \/ call.entry \in DOMAIN progress /\ progress[call.entry] = call.from
  PROVE  ListsIInv'
<1>1. viewing' \in [Viewers -> CallType]
  BY DEF ListsIInv, ListsTypeOK, CallType
<1>2. viewing'[v] = call /\ \A u \in Viewers : u # v => viewing'[u] = viewing[u]
  BY DEF ListsIInv, ListsTypeOK
<1>3. ListsTypeOK'
  BY <1>1 DEF ListsIInv, ListsTypeOK, CallType
<1>4. ProgressRowsLive'
  BY DEF ListsIInv, ProgressRowsLive, Allowed
<1>5. CallsKnowTheirEntry'
  BY <1>2 DEF ListsIInv, CallsKnowTheirEntry, Allowed
<1>6. UpdateStillHolds'
  BY <1>2 DEF ListsIInv, UpdateStillHolds, ValidTransition
<1> QED  BY <1>3, <1>4, <1>5, <1>6 DEF ListsIInv

\* A row that is an entry of a list and a file.
LEMMA EntryParts ==
  ASSUME NEW e \in Entries  PROVE e[1] \in Lists /\ e[2] \in ListFiles /\ e = <<e[1], e[2]>>
BY DEF Entries

\* The statements that read, and those that answer, touch no row.
LEMMA ReadingStepsKept ==
  ASSUME ListsIInv, NEW v \in Viewers,
         \/ \E l \in Lists : DeleteListBegin(v, l) \/ \E f \in ListFiles : AddFindsList(v, l, f)
         \/ AddFindsFile(v) \/ ReadBack(v) \/ ViewerLeaves(v)
         \/ \E e \in Entries, to \in States : UpdateChecks(v, e, to)
  PROVE  ListsIInv'
<1>0. /\ viewing[v] \in CallType /\ NotCalling \in CallType
      /\ DOMAIN progress \subseteq Entries /\ \A e \in DOMAIN progress : progress[e] \in States
  BY DEF ListsIInv, ListsTypeOK, CallType, NotCalling, Steps, States
<1>1. ASSUME NEW l \in Lists, DeleteListBegin(v, l)  PROVE ListsIInv'
  <2> DEFINE call == [NotCalling EXCEPT !.at = "drop", !.entry = l]
  <2>1. call \in CallType /\ call.at = "drop" /\ call.entry = l
    BY DEF NotCalling, CallType, Steps, States
  <2>2. viewing' = [viewing EXCEPT ![v] = call] /\ UNCHANGED <<listed, unlisted, kept, progress>>
    BY <1>1 DEF DeleteListBegin
  <2> HIDE DEF call
  <2> QED  BY <2>1, <2>2, OwnStepKept
<1>2. ASSUME NEW l \in Lists, NEW f \in ListFiles, AddFindsList(v, l, f)  PROVE ListsIInv'
  <2> DEFINE call == [NotCalling EXCEPT !.at = "find file", !.entry = <<l, f>>]
  <2>1. call \in CallType /\ call.at = "find file" /\ call.entry = <<l, f>> /\ <<l, f>> \in Entries
    BY DEF NotCalling, CallType, Steps, States, Entries
  <2>2. viewing' = [viewing EXCEPT ![v] = call] /\ UNCHANGED <<listed, unlisted, kept, progress>>
    BY <1>2 DEF AddFindsList
  <2> HIDE DEF call
  <2> QED  BY <2>1, <2>2, OwnStepKept
<1>3. CASE ViewerLeaves(v)
  BY <1>3, <1>0, OwnStepKept DEF ViewerLeaves, NotCalling
<1>4. ASSUME NEW answer \in {"ok", "refused"}, Answer(v, answer),
             UNCHANGED <<listed, unlisted, kept, progress>>
      PROVE  ListsIInv'
  <2> DEFINE call == [viewing[v] EXCEPT !.at = "answered", !.answer = answer]
  <2>1. call \in CallType /\ call.at = "answered"
    BY <1>0 DEF CallType, Steps
  <2>2. viewing' = [viewing EXCEPT ![v] = call]
    BY <1>4 DEF Answer, ListsIInv, ListsTypeOK
  <2> HIDE DEF call
  <2> QED  BY <2>1, <2>2, <1>4, OwnStepKept
<1>5. CASE ReadBack(v)
  BY <1>5, <1>4 DEF ReadBack
<1>6. CASE AddFindsFile(v)
  <2> DEFINE call == [viewing[v] EXCEPT !.at = "insert"]
  <2>1. UNCHANGED <<listed, unlisted, kept, progress>> /\ viewing[v].entry \in Entries
    BY <1>6 DEF AddFindsFile, ListsIInv, CallsKnowTheirEntry
  <2>2. CASE Allowed(viewing[v].entry[1], viewing[v].entry[2]) /\ Step(v, "insert")
    <3>1. call \in CallType /\ call.at = "insert" /\ call.entry = viewing[v].entry
      BY <1>0 DEF CallType, Steps
    <3>2. viewing' = [viewing EXCEPT ![v] = call]
      BY <2>2 DEF Step, ListsIInv, ListsTypeOK
    <3> HIDE DEF call
    <3> QED  BY <3>1, <3>2, <2>1, <2>2, OwnStepKept
  <2>3. CASE Answer(v, "refused")
    BY <2>3, <2>1, <1>4
  <2> QED  BY <1>6, <2>2, <2>3 DEF AddFindsFile
<1>7. ASSUME NEW e \in Entries, NEW to \in States, UpdateChecks(v, e, to)  PROVE ListsIInv'
  <2> DEFINE call == [NotCalling EXCEPT !.at = "update", !.entry = e, !.from = progress[e], !.to = to]
  <2>1. e \in DOMAIN progress /\ progress[e] \in States /\ ValidTransition(progress[e], to)
    BY <1>7, <1>0 DEF UpdateChecks
  <2>2. /\ call \in CallType /\ call.at = "update" /\ call.entry = e
        /\ call.from = progress[e] /\ call.to = to
    BY <2>1 DEF NotCalling, CallType, Steps
  <2>3. viewing' = [viewing EXCEPT ![v] = call] /\ UNCHANGED <<listed, unlisted, kept, progress>>
    BY <1>7 DEF UpdateChecks
  <2> HIDE DEF call
  <2> QED  BY <2>1, <2>2, <2>3, OwnStepKept
<1> QED  BY <1>1, <1>2, <1>3, <1>5, <1>6, <1>7

\* Rows may go when no list and no file of those that stay went, and when the
\* updates that had found them are marked.
LEMMA RemovalKept ==
  ASSUME ListsIInv, NEW rows, progress' = Without(rows),
         viewing' \in [Viewers -> CallType],
         \A u \in Viewers :
           \/ viewing'[u].at = "idle"
           \/ /\ viewing'[u].at = viewing[u].at /\ viewing'[u].entry = viewing[u].entry
              /\ viewing'[u].from = viewing[u].from /\ viewing'[u].to = viewing[u].to
              /\ viewing[u].raced => viewing'[u].raced
              /\ viewing[u].at = "update" /\ viewing[u].entry \in rows => viewing'[u].raced,
         listed' \subseteq Lists, unlisted' \subseteq Lists, kept' \subseteq ListFiles,
         listed' \cap unlisted' = {},
         \A e \in DOMAIN progress \ rows : e[1] \in listed' /\ e[2] \in kept'
  PROVE  ListsIInv'
<1>1. /\ DOMAIN progress' = DOMAIN progress \ rows
      /\ \A e \in DOMAIN progress' : progress'[e] = progress[e]
  BY DEF Without
<1>2. ListsTypeOK'
  BY <1>1 DEF ListsIInv, ListsTypeOK, CallType
<1>3. ProgressRowsLive'
  BY <1>1 DEF ListsIInv, ProgressRowsLive, Allowed
<1>4. CallsKnowTheirEntry'
  <2> SUFFICES ASSUME NEW u \in Viewers
               PROVE  /\ viewing'[u].at \in {"find file", "insert", "read back", "update", "reread"} =>
                           viewing'[u].entry \in Entries
                      /\ viewing'[u].at = "insert" =>
                           Allowed(viewing'[u].entry[1], viewing'[u].entry[2])
                      /\ viewing'[u].at = "drop" => viewing'[u].entry \in Lists
    BY DEF CallsKnowTheirEntry, Allowed
  <2> QED  BY DEF ListsIInv, CallsKnowTheirEntry
<1>5. UpdateStillHolds'
  <2> SUFFICES ASSUME NEW u \in Viewers, viewing'[u].at = "update"
               PROVE  /\ ValidTransition(viewing'[u].from, viewing'[u].to)
                      /\ \/ viewing'[u].raced
                         \/ /\ viewing'[u].entry \in DOMAIN progress'
                            /\ progress'[viewing'[u].entry] = viewing'[u].from
    BY DEF UpdateStillHolds, ValidTransition
  <2> QED  BY <1>1 DEF ListsIInv, UpdateStillHolds
<1> QED  BY <1>2, <1>3, <1>4, <1>5 DEF ListsIInv

\* A row, a list or a file that goes takes its rows along, in one transaction.
LEMMA RemovalsKept ==
  ASSUME ListsIInv,
         \/ \E f \in ListFiles : PurgeListed(f)
         \/ \E v \in Viewers : DeleteList(v) \/ \E e \in Entries : RemoveEntry(v, e)
  PROVE  ListsIInv'
<1>0. viewing \in [Viewers -> CallType] /\ DOMAIN progress \subseteq Entries
  BY DEF ListsIInv, ListsTypeOK, CallType
<1>n. NotCalling \in CallType /\ NotCalling.at = "idle"
  BY DEF NotCalling, CallType, Steps, States
<1>1. ASSUME NEW f \in ListFiles, PurgeListed(f)  PROVE ListsIInv'
  <2> DEFINE rows == {e \in DOMAIN progress : e[2] = f}
  <2>1. /\ progress' = Without(rows) /\ viewing' = Racing("the catalog", rows)
        /\ kept' = kept \ {f} /\ UNCHANGED <<listed, unlisted>>
    BY <1>1 DEF PurgeListed
  <2>2. \A e \in DOMAIN progress \ rows : e[1] \in listed' /\ e[2] \in kept'
    BY <2>1 DEF ListsIInv, ProgressRowsLive
  <2>3. "the catalog" \notin Viewers
    BY ListsAssumption
  <2>4. listed' \subseteq Lists /\ unlisted' \subseteq Lists /\ kept' \subseteq ListFiles
        /\ listed' \cap unlisted' = {}
    BY <2>1 DEF ListsIInv, ListsTypeOK
  <2> HIDE DEF rows
  <2>5. /\ viewing' \in [Viewers -> CallType]
        /\ \A u \in Viewers :
             /\ viewing'[u].at = viewing[u].at /\ viewing'[u].entry = viewing[u].entry
             /\ viewing'[u].from = viewing[u].from /\ viewing'[u].to = viewing[u].to
             /\ viewing[u].raced => viewing'[u].raced
             /\ viewing[u].at = "update" /\ viewing[u].entry \in rows => viewing'[u].raced
    <3>1. \A u \in Viewers : u # "the catalog"
      BY <2>3
    <3> DEFINE purge == "the catalog"
    <3>2. viewing' = Racing(purge, rows) /\ \A u \in Viewers : u # purge
      BY <2>1, <3>1
    <3> HIDE DEF purge
    <3> QED  BY <1>0, <3>2, RacingMarks
  <2> QED  BY <2>1, <2>2, <2>4, <2>5, RemovalKept
<1>2. ASSUME NEW v \in Viewers, NEW e \in Entries, RemoveEntry(v, e)  PROVE ListsIInv'
  <2>1. /\ progress' = Without({e}) /\ viewing' = Racing(v, {e})
        /\ UNCHANGED <<listed, unlisted, kept>> /\ viewing[v].at = "idle"
    BY <1>2 DEF RemoveEntry, Idle
  <2>2. \A x \in DOMAIN progress \ {e} : x[1] \in listed' /\ x[2] \in kept'
    BY <2>1 DEF ListsIInv, ProgressRowsLive
  <2>4. listed' \subseteq Lists /\ unlisted' \subseteq Lists /\ kept' \subseteq ListFiles
        /\ listed' \cap unlisted' = {}
    BY <2>1 DEF ListsIInv, ListsTypeOK
  <2> QED  BY <1>0, <2>1, <2>2, <2>4, RacingMarks, RemovalKept
<1>3. ASSUME NEW v \in Viewers, DeleteList(v)  PROVE ListsIInv'
  <2> DEFINE rows == {e \in DOMAIN progress : e[1] = viewing[v].entry}
  <2>1. /\ progress' = Without(rows)
        /\ viewing' = [Racing(v, rows) EXCEPT ![v] = NotCalling]
        /\ listed' = listed \ {viewing[v].entry}
        /\ unlisted' = unlisted \cup {viewing[v].entry} /\ kept' = kept
        /\ viewing[v].entry \in Lists
    BY <1>3 DEF DeleteList, ListsIInv, CallsKnowTheirEntry
  <2>2. \A x \in DOMAIN progress \ rows : x[1] \in listed' /\ x[2] \in kept'
    BY <2>1 DEF ListsIInv, ProgressRowsLive
  <2>4. listed' \subseteq Lists /\ unlisted' \subseteq Lists /\ kept' \subseteq ListFiles
        /\ listed' \cap unlisted' = {}
    BY <2>1 DEF ListsIInv, ListsTypeOK
  <2> HIDE DEF rows
  <2>5. /\ Racing(v, rows) \in [Viewers -> CallType]
        /\ viewing' \in [Viewers -> CallType] /\ viewing'[v] = NotCalling
        /\ \A u \in Viewers : u # v => viewing'[u] = Racing(v, rows)[u]
    BY <1>0, <1>n, <2>1, RacingMarks
  <2> QED  BY <1>0, <1>n, <2>1, <2>2, <2>4, <2>5, RacingMarks, RemovalKept
<1> QED  BY <1>1, <1>2, <1>3

\* The statements that write rows and lists.
LEMMA WritesKept ==
  ASSUME ListsIInv,
         \/ \E l \in Lists : CreateList(l)
         \/ \E v \in Viewers : AddInserts(v) \/ UpdateWrites(v)
  PROVE  ListsIInv'
<1>0. viewing \in [Viewers -> CallType] /\ DOMAIN progress \subseteq Entries
  BY DEF ListsIInv, ListsTypeOK, CallType
<1>1. ASSUME NEW l \in Lists, CreateList(l)  PROVE ListsIInv'
  <2>1. ListsTypeOK'  BY <1>1 DEF CreateList, ListsIInv, ListsTypeOK
  <2>2. ProgressRowsLive'  BY <1>1 DEF CreateList, ListsIInv, ProgressRowsLive, Allowed
  <2>3. CallsKnowTheirEntry'
    BY <1>1 DEF CreateList, ListsIInv, CallsKnowTheirEntry, Allowed
  <2>4. UpdateStillHolds'
    BY <1>1 DEF CreateList, ListsIInv, UpdateStillHolds, ValidTransition
  <2> QED  BY <2>1, <2>2, <2>3, <2>4 DEF ListsIInv
<1>2. ASSUME NEW v \in Viewers, AddInserts(v)  PROVE ListsIInv'
  <2> DEFINE e == viewing[v].entry
             rows == [x \in DOMAIN progress \cup {e} |->
                        IF x \in DOMAIN progress THEN progress[x] ELSE "pending"]
  <2>1. e \in Entries /\ Allowed(e[1], e[2]) /\ UNCHANGED <<listed, unlisted, kept>>
    BY <1>2 DEF AddInserts, ListsIInv, CallsKnowTheirEntry
  <2>2. \A at \in {"read back"} :
          /\ [viewing[v] EXCEPT !.at = at] \in CallType
          /\ [viewing[v] EXCEPT !.at = at].at = at /\ [viewing[v] EXCEPT !.at = at].entry = e
    BY <1>0 DEF CallType, Steps
  <2>3. CASE Answer(v, "refused") /\ UNCHANGED progress
    <3>1. PICK call \in CallType :
            viewing' = [viewing EXCEPT ![v] = call] /\ call.at = "answered"
      <4> DEFINE call == [viewing[v] EXCEPT !.at = "answered", !.answer = "refused"]
      <4>1. call \in CallType /\ call.at = "answered"
        BY <1>0 DEF CallType, Steps
      <4>2. viewing' = [viewing EXCEPT ![v] = call]
        BY <2>3, <1>0 DEF Answer
      <4> HIDE DEF call
      <4> QED  BY <4>1, <4>2
    <3> QED  BY <3>1, <2>1, <2>3, OwnStepKept
  <2>4. CASE /\ e[1] \in listed /\ e[2] \in kept /\ progress' = rows /\ Step(v, "read back")
    <3> DEFINE call == [viewing[v] EXCEPT !.at = "read back"]
    <3>1. viewing' = [viewing EXCEPT ![v] = call]
      BY <2>4, <1>0 DEF Step
    <3>2. call \in CallType /\ call.at = "read back" /\ call.entry = e
      BY <2>2
    <3>3. /\ DOMAIN progress' = DOMAIN progress \cup {e}
          /\ \A x \in DOMAIN progress : progress'[x] = progress[x]
          /\ e \notin DOMAIN progress => progress'[e] = "pending"
      BY <2>4
    <3> HIDE DEF call, rows
    <3>4. viewing' \in [Viewers -> CallType] /\ viewing'[v] = call
          /\ \A u \in Viewers : u # v => viewing'[u] = viewing[u]
      BY <3>1, <3>2, <1>0
    <3>5. ListsTypeOK'
      BY <2>1, <3>3, <3>4 DEF ListsIInv, ListsTypeOK, CallType, States
    <3>6. ProgressRowsLive'
      BY <2>1, <2>4, <3>3 DEF ListsIInv, ProgressRowsLive, Allowed
    <3> HIDE DEF e
    <3>7. CallsKnowTheirEntry'
      BY <2>1, <3>2, <3>4 DEF ListsIInv, CallsKnowTheirEntry, Allowed
    <3>8. UpdateStillHolds'
      <4> SUFFICES ASSUME NEW u \in Viewers, viewing'[u].at = "update"
                   PROVE  /\ ValidTransition(viewing'[u].from, viewing'[u].to)
                          /\ \/ viewing'[u].raced
                             \/ /\ viewing'[u].entry \in DOMAIN progress'
                                /\ progress'[viewing'[u].entry] = viewing'[u].from
        BY DEF UpdateStillHolds, ValidTransition
      <4>1. u # v /\ viewing'[u] = viewing[u]
        BY <3>2, <3>4
      <4> QED  BY <4>1, <3>3 DEF ListsIInv, UpdateStillHolds
    <3> QED  BY <3>5, <3>6, <3>7, <3>8 DEF ListsIInv
  <2> QED  BY <1>2, <2>3, <2>4 DEF AddInserts
<1>3. ASSUME NEW v \in Viewers, UpdateWrites(v)  PROVE ListsIInv'
  <2> DEFINE e == viewing[v].entry
             reading == ListKind[e[1]] = "reading"
             raced == Racing(v, {e})
             call == [raced[v] EXCEPT !.at = IF reading THEN "reread" ELSE "answered",
                                      !.answer = IF reading THEN "none" ELSE "ok"]
  <2>1. e \in Entries /\ viewing[v].at = "update"
    BY <1>3 DEF UpdateWrites, ListsIInv, CallsKnowTheirEntry
  <2>2. /\ raced \in [Viewers -> CallType] /\ raced[v] \in CallType
        /\ raced[v].entry = e
    BY <1>0, RacingMarks
  <2>3. /\ progress' = IF e \in DOMAIN progress
                       THEN [progress EXCEPT ![e] = viewing[v].to] ELSE progress
        /\ viewing' = [raced EXCEPT ![v].at = IF reading THEN "reread" ELSE "answered",
                                    ![v].answer = IF reading THEN "none" ELSE "ok"]
        /\ UNCHANGED <<listed, unlisted, kept>>
    BY <1>3 DEF UpdateWrites
  <2>4. viewing[v].to \in States
    BY <1>0 DEF CallType
  <2> HIDE DEF raced
  <2>5. call \in CallType /\ call.at \in {"reread", "answered"} /\ call.entry = e
    BY <2>2 DEF CallType, Steps
  <2>6. viewing' = [raced EXCEPT ![v] = call]
    BY <2>2, <2>3
  <2> HIDE DEF call, reading
  <2>7. /\ viewing' \in [Viewers -> CallType] /\ viewing'[v] = call
        /\ \A u \in Viewers : u # v => viewing'[u] = raced[u]
    BY <2>2, <2>5, <2>6
  <2>8. \A u \in Viewers : u # v =>
          /\ viewing'[u].at = viewing[u].at /\ viewing'[u].entry = viewing[u].entry
          /\ viewing'[u].from = viewing[u].from /\ viewing'[u].to = viewing[u].to
          /\ viewing[u].raced => viewing'[u].raced
          /\ viewing[u].at = "update" /\ viewing[u].entry = e => viewing'[u].raced
    BY <2>7, <1>0, RacingMarks DEF raced
  <2> HIDE DEF e
  <2>9. /\ DOMAIN progress' = DOMAIN progress
        /\ \A x \in DOMAIN progress : x # e => progress'[x] = progress[x]
        /\ e \in DOMAIN progress => progress'[e] \in States
    BY <2>3, <2>4
  <2>10. ListsTypeOK'
    BY <2>3, <2>7, <2>9 DEF ListsIInv, ListsTypeOK, CallType
  <2>11. ProgressRowsLive'
    BY <2>3, <2>9 DEF ListsIInv, ProgressRowsLive, Allowed
  <2>12. CallsKnowTheirEntry'
    <3> SUFFICES ASSUME NEW u \in Viewers
                 PROVE  /\ viewing'[u].at \in {"find file", "insert", "read back", "update", "reread"} =>
                             viewing'[u].entry \in Entries
                        /\ viewing'[u].at = "insert" =>
                             Allowed(viewing'[u].entry[1], viewing'[u].entry[2])
                        /\ viewing'[u].at = "drop" => viewing'[u].entry \in Lists
      BY DEF CallsKnowTheirEntry, Allowed
    <3>1. CASE u = v  BY <3>1, <2>1, <2>5, <2>7
    <3>2. CASE u # v  BY <3>2, <2>8 DEF ListsIInv, CallsKnowTheirEntry
    <3> QED  BY <3>1, <3>2
  <2>13. UpdateStillHolds'
    BY <2>5, <2>7, <2>8, <2>9 DEF ListsIInv, UpdateStillHolds, ValidTransition
  <2> QED  BY <2>10, <2>11, <2>12, <2>13 DEF ListsIInv
<1> QED  BY <1>1, <1>2, <1>3

\* Every step of every caller keeps the invariant of the lists.
LEMMA ListsStepKept ==
  ASSUME ListsIInv, [ListsNext]_listVars  PROVE ListsIInv'
<1>1. CASE UNCHANGED listVars
  <2>1. ListsTypeOK'  BY <1>1 DEF listVars, ListsIInv, ListsTypeOK
  <2>2. ProgressRowsLive'  BY <1>1 DEF listVars, ListsIInv, ProgressRowsLive, Allowed
  <2>3. CallsKnowTheirEntry'  BY <1>1 DEF listVars, ListsIInv, CallsKnowTheirEntry, Allowed
  <2>4. UpdateStillHolds'
    BY <1>1 DEF listVars, ListsIInv, UpdateStillHolds, ValidTransition
  <2> QED  BY <2>1, <2>2, <2>3, <2>4 DEF ListsIInv
<1>2. CASE \/ \E l \in Lists : CreateList(l)
           \/ \E v \in Viewers : AddInserts(v) \/ UpdateWrites(v)
  BY <1>2, WritesKept
<1>3. CASE \/ \E f \in ListFiles : PurgeListed(f)
           \/ \E v \in Viewers : DeleteList(v) \/ \E e \in Entries : RemoveEntry(v, e)
  BY <1>3, RemovalsKept
<1>4. ASSUME NEW v \in Viewers,
             \/ \E l \in Lists : DeleteListBegin(v, l) \/ \E f \in ListFiles : AddFindsList(v, l, f)
             \/ AddFindsFile(v) \/ ReadBack(v) \/ ViewerLeaves(v)
             \/ \E e \in Entries, to \in States : UpdateChecks(v, e, to)
      PROVE  ListsIInv'
  BY <1>4, ReadingStepsKept
<1> QED  BY <1>1, <1>2, <1>3, <1>4 DEF ListsNext

\* The invariant of the lists, from the first state on.
LEMMA ListsInvariance == ListsSpec => []ListsIInv
<1>1. ListsInit => ListsIInv
  BY ListsInitHolds
<1>2. ListsIInv /\ [ListsNext]_listVars => ListsIInv'
  BY ListsStepKept
<1> QED  BY <1>1, <1>2, PTL DEF ListsSpec

\* Any number of viewers, lists and files: the variables of the lists keep
\* their types, and a deleted list does not come back (ListsTypeOK).
THEOREM ListsTypeCorrect == ListsSpec => []ListsTypeOK
<1>1. ListsIInv => ListsTypeOK  BY DEF ListsIInv
<1> QED  BY <1>1, ListsInvariance, PTL

\* No progress row outlives its list or its file, or is of a file its list may
\* not hold, whatever calls run at once (watchlists/repos.rs and
\* reading_lists/repos.rs: the subselects of the insert, and the deletes that
\* take the rows along in one transaction).
THEOREM OrphansTheorem == ListsSpec => []ProgressRowsLive
<1>1. ListsIInv => ProgressRowsLive  BY DEF ListsIInv
<1> QED  BY <1>1, ListsInvariance, PTL

\* A row's state changes by a valid transition alone, unless the update that
\* changes it was raced after its lookup (update_progress.rs).
THEOREM ForwardTheorem == ListsSpec => ForwardUnlessRaced
<1> DEFINE Forward ==
      \A e \in DOMAIN progress \cap DOMAIN progress' :
        progress'[e] # progress[e] =>
          \/ ValidTransition(progress[e], progress'[e])
          \/ \E v \in Viewers : /\ viewing[v].at = "update" /\ viewing[v].entry = e
                                /\ viewing[v].raced
<1>1. ListsIInv /\ [ListsNext]_listVars => [Forward]_listVars
  <2> SUFFICES ASSUME ListsIInv, ListsNext,
                      NEW e \in DOMAIN progress \cap DOMAIN progress',
                      progress'[e] # progress[e]
               PROVE  \/ ValidTransition(progress[e], progress'[e])
                      \/ \E v \in Viewers : /\ viewing[v].at = "update" /\ viewing[v].entry = e
                                            /\ viewing[v].raced
    OBVIOUS
  <2>1. ASSUME NEW v \in Viewers, UpdateWrites(v)
        PROVE  \/ ValidTransition(progress[e], progress'[e])
               \/ /\ viewing[v].at = "update" /\ viewing[v].entry = e
                  /\ viewing[v].raced
    <3>1. /\ viewing[v].at = "update"
          /\ viewing[v].entry = e /\ progress'[e] = viewing[v].to
      BY <2>1 DEF UpdateWrites
    <3> QED  BY <3>1 DEF ListsIInv, UpdateStillHolds
  <2>2. ASSUME NEW v \in Viewers, AddInserts(v)  PROVE FALSE
    BY <2>2 DEF AddInserts
  <2>3. ASSUME NEW rows, progress' = Without(rows)  PROVE FALSE
    BY <2>3 DEF Without
  <2>4. ASSUME NEW v \in Viewers, NEW x \in Entries, RemoveEntry(v, x)  PROVE FALSE
    BY <2>3, <2>4 DEF RemoveEntry
  <2>5. ASSUME NEW f \in ListFiles, PurgeListed(f)  PROVE FALSE
    BY <2>3, <2>5 DEF PurgeListed
  <2>6. ASSUME NEW v \in Viewers, DeleteList(v)  PROVE FALSE
    BY <2>3, <2>6 DEF DeleteList
  <2>7. progress' # progress  OBVIOUS
  <2> QED  BY <2>1, <2>2, <2>4, <2>5, <2>6, <2>7
           DEF ListsNext, CreateList, DeleteListBegin, AddFindsList, AddFindsFile, ReadBack,
               UpdateChecks, ViewerLeaves
<1> QED  BY <1>1, ListsInvariance, PTL DEF ListsSpec, ForwardUnlessRaced

(***************************************************************************)
(* Collections and bookmarks.                                              *)
(***************************************************************************)

BusyType ==
  [verb : {"free", "add", "link", "remove", "drop", "insert", "update", "delete",
           "restore", "purge"},
   coll : Colls \cup {NoColl}, item : Items \cup {NoItem},
   todo : SUBSET Items, crossed : BOOLEAN, day : 0..MaxDay]

ItemType ==
  [state : {"absent", "active", "deleted", "purged"}, link : Colls \cup {NoColl},
   deletedAt : {Never} \cup 0..MaxDay]

\* What a call between two statements still knows.  The kind of a collection
\* never changes once it was created, so a check of it stays true; that the
\* collection still exists does not, and no call relies on it.
Sound(call) ==
  /\ call.verb = "add" => call.coll \in Colls
  /\ call.verb = "link" => /\ call.item \in Items /\ call.coll \in Colls
                           /\ coll[call.coll] = KindOf(call.item)
  /\ call.verb = "remove" => call.item \in Items
  /\ call.verb \in {"insert", "update", "delete", "restore", "purge"} =>
       call.item \in Marks
  /\ call.verb \in {"insert", "update"} /\ call.coll # NoColl =>
       call.coll \in Colls /\ coll[call.coll] = "bookmark"

CallsAreSound == \A u \in Users : Sound(busy[u])

\* A uuid is inserted once: until then nothing but its insert knows of it.
InsertsAlone ==
  \A u \in Users : busy[u].verb = "insert" =>
    /\ item[busy[u].item].state = "absent"
    /\ \A v \in Users : busy[v].verb = "insert" /\ busy[v].item = busy[u].item => v = u

\* A purge nobody crossed still finds what it was judged by, or a bookmark
\* another purge took.
PurgesStillHold ==
  \A u \in Users : busy[u].verb = "purge" =>
    /\ item[busy[u].item].state # "absent"
    /\ \/ busy[u].crossed
       \/ item[busy[u].item].state = "purged"
       \/ item[busy[u].item].state = "deleted" /\ PastRetention(busy[u].item)

LiveWereCreated == \A c \in live : coll[c] # "absent"

CollIInv == CollTypeOK /\ LinksResolve /\ LiveWereCreated /\ CallsAreSound
                       /\ InsertsAlone /\ PurgesStillHold

\* A user with no call under way, and the record each call starts from.
LEMMA FreeTyped ==
  Free \in BusyType /\ Free.verb = "free" /\ Free.day = 0 /\ 0 \in 0..MaxDay
<1>1. 0 \in 0..MaxDay
  BY CollectionsAssumption
<1> QED  BY <1>1 DEF Free, BusyType

\* The invariant holds at the start.
LEMMA CollInitHolds == CollInit => CollIInv
<1> SUFFICES ASSUME CollInit  PROVE CollIInv
  OBVIOUS
<1>1. Free \in BusyType /\ Free.verb = "free"
  BY FreeTyped DEF BusyType
<1>2. busy \in [Users -> BusyType] /\ \A u \in Users : busy[u].verb = "free"
  BY <1>1 DEF CollInit
<1>3. /\ item \in [Items -> ItemType]
      /\ \A i \in Items : item[i].link = NoColl /\ item[i].deletedAt = Never
      /\ \A b \in Marks : item[b].state = "absent"
  BY CollectionsAssumption DEF CollInit, ItemType, Items
<1>4. CollTypeOK
  BY <1>2, <1>3, CollectionsAssumption DEF CollInit, CollTypeOK, BusyType, ItemType, Items
<1>5. LinksResolve /\ LiveWereCreated
  BY <1>3 DEF CollInit, LinksResolve, LiveWereCreated
<1>6. CallsAreSound /\ InsertsAlone /\ PurgesStillHold
  BY <1>2 DEF CallsAreSound, Sound, InsertsAlone, PurgesStillHold
<1> QED  BY <1>4, <1>5, <1>6 DEF CollIInv

\* A call may go on to any call that is sound, that does not insert what
\* others know of, and that does not begin a purge too early.
LEMMA OwnCallKept ==
  ASSUME CollIInv, NEW u \in Users, NEW call \in BusyType,
         busy' = [busy EXCEPT ![u] = call], UNCHANGED <<coll, live, item, today>>,
         Sound(call),
         call.verb = "insert" =>
           /\ item[call.item].state = "absent"
           /\ \A v \in Users : busy[v].item # call.item,
         call.verb = "purge" => item[call.item].state = "deleted" /\ PastRetention(call.item)
  PROVE  CollIInv'
<1>1. /\ busy' \in [Users -> BusyType] /\ busy'[u] = call
      /\ \A v \in Users : v # u => busy'[v] = busy[v]
  BY DEF CollIInv, CollTypeOK, BusyType
<1>2. CollTypeOK'
  BY <1>1 DEF CollIInv, CollTypeOK, BusyType, Items
<1>3. LinksResolve' /\ LiveWereCreated'
  BY DEF CollIInv, LinksResolve, LiveWereCreated, KindOf, Items
<1>4. CallsAreSound'
  BY <1>1 DEF CollIInv, CallsAreSound, Sound, KindOf
<1>5. InsertsAlone'
  BY <1>1 DEF CollIInv, InsertsAlone
<1>6. PurgesStillHold'
  BY <1>1 DEF CollIInv, PurgesStillHold, PastRetention
<1> QED  BY <1>2, <1>3, <1>4, <1>5, <1>6 DEF CollIInv

\* What a call enters with; Never is no number of days.
LEMMA EnteredCall ==
  ASSUME NEW u \in Users, NEW verb \in {"remove", "drop", "insert", "update", "delete",
                                        "restore", "purge"},
         NEW c \in Colls \cup {NoColl}, NEW i \in Items \cup {NoItem}, Enter(u, verb, c, i)
  PROVE  \E call \in BusyType :
           /\ busy' = [busy EXCEPT ![u] = call]
           /\ call.verb = verb /\ call.coll = c /\ call.item = i
<1> DEFINE call == [Free EXCEPT !.verb = verb, !.coll = c, !.item = i]
<1>1. call \in BusyType /\ call.verb = verb /\ call.coll = c /\ call.item = i
  BY FreeTyped DEF BusyType
<1>2. busy' = [busy EXCEPT ![u] = call]
  BY DEF Enter
<1> HIDE DEF call
<1> QED  BY <1>1, <1>2

\* A step that ends a call and writes nothing.
LEMMA ExitKept ==
  ASSUME CollIInv, NEW u \in Users, Exit(u), UNCHANGED <<coll, live, item, today>>
  PROVE  CollIInv'
<1>1. Free \in BusyType /\ Free.verb = "free" /\ Sound(Free)
  BY FreeTyped DEF BusyType, Sound
<1> QED  BY <1>1, OwnCallKept DEF Exit

\* Every statement that begins a call, and the lookup of an item to add.
LEMMA CollReadsKept ==
  ASSUME CollIInv, NEW u \in Users,
         Begin(u) \/ CallFails(u) \/ \E i \in Items : AddLooksUp(u, i)
  PROVE  CollIInv'
<1>0. Marks \subseteq Items /\ busy[u] \in BusyType /\ live \subseteq Colls
  BY DEF Items, CollIInv, CollTypeOK, BusyType
<1>m. \A b \in Marks : KindOf(b) = "bookmark"
  BY CollectionsAssumption DEF KindOf
<1>1. ASSUME NEW c \in Colls, DeleteBegin(u, c)  PROVE CollIInv'
  <2>1. PICK call \in BusyType : /\ busy' = [busy EXCEPT ![u] = call]
                                 /\ call.verb = "drop"
    BY <1>1, EnteredCall DEF DeleteBegin
  <2> QED  BY <1>1, <2>1, OwnCallKept DEF DeleteBegin, Sound
<1>2. ASSUME NEW c \in Colls, NEW items \in SUBSET Items, AddBegin(u, c, items)  PROVE CollIInv'
  <2> DEFINE call == [Free EXCEPT !.verb = "add", !.coll = c, !.todo = items]
  <2>1. call \in BusyType /\ call.verb = "add" /\ call.coll = c
    BY FreeTyped DEF BusyType
  <2>2. busy' = [busy EXCEPT ![u] = call] /\ UNCHANGED <<coll, live, item, today>>
    BY <1>2 DEF AddBegin
  <2> HIDE DEF call
  <2> QED  BY <2>1, <2>2, OwnCallKept DEF Sound
<1>3. ASSUME NEW c \in Colls, NEW i \in Items, RemoveBegin(u, c, i)  PROVE CollIInv'
  <2>1. PICK call \in BusyType : /\ busy' = [busy EXCEPT ![u] = call]
                                 /\ call.verb = "remove" /\ call.item = i
    BY <1>3, EnteredCall DEF RemoveBegin
  <2> QED  BY <1>3, <2>1, OwnCallKept DEF RemoveBegin, Sound
<1>4. ASSUME NEW b \in Marks, NEW c \in Colls \cup {NoColl}, CreateMarkBegin(u, b, c)
      PROVE  CollIInv'
  <2>1. PICK call \in BusyType : /\ busy' = [busy EXCEPT ![u] = call]
                                 /\ call.verb = "insert" /\ call.coll = c /\ call.item = b
    BY <1>0, <1>4, EnteredCall DEF CreateMarkBegin
  <2>2. Sound(call)
    BY <1>4, <2>1, <1>0 DEF CreateMarkBegin, Accepts, Sound
  <2> QED  BY <1>4, <2>1, <2>2, OwnCallKept DEF CreateMarkBegin
<1>5. ASSUME NEW b \in Marks, NEW c \in Colls \cup {NoColl}, UpdateBegin(u, b, c)
      PROVE  CollIInv'
  <2>1. PICK call \in BusyType : /\ busy' = [busy EXCEPT ![u] = call]
                                 /\ call.verb = "update" /\ call.coll = c /\ call.item = b
    BY <1>0, <1>5, EnteredCall DEF UpdateBegin
  <2>2. Sound(call)
    BY <1>5, <2>1, <1>0 DEF UpdateBegin, Accepts, Sound
  <2> QED  BY <1>5, <2>1, <2>2, OwnCallKept DEF UpdateBegin
<1>6. ASSUME NEW b \in Marks, RestoreBegin(u, b)  PROVE CollIInv'
  <2>1. PICK call \in BusyType : /\ busy' = [busy EXCEPT ![u] = call]
                                 /\ call.verb = "restore" /\ call.item = b
    BY <1>0, <1>6, EnteredCall DEF RestoreBegin
  <2> QED  BY <1>6, <2>1, OwnCallKept DEF RestoreBegin, Sound
<1>6d. ASSUME NEW b \in Marks, SoftDeleteBegin(u, b)  PROVE CollIInv'
  <2> DEFINE call == [Free EXCEPT !.verb = "delete", !.item = b, !.day = today]
  <2>1. call \in BusyType /\ call.verb = "delete" /\ call.item = b
    BY <1>0, FreeTyped DEF BusyType, CollIInv, CollTypeOK
  <2>2. busy' = [busy EXCEPT ![u] = call] /\ UNCHANGED <<coll, live, item, today>>
    BY <1>6d DEF SoftDeleteBegin
  <2> HIDE DEF call
  <2> QED  BY <1>0, <2>1, <2>2, OwnCallKept DEF Sound
<1>7. ASSUME NEW b \in Marks, PurgeBegin(u, b)  PROVE CollIInv'
  <2>1. PICK call \in BusyType : /\ busy' = [busy EXCEPT ![u] = call]
                                 /\ call.verb = "purge" /\ call.item = b
    BY <1>0, <1>7, EnteredCall DEF PurgeBegin
  <2> QED  BY <1>7, <2>1, OwnCallKept DEF PurgeBegin, Sound
<1>8. CASE CallFails(u)
  BY <1>8, ExitKept DEF CallFails
<1>9. ASSUME NEW i \in Items, AddLooksUp(u, i)  PROVE CollIInv'
  <2> DEFINE rest == busy[u].todo \ {i}
             found == [busy[u] EXCEPT !.verb = "link", !.item = i, !.todo = rest]
             passed == [busy[u] EXCEPT !.todo = rest]
  <2>1. /\ busy[u].verb = "add" /\ UNCHANGED <<coll, live, item, today>>
        /\ busy[u].coll \in Colls
    BY <1>9 DEF AddLooksUp, CollIInv, CallsAreSound, Sound
  <2>2. /\ found \in BusyType /\ found.verb = "link" /\ found.item = i
        /\ found.coll = busy[u].coll
        /\ passed \in BusyType /\ passed.verb = "add" /\ passed.coll = busy[u].coll
    BY <1>0, <2>1 DEF BusyType
  <2>3. \/ coll[busy[u].coll] = KindOf(i) /\ busy' = [busy EXCEPT ![u] = found]
        \/ Exit(u)
        \/ busy' = [busy EXCEPT ![u] = passed]
    BY <1>9 DEF AddLooksUp, Exit
  <2> HIDE DEF found, passed
  <2>4. CASE Exit(u)  BY <2>1, <2>4, ExitKept
  <2>5. CASE busy' = [busy EXCEPT ![u] = passed]
    BY <2>1, <2>2, <2>5, OwnCallKept DEF Sound
  <2>6. CASE coll[busy[u].coll] = KindOf(i) /\ busy' = [busy EXCEPT ![u] = found]
    BY <2>1, <2>2, <2>6, OwnCallKept DEF Sound
  <2> QED  BY <2>3, <2>4, <2>5, <2>6
<1> QED  BY <1>1, <1>2, <1>3, <1>4, <1>5, <1>6, <1>6d, <1>7, <1>8, <1>9 DEF Begin

\* What an item may be written as: its link resolves, and as a bookmark its
\* state and its deletion date go together.
Fits(i, rec) ==
  /\ rec \in ItemType /\ rec.state # "absent"
  /\ rec.link # NoColl => rec.link \in live /\ coll[rec.link] = KindOf(i)
  /\ i \in Marks => (rec.state = "deleted") = (rec.deletedAt # Never)

\* What the calls become when `i` is written as `rec`: they end, or go on to
\* the next item, or stay as they are; then none is about to insert it, and
\* the purges of it are marked or lose nothing.
Undisturbed(i, rec) ==
  \A v \in Users :
    \/ busy'[v].verb = "free"
    \/ busy'[v].verb = "add" /\ busy'[v].coll \in Colls
    \/ /\ busy'[v].verb = busy[v].verb /\ busy'[v].coll = busy[v].coll
       /\ busy'[v].item = busy[v].item
       /\ busy[v].crossed => busy'[v].crossed
       /\ busy[v].verb = "insert" => busy[v].item # i
       /\ busy[v].verb = "purge" /\ busy[v].item = i =>
            \/ busy'[v].crossed
            \/ rec.state = "purged"
            \/ rec.state = item[i].state /\ rec.deletedAt = item[i].deletedAt

\* One item may change so, whatever else is going on.
LEMMA ItemWriteKept ==
  ASSUME CollIInv, NEW i \in Items, NEW rec, item' = [item EXCEPT ![i] = rec],
         UNCHANGED <<coll, live, today>>, busy' \in [Users -> BusyType],
         Fits(i, rec), Undisturbed(i, rec)
  PROVE  CollIInv'
<1> USE DEF Fits, Undisturbed
<1>0. /\ item \in [Items -> ItemType] /\ Marks \subseteq Items
      /\ item' \in [Items -> ItemType] /\ item'[i] = rec
      /\ \A j \in Items : j # i => item'[j] = item[j]
  BY DEF CollIInv, CollTypeOK, ItemType, Items
<1>2. CollTypeOK'
  BY <1>0 DEF CollIInv, CollTypeOK, BusyType, ItemType, Items
<1>3. LinksResolve'
  BY <1>0 DEF CollIInv, LinksResolve, KindOf
<1>4. LiveWereCreated'
  BY DEF CollIInv, LiveWereCreated
<1>5. CallsAreSound'
  BY DEF CollIInv, CallsAreSound, Sound, KindOf
<1>6. InsertsAlone'
  <2> SUFFICES ASSUME NEW u \in Users, busy'[u].verb = "insert"
               PROVE  /\ item'[busy'[u].item].state = "absent"
                      /\ \A v \in Users : busy'[v].verb = "insert" /\ busy'[v].item = busy'[u].item
                           => v = u
    BY DEF InsertsAlone
  <2>1. busy[u].verb = "insert" /\ busy'[u].item = busy[u].item /\ busy[u].item # i
    OBVIOUS
  <2>2. busy[u].item \in Items
    BY <2>1, <1>0 DEF CollIInv, CallsAreSound, Sound
  <2>3. \A v \in Users : busy'[v].verb = "insert" =>
          busy[v].verb = "insert" /\ busy'[v].item = busy[v].item
    OBVIOUS
  <2> QED  BY <2>1, <2>2, <2>3, <1>0 DEF CollIInv, InsertsAlone
<1>7. PurgesStillHold'
  <2> SUFFICES ASSUME NEW u \in Users, busy'[u].verb = "purge"
               PROVE  /\ item'[busy'[u].item].state # "absent"
                      /\ \/ busy'[u].crossed
                         \/ item'[busy'[u].item].state = "purged"
                         \/ /\ item'[busy'[u].item].state = "deleted"
                            /\ today' - item'[busy'[u].item].deletedAt > RetentionDays
    BY DEF PurgesStillHold, PastRetention
  <2>1. busy[u].verb = "purge" /\ busy'[u].item = busy[u].item
    OBVIOUS
  <2>2. busy[u].item \in Items
    BY <2>1, <1>0 DEF CollIInv, CallsAreSound, Sound
  <2> QED  BY <2>1, <2>2, <1>0 DEF CollIInv, PurgesStillHold, PastRetention
<1> QED  BY <1>2, <1>3, <1>4, <1>5, <1>6, <1>7 DEF CollIInv

\* A call that writes an item and ends, leaving its lifecycle alone.
LEMMA LinkWriteKept ==
  ASSUME CollIInv, NEW u \in Users, NEW i \in Items, NEW link \in Colls \cup {NoColl},
         Stored(i), item' = [item EXCEPT ![i].link = link], Exit(u),
         UNCHANGED <<coll, live, today>>,
         link # NoColl => link \in live /\ coll[link] = KindOf(i)
  PROVE  CollIInv'
<1> DEFINE rec == [item[i] EXCEPT !.link = link]
<1>1. item \in [Items -> ItemType] /\ item[i] \in ItemType /\ busy \in [Users -> BusyType]
  BY DEF CollIInv, CollTypeOK, ItemType, BusyType, Items
<1>2. /\ rec \in ItemType /\ rec.link = link
      /\ rec.state = item[i].state /\ rec.deletedAt = item[i].deletedAt
  BY <1>1 DEF ItemType
<1>3. item' = [item EXCEPT ![i] = rec]
  BY <1>1
<1> HIDE DEF rec
<1>4. Free \in BusyType /\ Free.verb = "free"
  BY FreeTyped DEF BusyType
<1>5. /\ busy' \in [Users -> BusyType] /\ busy'[u] = Free
      /\ \A v \in Users : v # u => busy'[v] = busy[v]
  BY <1>1, <1>4 DEF Exit
<1>6. rec.state # "absent" /\ \A v \in Users : busy[v].verb = "insert" => busy[v].item # i
  BY <1>2 DEF Stored, CollIInv, InsertsAlone
<1>7. i \in Marks => (rec.state = "deleted") = (rec.deletedAt # Never)
  BY <1>2 DEF CollIInv, CollTypeOK
<1>8. Fits(i, rec)
  BY <1>2, <1>6, <1>7 DEF Fits
<1>9. Undisturbed(i, rec)
  BY <1>2, <1>4, <1>5, <1>6 DEF Undisturbed
<1> QED  BY <1>3, <1>5, <1>8, <1>9, ItemWriteKept

\* A lifecycle call of a bookmark ends and marks the purges it crossed.
LEMMA CrossingMarks ==
  ASSUME CollIInv, NEW u \in Users, NEW i \in Items, Crossing(u, i)
  PROVE  /\ busy' \in [Users -> BusyType] /\ busy'[u].verb = "free"
         /\ \A v \in Users : v # u =>
              /\ busy'[v].verb = busy[v].verb /\ busy'[v].coll = busy[v].coll
              /\ busy'[v].item = busy[v].item
              /\ busy[v].crossed => busy'[v].crossed
              /\ busy[v].verb = "purge" /\ busy[v].item = i => busy'[v].crossed
<1>1. busy \in [Users -> BusyType] /\ Free \in BusyType /\ Free.verb = "free"
  BY FreeTyped DEF CollIInv, CollTypeOK, BusyType
<1>2. \A v \in Users : busy[v].crossed \in BOOLEAN
  BY <1>1 DEF BusyType
<1>3. \A v \in Users :
        [busy[v] EXCEPT !.crossed = \/ @
                                    \/ busy[v].verb = "purge" /\ busy[v].item = i] \in BusyType
  <2> TAKE v \in Users
  <2> DEFINE mark == \/ busy[v].crossed
                     \/ busy[v].verb = "purge" /\ busy[v].item = i
  <2>1. busy[v] \in BusyType /\ mark \in BOOLEAN
    BY <1>1
  <2> HIDE DEF mark
  <2>2. [busy[v] EXCEPT !.crossed = mark] \in BusyType
    BY <2>1 DEF BusyType
  <2> QED  BY <2>2 DEF mark
<1>4. busy' \in [Users -> BusyType] /\ busy'[u].verb = "free"
  BY <1>1, <1>3 DEF Crossing
<1>5. ASSUME NEW v \in Users, v # u
      PROVE  /\ busy'[v].verb = busy[v].verb /\ busy'[v].coll = busy[v].coll
             /\ busy'[v].item = busy[v].item
             /\ busy[v].crossed => busy'[v].crossed
             /\ busy[v].verb = "purge" /\ busy[v].item = i => busy'[v].crossed
  <2> DEFINE mark == busy[v].crossed \/ (busy[v].verb = "purge" /\ busy[v].item = i)
  <2>1. busy'[v] = [busy[v] EXCEPT !.crossed = mark]
    BY <1>5 DEF Crossing
  <2>2. mark \in BOOLEAN /\ busy[v] \in BusyType
    BY <1>1, <1>2
  <2>3. /\ busy[v].crossed => mark
        /\ busy[v].verb = "purge" /\ busy[v].item = i => mark
    OBVIOUS
  <2> HIDE DEF mark
  <2>4. /\ busy'[v].verb = busy[v].verb /\ busy'[v].coll = busy[v].coll
        /\ busy'[v].item = busy[v].item /\ busy'[v].crossed = mark
    BY <2>1, <2>2 DEF BusyType
  <2> QED  BY <2>3, <2>4, Zenon
<1> QED  BY <1>4, <1>5

\* The statements that write a link: adding, removing, updating.
LEMMA LinksKept ==
  ASSUME CollIInv, NEW u \in Users, AddLinks(u) \/ RemoveUnlinks(u) \/ UpdateMark(u)
  PROVE  CollIInv'
<1>0. /\ item \in [Items -> ItemType] /\ busy \in [Users -> BusyType]
      /\ busy[u] \in BusyType /\ live \subseteq Colls /\ Marks \subseteq Items
      /\ \A b \in Marks : KindOf(b) = "bookmark"
  BY CollectionsAssumption
     DEF CollIInv, CollTypeOK, ItemType, BusyType, Items, KindOf
<1>r. \A c \in Colls \cup {NoColl} :
        /\ Resolved(c) \in Colls \cup {NoColl}
        /\ Resolved(c) # NoColl => Resolved(c) = c /\ c \in live
  BY <1>0 DEF Resolved
<1>1. CASE RemoveUnlinks(u)
  <2> DEFINE i == busy[u].item
  <2>1. i \in Items /\ Exit(u) /\ UNCHANGED <<coll, live, today>>
    BY <1>1 DEF RemoveUnlinks, CollIInv, CallsAreSound, Sound
  <2>2. \/ Stored(i) /\ item' = [item EXCEPT ![i].link = NoColl]
        \/ item' = item
    BY <1>1 DEF RemoveUnlinks
  <2> HIDE DEF i
  <2> QED  BY <2>1, <2>2, LinkWriteKept, ExitKept
<1>2. CASE UpdateMark(u)
  <2> DEFINE i == busy[u].item
             c == busy[u].coll
  <2>1. /\ i \in Items /\ KindOf(i) = "bookmark" /\ c \in Colls \cup {NoColl}
        /\ c # NoColl => coll[c] = "bookmark"
        /\ Exit(u) /\ UNCHANGED <<coll, live, today>>
    BY <1>0, <1>2 DEF UpdateMark, CollIInv, CallsAreSound, Sound, BusyType
  <2>2. \/ Stored(i) /\ item' = [item EXCEPT ![i].link = Resolved(c)]
        \/ item' = item
    BY <1>2 DEF UpdateMark
  <2> HIDE DEF i, c
  <2> QED  BY <1>r, <2>1, <2>2, LinkWriteKept, ExitKept
<1>3. CASE AddLinks(u)
  <2> DEFINE i == busy[u].item
             c == busy[u].coll
             next == [busy[u] EXCEPT !.verb = "add", !.item = NoItem]
             rec == [item[i] EXCEPT !.link = Resolved(c)]
  <2>1. /\ i \in Items /\ c \in Colls /\ coll[c] = KindOf(i)
        /\ UNCHANGED <<coll, live, today>>
    BY <1>3 DEF AddLinks, CollIInv, CallsAreSound, Sound
  <2>2. /\ next \in BusyType /\ next.verb = "add" /\ next.coll = c
    BY <1>0 DEF BusyType
  <2>3. \/ /\ Stored(i) /\ item' = [item EXCEPT ![i].link = Resolved(c)]
           /\ Exit(u) \/ busy' = [busy EXCEPT ![u] = next]
        \/ Exit(u) /\ UNCHANGED item
    BY <1>3 DEF AddLinks, Exit
  <2>4. rec \in ItemType /\ rec.link = Resolved(c)
        /\ rec.state = item[i].state /\ rec.deletedAt = item[i].deletedAt
    BY <1>0, <1>r, <2>1 DEF ItemType
  <2>5. item[i].state # "absent" =>
          \A v \in Users : busy[v].verb = "insert" => busy[v].item # i
    BY DEF CollIInv, InsertsAlone
  <2>6. i \in Marks => (rec.state = "deleted") = (rec.deletedAt # Never)
    BY <2>4 DEF CollIInv, CollTypeOK
  <2>7. item' = [item EXCEPT ![i].link = Resolved(c)] => item' = [item EXCEPT ![i] = rec]
    BY <1>0, <2>1
  <2> HIDE DEF i, c, next, rec
  <2>8. CASE Exit(u) /\ UNCHANGED item
    BY <2>1, <2>8, ExitKept
  <2>9. CASE Stored(i) /\ item' = [item EXCEPT ![i].link = Resolved(c)] /\ Exit(u)
    BY <1>r, <2>1, <2>9, LinkWriteKept
  <2>10. CASE /\ Stored(i) /\ item' = [item EXCEPT ![i].link = Resolved(c)]
              /\ busy' = [busy EXCEPT ![u] = next]
    <3>1. /\ busy' \in [Users -> BusyType] /\ busy'[u] = next
          /\ \A v \in Users : v # u => busy'[v] = busy[v]
      BY <1>0, <2>2, <2>10
    <3>2. item[i].state # "absent"
      BY <2>10 DEF Stored
    <3>3. Fits(i, rec)
      BY <1>r, <2>1, <2>4, <2>6, <3>2 DEF Fits
    <3>4. Undisturbed(i, rec)
      BY <2>1, <2>2, <2>4, <2>5, <3>1, <3>2 DEF Undisturbed
    <3>5. item' = [item EXCEPT ![i] = rec]
      BY <2>7, <2>10
    <3> QED  BY <2>1, <3>1, <3>3, <3>4, <3>5, ItemWriteKept
  <2> QED  BY <2>3, <2>8, <2>9, <2>10
<1> QED  BY <1>1, <1>2, <1>3

\* The lifecycle statements of a bookmark.
LEMMA LifecycleKept ==
  ASSUME CollIInv, NEW u \in Users, SoftDeleteMark(u) \/ RestoreMark(u) \/ PurgeMark(u)
  PROVE  CollIInv'
<1> DEFINE i == busy[u].item
<1>0. /\ item \in [Items -> ItemType] /\ busy \in [Users -> BusyType]
      /\ today \in 0..MaxDay
  BY DEF CollIInv, CollTypeOK, ItemType, BusyType, Items
<1>1. /\ i \in Marks /\ i \in Items /\ UNCHANGED <<coll, live, today>>
  BY DEF SoftDeleteMark, RestoreMark, PurgeMark, CollIInv, CallsAreSound, Sound, Items
<1>2. item[i] \in ItemType /\ Never \notin 0..MaxDay
  BY <1>0, <1>1, CollectionsAssumption DEF Never
<1>3. Stored(i) => item[i].state # "absent"
                   /\ \A v \in Users : busy[v].verb = "insert" => busy[v].item # i
  BY DEF Stored, CollIInv, InsertsAlone
<1>4. ASSUME NEW rec, item' = [item EXCEPT ![i] = rec], Stored(i), Crossing(u, i), Fits(i, rec)
      PROVE  CollIInv'
  <2>1. Undisturbed(i, rec)
    BY <1>1, <1>3, <1>4, CrossingMarks DEF Undisturbed
  <2>2. busy' \in [Users -> BusyType]
    BY <1>1, <1>4, CrossingMarks
  <2> QED  BY <1>1, <1>4, <2>1, <2>2, ItemWriteKept
<1>5. ASSUME Crossing(u, i), item' = item  PROVE CollIInv'
  <2>1. /\ busy' \in [Users -> BusyType] /\ busy'[u].verb = "free"
        /\ \A v \in Users : v # u =>
              /\ busy'[v].verb = busy[v].verb /\ busy'[v].coll = busy[v].coll
              /\ busy'[v].item = busy[v].item
              /\ busy[v].crossed => busy'[v].crossed
    BY <1>1, <1>5, CrossingMarks
  <2>2. CollTypeOK'
    BY <1>1, <1>5, <2>1 DEF CollIInv, CollTypeOK, BusyType, Items
  <2>3. LinksResolve' /\ LiveWereCreated'
    BY <1>1, <1>5 DEF CollIInv, LinksResolve, LiveWereCreated, KindOf, Items
  <2>4. CallsAreSound'
    BY <1>1, <2>1 DEF CollIInv, CallsAreSound, Sound, KindOf
  <2> HIDE DEF i
  <2>5. InsertsAlone'
    <3> SUFFICES ASSUME NEW p \in Users, busy'[p].verb = "insert"
                 PROVE  /\ item[busy'[p].item].state = "absent"
                        /\ \A v \in Users :
                             busy'[v].verb = "insert" /\ busy'[v].item = busy'[p].item => v = p
      BY <1>5 DEF InsertsAlone
    <3>1. busy[p].verb = "insert" /\ busy'[p].item = busy[p].item
      BY <2>1
    <3>2. \A v \in Users : busy'[v].verb = "insert" =>
            busy[v].verb = "insert" /\ busy'[v].item = busy[v].item
      BY <2>1
    <3> QED  BY <3>1, <3>2 DEF CollIInv, InsertsAlone
  <2>6. PurgesStillHold'
    <3> SUFFICES ASSUME NEW p \in Users, busy'[p].verb = "purge"
                 PROVE  /\ item[busy'[p].item].state # "absent"
                        /\ \/ busy'[p].crossed
                           \/ item[busy'[p].item].state = "purged"
                           \/ item[busy'[p].item].state = "deleted" /\ PastRetention(busy'[p].item)
      BY <1>1, <1>5 DEF PurgesStillHold, PastRetention
    <3>1. /\ busy[p].verb = "purge" /\ busy'[p].item = busy[p].item
          /\ busy[p].crossed => busy'[p].crossed
      BY <2>1
    <3> QED  BY <3>1 DEF CollIInv, PurgesStillHold
  <2> QED  BY <2>2, <2>3, <2>4, <2>5, <2>6 DEF CollIInv
<1>6. CASE SoftDeleteMark(u)
  <2> DEFINE rec == [item[i] EXCEPT !.state = "deleted", !.deletedAt = busy[u].day]
  <2>1. Crossing(u, i)  BY <1>6 DEF SoftDeleteMark
  <2>2. CASE item' = item  BY <2>1, <2>2, <1>5
  <2>3. CASE Stored(i) /\ item' = [item EXCEPT ![i].state = "deleted", ![i].deletedAt = busy[u].day]
    <3>1. item' = [item EXCEPT ![i] = rec]
      BY <2>3, <1>0, <1>1
    <3>2. /\ rec \in ItemType /\ rec.state = "deleted" /\ rec.deletedAt = busy[u].day
          /\ rec.link = item[i].link /\ busy[u].day \in 0..MaxDay
      BY <1>0, <1>2 DEF ItemType, BusyType
    <3> HIDE DEF rec
    <3>3. Fits(i, rec)
      BY <1>0, <1>1, <1>2, <3>2 DEF Fits, CollIInv, LinksResolve
    <3> HIDE DEF i
    <3> QED  BY <2>1, <2>3, <3>1, <3>3, <1>4
  <2> QED  BY <1>6, <2>2, <2>3 DEF SoftDeleteMark
<1>7. CASE RestoreMark(u)
  <2> DEFINE rec == [item[i] EXCEPT !.state = "active", !.deletedAt = Never]
  <2>1. Crossing(u, i)  BY <1>7 DEF RestoreMark
  <2>2. CASE item' = item  BY <2>1, <2>2, <1>5
  <2>3. CASE Stored(i) /\ item' = [item EXCEPT ![i].state = "active", ![i].deletedAt = Never]
    <3>1. item' = [item EXCEPT ![i] = rec]
      BY <2>3, <1>0, <1>1
    <3>2. /\ rec \in ItemType /\ rec.state = "active" /\ rec.deletedAt = Never
          /\ rec.link = item[i].link
      BY <1>0, <1>2 DEF ItemType
    <3> HIDE DEF rec
    <3>3. Fits(i, rec)
      BY <1>0, <1>1, <1>2, <3>2 DEF Fits, CollIInv, LinksResolve
    <3> HIDE DEF i
    <3> QED  BY <2>1, <2>3, <3>1, <3>3, <1>4
  <2> QED  BY <1>7, <2>2, <2>3 DEF RestoreMark
<1>8. CASE PurgeMark(u)
  <2> DEFINE rec == [state |-> "purged", link |-> NoColl, deletedAt |-> Never]
  <2>1. Exit(u)  BY <1>8 DEF PurgeMark
  <2>2. CASE item' = item  BY <2>1, <2>2, <1>1, ExitKept
  <2>3. CASE Stored(i) /\ item' = [item EXCEPT ![i] = rec]
    <3>1. rec \in ItemType /\ rec.state = "purged" /\ rec.deletedAt = Never /\ rec.link = NoColl
      BY DEF ItemType
    <3> HIDE DEF rec
    <3>2. Fits(i, rec)
      BY <3>1 DEF Fits
    <3> HIDE DEF i
    <3>3. Free \in BusyType /\ Free.verb = "free"
      BY FreeTyped DEF BusyType
    <3>4. /\ busy' \in [Users -> BusyType] /\ busy'[u].verb = "free"
          /\ \A v \in Users : v # u => busy'[v] = busy[v]
      BY <1>0, <2>1, <3>3 DEF Exit
    <3>5. Undisturbed(i, rec)
      BY <1>3, <2>3, <3>1, <3>4 DEF Undisturbed
    <3> QED  BY <1>1, <2>3, <3>2, <3>4, <3>5, ItemWriteKept
  <2> QED  BY <1>8, <2>2, <2>3 DEF PurgeMark
<1> QED  BY <1>6, <1>7, <1>8

\* The insert of a bookmark: its uuid was nobody else's, and the collection it
\* was checked against is NULL when it has gone.
LEMMA InsertKept ==
  ASSUME CollIInv, NEW u \in Users, InsertMark(u)
  PROVE  CollIInv'
<1> DEFINE i == busy[u].item
           c == busy[u].coll
           rec == [state |-> "active", link |-> Resolved(c), deletedAt |-> Never]
<1>0. busy \in [Users -> BusyType] /\ live \subseteq Colls
  BY DEF CollIInv, CollTypeOK, BusyType
<1>1. /\ busy[u].verb = "insert" /\ item' = [item EXCEPT ![i] = rec] /\ Exit(u)
      /\ UNCHANGED <<coll, live, today>>
  BY DEF InsertMark
<1>2. /\ i \in Marks /\ i \in Items /\ KindOf(i) = "bookmark"
      /\ c # NoColl => coll[c] = "bookmark"
  BY <1>1, CollectionsAssumption DEF CollIInv, CallsAreSound, Sound, Items, KindOf
<1>3. /\ Resolved(c) \in Colls \cup {NoColl}
      /\ Resolved(c) # NoColl => Resolved(c) = c /\ c \in live
  BY <1>0 DEF Resolved
<1>4. /\ rec \in ItemType /\ rec.state = "active" /\ rec.deletedAt = Never
      /\ rec.link = Resolved(c)
  BY <1>3 DEF ItemType
<1>5. item[i].state = "absent"
      /\ \A v \in Users : busy[v].verb = "insert" /\ busy[v].item = i => v = u
  BY <1>1 DEF CollIInv, InsertsAlone
<1>6. \A v \in Users : busy[v].verb = "purge" => busy[v].item # i
  BY <1>5 DEF CollIInv, PurgesStillHold
<1> HIDE DEF i, c, rec
<1>7. Fits(i, rec)
  BY <1>2, <1>3, <1>4 DEF Fits
<1>8. Free \in BusyType /\ Free.verb = "free"
  BY FreeTyped DEF BusyType
<1>9. /\ busy' \in [Users -> BusyType] /\ busy'[u].verb = "free"
      /\ \A v \in Users : v # u => busy'[v] = busy[v]
  BY <1>0, <1>1, <1>8 DEF Exit
<1>10. Undisturbed(i, rec)
  BY <1>5, <1>6, <1>9 DEF Undisturbed
<1> QED  BY <1>1, <1>2, <1>7, <1>9, <1>10, ItemWriteKept

\* The catalog purges a file, which is no bookmark.
LEMMA CatalogPurgeKept ==
  ASSUME CollIInv, NEW f \in CollFiles, CatalogPurges(f)
  PROVE  CollIInv'
<1> DEFINE rec == [item[f] EXCEPT !.state = "purged", !.link = NoColl]
<1>1. /\ item \in [Items -> ItemType] /\ f \in Items /\ f \notin Marks
      /\ busy \in [Users -> BusyType]
  BY CollectionsAssumption DEF CollIInv, CollTypeOK, ItemType, BusyType, Items
<1>2. rec \in ItemType /\ rec.state = "purged" /\ rec.link = NoColl
  BY <1>1 DEF ItemType
<1>3. item' = [item EXCEPT ![f] = rec]
  BY <1>1 DEF CatalogPurges
<1> HIDE DEF rec
<1>4. Fits(f, rec)
  BY <1>1, <1>2 DEF Fits
<1>5. Undisturbed(f, rec)
  BY <1>1 DEF Undisturbed, CatalogPurges, CollIInv, CallsAreSound, Sound
<1> QED  BY <1>1, <1>3, <1>4, <1>5, ItemWriteKept DEF CatalogPurges

\* A collection is created under a uuid no call can have read.
LEMMA CreateCollectionKept ==
  ASSUME CollIInv, NEW c \in Colls, NEW kind \in {"file", "bookmark"}, CreateCollection(c, kind)
  PROVE  CollIInv'
<1>0. /\ coll[c] = "absent" /\ coll' = [coll EXCEPT ![c] = kind] /\ live' = live \cup {c}
      /\ UNCHANGED <<item, busy, today>>
  BY DEF CreateCollection
<1>1. /\ coll' \in [Colls -> {"absent", "file", "bookmark"}] /\ coll'[c] = kind
      /\ \A d \in Colls : coll[d] # "absent" => coll'[d] = coll[d]
  BY <1>0 DEF CollIInv, CollTypeOK
<1>2. CollTypeOK'
  BY <1>0, <1>1 DEF CollIInv, CollTypeOK, Items
<1>3. \A i \in Items : KindOf(i) \in {"file", "bookmark"}
  BY DEF KindOf
<1>4. LinksResolve'
  <2> SUFFICES ASSUME NEW i \in Items, item[i].link # NoColl
               PROVE  item[i].link \in live' /\ coll'[item[i].link] = KindOf(i)
    BY <1>0 DEF LinksResolve, KindOf, Items
  <2>1. item[i].link \in live /\ coll[item[i].link] = KindOf(i) /\ live \subseteq Colls
    BY DEF CollIInv, LinksResolve, CollTypeOK
  <2> QED  BY <1>0, <1>1, <1>3, <2>1
<1>5. LiveWereCreated'
  BY <1>0, <1>1 DEF CollIInv, LiveWereCreated, CollTypeOK
<1>6. CallsAreSound'
  BY <1>0, <1>1, <1>3 DEF CollIInv, CallsAreSound, Sound, KindOf
<1>7. InsertsAlone' /\ PurgesStillHold'
  BY <1>0 DEF CollIInv, InsertsAlone, PurgesStillHold, PastRetention
<1> QED  BY <1>2, <1>4, <1>5, <1>6, <1>7 DEF CollIInv

\* A deleted collection takes every link to it along.
LEMMA DeleteCollectionKept ==
  ASSUME CollIInv, NEW u \in Users, DeleteCollection(u)
  PROVE  CollIInv'
<1> DEFINE c == busy[u].coll
<1>0. /\ live' = live \ {c} /\ Exit(u) /\ UNCHANGED <<coll, today>>
      /\ item' = [i \in Items |-> IF item[i].link = c
                                  THEN [item[i] EXCEPT !.link = NoColl] ELSE item[i]]
  BY DEF DeleteCollection
<1>1. item \in [Items -> ItemType] /\ busy \in [Users -> BusyType] /\ Marks \subseteq Items
  BY DEF CollIInv, CollTypeOK, ItemType, BusyType, Items
<1>2. \A i \in Items : /\ item[i] \in ItemType
                       /\ [item[i] EXCEPT !.link = NoColl] \in ItemType
  BY <1>1 DEF ItemType
<1>3. /\ item' \in [Items -> ItemType]
      /\ \A i \in Items :
           /\ item'[i].state = item[i].state /\ item'[i].deletedAt = item[i].deletedAt
           /\ item'[i].link = IF item[i].link = c THEN NoColl ELSE item[i].link
  BY <1>0, <1>2 DEF ItemType
<1>4. Free \in BusyType /\ Free.verb = "free"
  BY FreeTyped DEF BusyType
<1>5. /\ busy' \in [Users -> BusyType] /\ busy'[u].verb = "free" /\ busy'[u] = Free
      /\ \A v \in Users : v # u => busy'[v] = busy[v]
  BY <1>0, <1>1, <1>4 DEF Exit
<1> HIDE DEF c
<1>6. CollTypeOK'
  BY <1>0, <1>1, <1>3, <1>5 DEF CollIInv, CollTypeOK, BusyType, ItemType, Items
<1>7. LinksResolve' /\ LiveWereCreated'
  BY <1>0, <1>3 DEF CollIInv, LinksResolve, LiveWereCreated, KindOf
<1>8. CallsAreSound'
  BY <1>0, <1>5 DEF CollIInv, CallsAreSound, Sound, KindOf
<1>9. \A v \in Users : busy[v].verb \in {"insert", "purge"} => busy[v].item \in Items
  BY <1>1 DEF CollIInv, CallsAreSound, Sound
<1>10. InsertsAlone'
  BY <1>3, <1>5, <1>9 DEF CollIInv, InsertsAlone
<1>11. PurgesStillHold'
  BY <1>0, <1>3, <1>5, <1>9 DEF CollIInv, PurgesStillHold, PastRetention
<1> QED  BY <1>6, <1>7, <1>8, <1>10, <1>11 DEF CollIInv

\* A day passes: what was past its retention stays so.
LEMMA NextDayKept ==
  ASSUME CollIInv, NextDay  PROVE CollIInv'
<1>0. /\ today' = today + 1 /\ today \in 0..MaxDay /\ today < MaxDay
      /\ UNCHANGED <<coll, live, item, busy>> /\ MaxDay \in Nat /\ RetentionDays \in Nat
  BY CollectionsAssumption DEF NextDay, CollIInv, CollTypeOK
<1>1. today' \in 0..MaxDay
  BY <1>0
<1>2. CollTypeOK'
  BY <1>0, <1>1 DEF CollIInv, CollTypeOK, Items
<1>3. LinksResolve' /\ LiveWereCreated' /\ CallsAreSound' /\ InsertsAlone'
  BY <1>0 DEF CollIInv, LinksResolve, LiveWereCreated, CallsAreSound, Sound, InsertsAlone,
              KindOf, Items
<1>4. \A i \in Items : PastRetention(i) => today' - item[i].deletedAt > RetentionDays
  BY <1>0 DEF PastRetention, CollIInv, CollTypeOK, Never
<1>5. PurgesStillHold'
  <2> SUFFICES ASSUME NEW u \in Users, busy[u].verb = "purge"
               PROVE  /\ item[busy[u].item].state # "absent"
                      /\ \/ busy[u].crossed
                         \/ item[busy[u].item].state = "purged"
                         \/ /\ item[busy[u].item].state = "deleted"
                            /\ today' - item[busy[u].item].deletedAt > RetentionDays
    BY <1>0 DEF PurgesStillHold, PastRetention
  <2>1. busy[u].item \in Items
    BY DEF CollIInv, CallsAreSound, Sound, Items
  <2> QED  BY <1>4, <2>1 DEF CollIInv, PurgesStillHold
<1> QED  BY <1>2, <1>3, <1>5 DEF CollIInv

\* Every step keeps the invariant of collections and bookmarks.
LEMMA CollStepKept ==
  ASSUME CollIInv, [CollNext]_collVars  PROVE CollIInv'
<1>1. CASE UNCHANGED collVars
  BY <1>1 DEF collVars, CollIInv, CollTypeOK, Items, LinksResolve, LiveWereCreated,
              CallsAreSound, Sound, InsertsAlone, PurgesStillHold, PastRetention, KindOf
<1>2. ASSUME NEW u \in Users, Begin(u) \/ Proceed(u) \/ CallFails(u)  PROVE CollIInv'
  BY <1>2, CollReadsKept, LinksKept, LifecycleKept, InsertKept, DeleteCollectionKept
     DEF Proceed
<1> QED  BY <1>1, <1>2, CreateCollectionKept, CatalogPurgeKept, NextDayKept DEF CollNext

\* The invariant of collections and bookmarks, from the first state on.
LEMMA CollInvariance == CollSpec => []CollIInv
<1>1. CollInit => CollIInv
  BY CollInitHolds
<1>2. CollIInv /\ [CollNext]_collVars => CollIInv'
  BY CollStepKept
<1> QED  BY <1>1, <1>2, PTL DEF CollSpec

\* The types; and a bookmark's state and its deletion date go together,
\* whichever of two racing lifecycle calls writes last (bookmarks/repos.rs).
THEOREM CollTypeCorrect == CollSpec => []CollTypeOK
<1>1. CollIInv => CollTypeOK  BY DEF CollIInv
<1> QED  BY <1>1, CollInvariance, PTL

\* No item points at a collection that is gone or holds the other kind, though
\* every check is a statement earlier than its write: the writes resolve the
\* collection's uuid again, a kind never changes, and a deleted collection
\* takes its links along (collections/repos.rs, delete_collection).
THEOREM LinksTheorem == CollSpec => []LinksResolve
<1>1. CollIInv => LinksResolve  BY DEF CollIInv
<1> QED  BY <1>1, CollInvariance, PTL

\* A bookmark is removed only when it is deleted and past its retention, unless
\* a restore or a deletion crossed the purge (bookmarks, PurgeBookmarkHandler).
THEOREM PurgeTheorem == CollSpec => PurgeAwaitsRetention
<1> DEFINE Awaits ==
      \A b \in Marks : item[b].state # "purged" /\ item'[b].state = "purged" =>
        \/ item[b].state = "deleted" /\ PastRetention(b)
        \/ \E u \in Users : /\ busy[u].verb = "purge" /\ busy[u].item = b
                            /\ busy[u].crossed
<1>1. CollIInv /\ [CollNext]_collVars => [Awaits]_collVars
  <2> SUFFICES ASSUME CollIInv, CollNext, NEW b \in Marks,
                      item[b].state # "purged", item'[b].state = "purged"
               PROVE  \/ item[b].state = "deleted" /\ PastRetention(b)
                      \/ \E u \in Users : /\ busy[u].verb = "purge" /\ busy[u].item = b
                                          /\ busy[u].crossed
    OBVIOUS
  <2>0. /\ b \in Items /\ item \in [Items -> ItemType] /\ item[b] \in ItemType
        /\ b \notin CollFiles
    BY CollectionsAssumption DEF CollIInv, CollTypeOK, ItemType, Items
  <2>1. ASSUME NEW u \in Users, PurgeMark(u)
        PROVE  \/ item[b].state = "deleted" /\ PastRetention(b)
               \/ busy[u].verb = "purge" /\ busy[u].item = b /\ busy[u].crossed
    <3>1. busy[u].item = b
      BY <2>0, <2>1 DEF PurgeMark
    <3> QED  BY <2>1, <3>1 DEF PurgeMark, CollIInv, PurgesStillHold
  <2>2. ASSUME NEW i \in Items, NEW link, item' = [item EXCEPT ![i].link = link]  PROVE FALSE
    BY <2>0, <2>2 DEF ItemType
  <2>3. ASSUME NEW u \in Users, AddLinks(u) \/ RemoveUnlinks(u) \/ UpdateMark(u)  PROVE FALSE
    <3>1. busy[u].item \in Items
      BY <2>3 DEF AddLinks, RemoveUnlinks, UpdateMark, CollIInv, CallsAreSound, Sound, Items
    <3> QED  BY <2>2, <2>3, <3>1 DEF AddLinks, RemoveUnlinks, UpdateMark
  <2>4. ASSUME NEW u \in Users, SoftDeleteMark(u) \/ RestoreMark(u)  PROVE FALSE
    BY <2>0, <2>4 DEF SoftDeleteMark, RestoreMark, ItemType
  <2>5. ASSUME NEW u \in Users, InsertMark(u)  PROVE FALSE
    BY <2>0, <2>5 DEF InsertMark
  <2>6. ASSUME NEW u \in Users, DeleteCollection(u)  PROVE FALSE
    BY <2>0, <2>6 DEF DeleteCollection, ItemType
  <2>7. ASSUME NEW f \in CollFiles, CatalogPurges(f)  PROVE FALSE
    BY <2>0, <2>7 DEF CatalogPurges
  <2>8. item' # item  OBVIOUS
  <2> QED  BY <2>1, <2>3, <2>4, <2>5, <2>6, <2>7, <2>8
           DEF CollNext, Begin, Proceed, CallFails, CreateCollection, NextDay, DeleteBegin,
               AddBegin, RemoveBegin, CreateMarkBegin, UpdateBegin, SoftDeleteBegin,
               RestoreBegin, PurgeBegin, AddLooksUp
<1> QED  BY <1>1, CollInvariance, PTL DEF CollSpec, PurgeAwaitsRetention

(***************************************************************************)
(* The four stores together.                                               *)
(***************************************************************************)

\* What MCStores runs is a behaviour of each of its parts, so that what is
\* proved of a part is proved of the whole.
LEMMA PartsOfStores ==
  StoresSpec => CollSpec /\ ListsSpec /\ ThumbSpec /\ KeysSpec
<1>1. StoresInit => CollInit /\ ListsInit /\ ThumbInit /\ KeysInit
  BY DEF StoresInit
<1>2. [StoresNext]_storeVars =>
        /\ [CollNext]_collVars /\ [ListsNext]_listVars
        /\ [ThumbNext]_thumbVars /\ [KeysNext]_keyVars
  BY DEF StoresNext, storeVars
<1> QED  BY <1>1, <1>2, PTL DEF StoresSpec, CollSpec, ListsSpec, ThumbSpec, KeysSpec

\* The types of the four parts, in every state MCStores reaches.
THEOREM StoresTypeCorrect == StoresSpec => []StoresTypeOK
<1>1. CollTypeOK /\ ListsTypeOK /\ ThumbTypeOK /\ KeysTypeOK => StoresTypeOK
  BY DEF StoresTypeOK
<1> QED  BY <1>1, PartsOfStores, CollTypeCorrect, ListsTypeCorrect, ThumbTypeCorrect,
            KeysTypeCorrect, PTL
================================================================================

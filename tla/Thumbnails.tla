----------------------------- MODULE Thumbnails -----------------------------
(***************************************************************************)
(* The thumbnail cache (playback/thumbnail.rs): a request reads the row of *)
(* a file, looks for the picture its uuid and mtime name, and otherwise    *)
(* renders the bytes that are at its path by then, writes them to a        *)
(* scratch file and renames that over the cached one.  Nothing is locked:  *)
(* the file changes, a refresh records its stat and other requests publish *)
(* under the same name between any two of these steps.                     *)
(*                                                                         *)
(* A picture is the version of the file it shows.  What decoding makes of  *)
(* the bytes is a choice: a picture, or a refusal.                         *)
(***************************************************************************)
EXTENDS Integers

CONSTANTS
    Previews,    \* thumbnail requests in flight
    MaxVersion   \* BOUND: versions of the file

ASSUME ThumbnailsAssumption == MaxVersion \in Nat

VARIABLES
    bytes,       \* the version at the file's path; its mtime grows with it
    playable,    \* the row is neither deleted nor missing, and inside the root
    mtime,       \* the version whose stat the row records
    statted,     \* a refresh's stat, on its way to the row, or NoVersion
    thumbs,      \* per key, the picture published under it, or NoPicture
    scratch,     \* per scratch file: nothing, an empty file, or a picture
    preview      \* each request: where it stands, its key, its picture

thumbVars == <<bytes, playable, mtime, statted, thumbs, scratch, preview>>

FileVersions == 0..MaxVersion
NoVersion == -1
NoPicture == -1      \* no file of that name
Partial == -2        \* a file written so far only in part
Pictures == FileVersions \cup {Partial}

PreviewPCs == {"idle", "get", "render", "create", "write", "publish", "shown"}
IdlePreview == [pc |-> "idle", key |-> 0, row |-> 0, picture |-> NoPicture]

Unkeyed(v) == 0

\* The cache key of a file whose row records the stat of version `v`: the
\* uuid is the same for all of them, the mtime is not.
KeyFor(v) == v

SharedScratch(w) == CHOOSE v \in Previews : TRUE

\* A scratch file of a call's own: a process-wide counter names it.
ScratchOf(w) == w

-----------------------------------------------------------------------------
ThumbInit ==
    /\ bytes = 0 /\ mtime = 0 /\ playable = TRUE
    /\ statted = NoVersion
    /\ thumbs = [k \in FileVersions |-> NoPicture]
    /\ scratch = [w \in Previews |-> NoPicture]
    /\ preview = [w \in Previews |-> IdlePreview]

Previewed(w, pc, picture) ==
    preview' = [preview EXCEPT ![w].pc = pc, ![w].picture = picture]

Idles(w) == preview' = [preview EXCEPT ![w] = IdlePreview]

\* resolve_playable lets it through; the key comes from the row it returns.
ResolveFile(w) ==
    /\ preview[w].pc = "idle" /\ playable
    /\ preview' = [preview EXCEPT ![w] =
                    [pc |-> "get", key |-> KeyFor(mtime), row |-> mtime, picture |-> NoPicture]]
    /\ UNCHANGED <<bytes, playable, mtime, statted, thumbs, scratch>>

\* A hit renders nothing; a cache that cannot answer is a miss.
LookInCache(w) == LET hit == thumbs[preview[w].key] IN
    /\ preview[w].pc = "get"
    /\ \/ hit # NoPicture /\ Previewed(w, "shown", hit)
       \/ Previewed(w, "render", NoPicture)
    /\ UNCHANGED <<bytes, playable, mtime, statted, thumbs, scratch>>

\* Whatever is at the path now, or an error that ends the request.
Render(w) ==
    /\ preview[w].pc = "render"
    /\ Previewed(w, "create", bytes) \/ Idles(w)
    /\ UNCHANGED <<bytes, playable, mtime, statted, thumbs, scratch>>

\* tokio::fs::write creates the file and then fills it.
CreateScratch(w) ==
    /\ preview[w].pc = "create"
    /\ scratch' = [scratch EXCEPT ![ScratchOf(w)] = Partial]
    /\ preview' = [preview EXCEPT ![w].pc = "write"]
    /\ UNCHANGED <<bytes, playable, mtime, statted, thumbs>>

FillScratch(w) ==
    /\ preview[w].pc = "write"
    /\ scratch[ScratchOf(w)] # NoPicture
    /\ scratch' = [scratch EXCEPT ![ScratchOf(w)] = preview[w].picture]
    /\ preview' = [preview EXCEPT ![w].pc = "publish"]
    /\ UNCHANGED <<bytes, playable, mtime, statted, thumbs>>

\* One rename: readers see the old file or the new one.
Publish(w) ==
    /\ preview[w].pc = "publish"
    /\ scratch[ScratchOf(w)] # NoPicture
    /\ thumbs' = [thumbs EXCEPT ![preview[w].key] = scratch[ScratchOf(w)]]
    /\ scratch' = [scratch EXCEPT ![ScratchOf(w)] = NoPicture]
    /\ preview' = [preview EXCEPT ![w].pc = "shown"]
    /\ UNCHANGED <<bytes, playable, mtime, statted>>

\* A put that fails at any of its calls leaves no scratch file and no error:
\* the picture is shown uncached.
GiveUpPut(w) ==
    /\ preview[w].pc \in {"create", "write", "publish"}
    /\ scratch' = IF preview[w].pc = "create" THEN scratch
                  ELSE [scratch EXCEPT ![ScratchOf(w)] = NoPicture]
    /\ preview' = [preview EXCEPT ![w].pc = "shown"]
    /\ UNCHANGED <<bytes, playable, mtime, statted, thumbs>>

Show(w) ==
    /\ preview[w].pc = "shown"
    /\ Idles(w)
    /\ UNCHANGED <<bytes, playable, mtime, statted, thumbs, scratch>>

\* The process ends: scratch files stay behind, and their names with them.
EndProcess ==
    /\ preview' = [w \in Previews |-> IdlePreview]
    /\ statted' = NoVersion
    /\ scratch' = [w \in Previews |-> NoPicture]
    /\ UNCHANGED <<bytes, playable, mtime, thumbs>>

\* Another program, or an edit, replaces the file.
ReplaceFile ==
    /\ bytes < MaxVersion
    /\ bytes' = bytes + 1
    /\ UNCHANGED <<playable, mtime, statted, thumbs, scratch, preview>>

StatFile ==
    /\ statted = NoVersion
    /\ statted' = bytes
    /\ UNCHANGED <<bytes, playable, mtime, thumbs, scratch, preview>>

RecordStat ==
    /\ statted # NoVersion
    /\ mtime' = statted /\ statted' = NoVersion
    /\ UNCHANGED <<bytes, playable, thumbs, scratch, preview>>

\* Soft deletes, restores, and refreshes that find the file gone or back.
TogglePlayable ==
    /\ playable' = ~playable
    /\ UNCHANGED <<bytes, mtime, statted, thumbs, scratch, preview>>

ThumbStep(w) ==
    \/ ResolveFile(w) \/ LookInCache(w) \/ Render(w)
    \/ CreateScratch(w) \/ FillScratch(w) \/ Publish(w)
    \/ GiveUpPut(w) \/ Show(w)

ThumbNext ==
    \/ \E w \in Previews : ThumbStep(w)
    \/ EndProcess \/ ReplaceFile \/ StatFile \/ RecordStat \/ TogglePlayable

ThumbSpec == ThumbInit /\ [][ThumbNext]_thumbVars

-----------------------------------------------------------------------------
(* Types: nothing half-written is ever published or shown, though requests  *)
(* for one picture write it at once (thumbnail.rs:404-415).                 *)
ThumbTypeOK ==
    /\ bytes \in FileVersions /\ playable \in BOOLEAN /\ mtime \in FileVersions
    /\ statted \in FileVersions \cup {NoVersion}
    /\ thumbs \in [FileVersions -> FileVersions \cup {NoPicture}]
    /\ scratch \in [Previews -> Pictures \cup {NoPicture}]
    /\ preview \in [Previews -> [pc : PreviewPCs, key : FileVersions, row : FileVersions,
                                 picture : FileVersions \cup {NoPicture}]]
    /\ \A w \in Previews : preview[w].pc = "shown" => preview[w].picture # NoPicture

(* A picture shown is never older than the row the request read, whoever    *)
(* rendered it and when: a change the catalog knows of has invalidated what *)
(* was cached before it.  It may be newer than the row, and then stays      *)
(* cached under the old mtime.                                              *)
NeverOlderThanRow ==
    \A w \in Previews : preview[w].pc = "shown" => preview[w].picture >= preview[w].row
=============================================================================

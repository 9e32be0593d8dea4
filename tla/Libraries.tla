------------------------------ MODULE Libraries ------------------------------
(***************************************************************************)
(* Libraries: folders the owner marked, each holding the catalogued files  *)
(* beneath its root (libraries/commands.rs, repos.rs, queries.rs).  A      *)
(* registration and a move look for overlapping roots, write, and claim    *)
(* unheld files, each in a transaction of its own; index runs insert       *)
(* files, renames rewrite a path they read earlier, and any of the calls   *)
(* may stop after any of its statements.                                   *)
(*                                                                         *)
(* A path is the sequence of its segments, all of one length, so that the  *)
(* move's cut by the length of the old root is a cut by its segments.      *)
(* Trimming, letter case and separators are abstracted, and so is the      *)
(* authentication every call starts with (module Surfaces).                *)
(***************************************************************************)
EXTENDS FiniteSets, Sequences, SequencesExt

CONSTANTS
    Libs,        \* uuids a library may be given
    Roots,       \* folders a request may name
    Bounded,     \* those of them inside filesystem.root
    LibFiles,    \* catalogued files
    Spots,       \* paths an index run may find a file at
    FileNames,   \* names a rename may give
    Owners,      \* requests in flight
    MaxAsks      \* BOUND: requests made in a behaviour

NoLib == "none"

\* The names paths are made of.
Segments == FileNames \cup UNION {Range(p) : p \in Roots \cup Spots}

\* Folders and files have paths, never the empty one, and no library is none.
ASSUME LibrariesAssumption ==
    /\ Bounded \subseteq Roots
    /\ \A p \in Roots \cup Spots : p \in Seq(Segments) /\ p # << >>
    /\ NoLib \notin Libs

VARIABLES
    root,        \* libraries.root_path, << >> where there is no row
    at,          \* files.path, << >> where there is no row
    holder,      \* files.library_id
    ask,         \* each request: where it stands and what it has read
    asks,        \* requests made so far
    slipped,     \* history: pairs of libraries, one written unseen by the other's check
    strayed,     \* history: files renamed on the strength of a path since rewritten
    unclaimed    \* history: libraries whose claim never ran, or beside which one let files go

libVars == <<root, at, holder, ask, asks, slipped, strayed, unclaimed>>

Registered == {l \in Libs : root[l] # << >>}
Catalogued == {f \in LibFiles : at[f] # << >>}
AskPCs == {"idle", "find", "overlap", "write", "claim", "rename"}

\* Nothing asked.
IdleAsk == [pc |-> "idle", op |-> "none", lib |-> NoLib, root |-> << >>,
            file |-> NoLib, rivals |-> {}, stale |-> FALSE]

(***************************************************************************)
(* Containment, as SQL and Rust both decide it.                            *)
(***************************************************************************)

\* `path` starts with `folder` and its separator: a root is inside itself,
\* and a longer name that starts with the same letters is not.
Within(path, folder) == IsPrefix(folder, path)

\* A file inside a folder: its path goes on after the separator, which a path
\* that is the folder's own lacks.
Beneath(path, folder) == Within(path, folder) /\ path # folder

OverlappingInside(r, s) == Within(r, s)

\* Either root may be the ancestor, and both are asked.
Overlapping(r, s) == Within(r, s) \/ Within(s, r)

\* find_overlapping: is some registered library, but `except`, in the way?
Taken(r, except) == \E l \in Registered \ {except} : Overlapping(r, root[l])

HolderForNobody(path) == NoLib

\* The library the insert of a file finds for it: the deepest root around it.
HolderFor(path) ==
    LET around == {l \in Registered : Beneath(path, root[l])}
    IN IF around = {} THEN NoLib
       ELSE CHOOSE l \in around : \A k \in around : Len(root[k]) <= Len(root[l])

\* What claim_files takes: files no library holds, inside the root.
Claimable(l) == {f \in Catalogued : holder[f] = NoLib /\ Beneath(at[f], root[l])}

RelocatedTooShort(path, old, new) == new \o SubSeq(path, Len(old) + 2, Len(path))

\* The path of a file of a library moved from `old` to `new`.
Relocated(path, old, new) == new \o SubSeq(path, Len(old) + 1, Len(path))

\* The path of the file beside `path` named `name`.
Sibling(path, name) == Append(Front(path), name)

(***************************************************************************)
(* Browsing one level of a library's tree.                                 *)
(***************************************************************************)

\* The files of `l` relative to its root; one outside it is left out.
Relative(l) ==
    [f \in {g \in Catalogued : holder[g] = l /\ Within(at[g], root[l])} |->
        SubSeq(at[f], Len(root[l]) + 1, Len(at[f]))]

\* The child folders and the files directly inside `folder`.
LevelOf(files, folder) ==
    LET below == {f \in DOMAIN files :
                    IsPrefix(folder, files[f]) /\ files[f] # folder}
        rest(f) == SubSeq(files[f], Len(folder) + 1, Len(files[f]))
    IN [folders |-> {Append(folder, Head(rest(f))) :
                        f \in {g \in below : Len(rest(g)) > 1}},
        here    |-> {f \in below : Len(rest(f)) = 1}]

Browse(l, folder) == LevelOf(Relative(l), folder)

-----------------------------------------------------------------------------
LibrariesInit ==
    /\ root = [l \in Libs |-> << >>]
    /\ at = [f \in LibFiles |-> << >>]
    /\ holder = [f \in LibFiles |-> NoLib]
    /\ ask = [o \in Owners |-> IdleAsk]
    /\ asks = 0
    /\ slipped = {} /\ strayed = {} /\ unclaimed = {}

Asks(o, request) ==
    /\ ask[o].pc = "idle" /\ asks < MaxAsks
    /\ asks' = asks + 1
    /\ ask' = [ask EXCEPT ![o] = request]
    /\ UNCHANGED <<root, at, holder, slipped, strayed, unclaimed>>

AskRegister(o) == \E l \in Libs \ Registered, r \in Roots :
    /\ \A p \in Owners : ask[p].lib # l
    /\ Asks(o, [IdleAsk EXCEPT !.pc = "overlap", !.op = "register", !.lib = l, !.root = r])

\* (A uuid that is no library's yet is refused and changes nothing.)
AskMove(o) == \E l \in Registered, r \in Roots :
    Asks(o, [IdleAsk EXCEPT !.pc = "find", !.op = "move", !.lib = l, !.root = r])

AskRemove(o) == \E l \in Registered :
    Asks(o, [IdleAsk EXCEPT !.pc = "find", !.op = "remove", !.lib = l])

\* A rename of a file reads its row; what it does to the disk is in FileLifecycle.
AskRename(o) == \E f \in Catalogued, n \in FileNames :
    Asks(o, [IdleAsk EXCEPT !.pc = "rename", !.op = "rename", !.file = f,
                            !.root = Sibling(at[f], n)])

\* A call that has nothing left to do.
Answered(o) == ask' = [ask EXCEPT ![o] = IdleAsk]

\* The row of the library is looked up; a move's folder must be inside the bound.
FindLibrary(o) == LET a == ask[o] IN
    /\ a.pc = "find"
    /\ \/ /\ a.lib \notin Registered \/ (a.op = "move" /\ a.root \notin Bounded)
          /\ Answered(o)
       \/ /\ a.lib \in Registered /\ (a.op = "move" => a.root \in Bounded)
          /\ ask' = [ask EXCEPT ![o].pc = IF a.op = "move" THEN "overlap" ELSE "write"]
    /\ UNCHANGED <<root, at, holder, asks, slipped, strayed, unclaimed>>

\* The overlap check, which a move passes where the library already is.
CheckOverlap(o) == LET a == ask[o] IN
    /\ a.pc = "overlap"
    /\ IF Taken(a.root, a.lib) THEN Answered(o)
       ELSE ask' = [ask EXCEPT ![o].pc = "write", ![o].rivals = {}]
    /\ UNCHANGED <<root, at, holder, asks, slipped, strayed, unclaimed>>

\* `l` now has a root that the checks of the other calls have not seen.
Unseen(l, o) ==
    [p \in Owners |-> CASE p = o -> [ask[o] EXCEPT !.pc = "claim"]
                        [] p # o /\ ask[p].pc = "write" ->
                              [ask[p] EXCEPT !.rivals = @ \cup {l}]
                        [] OTHER -> ask[p]]

SlippedPast(o) == slipped \cup {{ask[o].lib, r} : r \in ask[o].rivals \ {ask[o].lib}}

\* The unique root refuses only the very same folder.
InsertLibrary(o) == LET a == ask[o] IN
    /\ a.pc = "write" /\ a.op = "register"
    /\ IF \E l \in Registered : root[l] = a.root
       THEN Answered(o) /\ UNCHANGED <<root, slipped, unclaimed>>
       ELSE /\ root' = [root EXCEPT ![a.lib] = a.root]
            /\ ask' = Unseen(a.lib, o)
            /\ slipped' = SlippedPast(o)
            /\ unclaimed' = unclaimed \ {a.lib}
    /\ UNCHANGED <<at, holder, asks, strayed>>

\* The paths the files of `l` would have under `new`; the others keep theirs.
PathsUnder(l, new) ==
    [f \in LibFiles |-> IF f \in Catalogued /\ holder[f] = l
                        THEN Relocated(at[f], root[l], new) ELSE at[f]]

\* The paths of its files and the root change together, or a unique path or
\* a unique root refuses both.  Paths are checked row by row: one that a file
\* of the library still has to leave refuses too, if its row comes later.
MoveRoot(o) == LET a == ask[o]
                   path == PathsUnder(a.lib, a.root)
                   meets(before) == \E f, g \in Catalogued :
                        f # g /\ path[f] # at[f] /\ path[f] = before[g]
                   applies ==
                        /\ a.lib \in Registered
                        /\ ~meets(path)
                        /\ \A l \in Registered \ {a.lib} : root[l] # a.root
    IN
    /\ a.pc = "write" /\ a.op = "move"
    /\ \/ /\ ~applies \/ meets(at)
          /\ Answered(o) /\ UNCHANGED <<root, at, slipped, unclaimed>>
       \/ /\ applies
          /\ root' = [root EXCEPT ![a.lib] = a.root]
          /\ at' = path
          /\ ask' = [p \in Owners |->
                        IF ask[p].op = "rename" /\ path[ask[p].file] # at[ask[p].file]
                        THEN [ask[p] EXCEPT !.stale = TRUE] ELSE Unseen(a.lib, o)[p]]
          /\ slipped' = SlippedPast(o)
          /\ unclaimed' = unclaimed \ {a.lib}
    /\ UNCHANGED <<holder, asks, strayed>>

DeleteLibraryOnly(o) == LET l == ask[o].lib IN
    /\ ask[o].pc = "write" /\ ask[o].op = "remove"
    /\ holder' = holder
    /\ root' = [root EXCEPT ![l] = << >>]
    /\ slipped' = {s \in slipped : l \notin s \/ root[l] = << >>}
    /\ unclaimed' = (unclaimed \ {l}) \cup
            {k \in Registered \ {l} : root[l] # << >> /\ Overlapping(root[k], root[l])}
    /\ Answered(o)
    /\ UNCHANGED <<at, asks, strayed>>

\* The files are released and the row goes, in one transaction.
DeleteLibrary(o) == LET l == ask[o].lib IN
    /\ ask[o].pc = "write" /\ ask[o].op = "remove"
    /\ holder' = [f \in LibFiles |-> IF holder[f] = l THEN NoLib ELSE holder[f]]
    /\ root' = [root EXCEPT ![l] = << >>]
    /\ slipped' = {s \in slipped : l \notin s \/ root[l] = << >>}
    /\ unclaimed' = (unclaimed \ {l}) \cup
            {k \in Registered \ {l} : root[l] # << >> /\ Overlapping(root[k], root[l])}
    /\ Answered(o)
    /\ UNCHANGED <<at, asks, strayed>>

\* What is already indexed beneath the new root, if the library is still there.
ClaimFiles(o) == LET l == ask[o].lib IN
    /\ ask[o].pc = "claim"
    /\ holder' = [f \in LibFiles |->
                    IF l \in Registered /\ f \in Claimable(l) THEN l ELSE holder[f]]
    /\ Answered(o)
    /\ UNCHANGED <<root, at, asks, slipped, strayed, unclaimed>>

\* A rename writes the path it worked out from the one it read.
RewritePath(o) == LET a == ask[o] IN
    /\ a.pc = "rename"
    /\ IF a.file \notin Catalogued \/ \E g \in Catalogued \ {a.file} : at[g] = a.root
       THEN UNCHANGED <<at, strayed>>
       ELSE /\ at' = [at EXCEPT ![a.file] = a.root]
            /\ strayed' = IF a.stale THEN strayed \cup {a.file} ELSE strayed
    /\ Answered(o)
    /\ UNCHANGED <<root, holder, asks, slipped, unclaimed>>

\* A statement fails, or the process ends: the call goes no further, and a
\* claim it still owed is not made.
Abandon(o) ==
    /\ ask[o].pc # "idle"
    /\ unclaimed' = IF ask[o].pc = "claim" THEN unclaimed \cup {ask[o].lib} ELSE unclaimed
    /\ Answered(o)
    /\ UNCHANGED <<root, at, holder, asks, slipped, strayed>>

\* An index run inserts a file, which finds its library in the insert itself.
IndexFile(f) == \E p \in Spots :
    /\ f \notin Catalogued /\ \A g \in Catalogued : at[g] # p
    /\ at' = [at EXCEPT ![f] = p]
    /\ holder' = [holder EXCEPT ![f] = HolderFor(p)]
    /\ UNCHANGED <<root, ask, asks, slipped, strayed, unclaimed>>

LibraryCall(o) ==
    \/ AskRegister(o) \/ AskMove(o) \/ AskRemove(o) \/ AskRename(o)
    \/ FindLibrary(o) \/ CheckOverlap(o)
    \/ InsertLibrary(o) \/ MoveRoot(o) \/ DeleteLibrary(o) \/ ClaimFiles(o)
    \/ RewritePath(o) \/ Abandon(o)

LibrariesNext == (\E o \in Owners : LibraryCall(o)) \/ (\E f \in LibFiles : IndexFile(f))

LibrariesSpec == LibrariesInit /\ [][LibrariesNext]_libVars

-----------------------------------------------------------------------------
(* Types: a file without a row is held by nobody, and the holder of any     *)
(* other is a library that still has its row: deleting a library releases   *)
(* its files first, as nothing in the schema cascades (repos.rs:355-358).   *)
LibrariesTypeOK ==
    /\ root \in [Libs -> Roots \cup {<< >>}]
    /\ at \in [LibFiles -> Seq(Segments)]
    /\ holder \in [LibFiles -> Registered \cup {NoLib}]
    /\ \A f \in LibFiles \ Catalogued : holder[f] = NoLib
    /\ \A o \in Owners : ask[o].pc \in AskPCs /\ ask[o].root \in Seq(Segments)

(* Two libraries overlap only when one of them was written between the      *)
(* other's overlap check and its own write: registering and moving check    *)
(* and write in two transactions, and only equal roots meet a unique index. *)
OverlapsWereRaced ==
    \A l, k \in Registered :
        l # k /\ Overlapping(root[l], root[k]) => {l, k} \in slipped

(* Every file a library holds can be reached by browsing down from its      *)
(* root, level by level, and is listed at one level: "a file claimed by a   *)
(* library that cannot list it is reachable from nowhere but search"        *)
(* (repos.rs:307-310).  Except a file whose rename wrote a path read before *)
(* a move of its library: the code does lose that one from the tree.        *)
HeldFilesAreListed ==
    \A f \in Catalogued \ strayed : holder[f] # NoLib =>
        LET l == holder[f]
            place == SubSeq(at[f], Len(root[l]) + 1, Len(at[f]))
        IN /\ Beneath(at[f], root[l])
           /\ \A n \in 0..(Len(place) - 1) :
                LET level == Browse(l, SubSeq(place, 1, n))
                IN IF n = Len(place) - 1 THEN f \in level.here
                   ELSE /\ f \notin level.here
                        /\ SubSeq(place, 1, n + 1) \in level.folders

(* Once a registration or a move is over, no library leaves unheld a file   *)
(* beneath its root: files indexed before it are claimed after the write,   *)
(* files indexed later find it in their insert.  Except where the claim     *)
(* never ran, or an overlapping library was removed.                         *)
NothingLeftUnclaimed ==
    \A l \in Registered :
        \/ l \in unclaimed
        \/ \E o \in Owners : ask[o].pc = "claim" /\ ask[o].lib = l
        \/ Claimable(l) \subseteq strayed
=============================================================================

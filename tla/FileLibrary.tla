---------------------------- MODULE FileLibrary ----------------------------
(***************************************************************************)
(* What renames, soft deletes and restores promise the owner of a library: *)
(* the catalog and the folder change together.  A rename takes one step,   *)
(* to a name that neither a row nor a file has, and nothing else moves,    *)
(* replaces or loses a file.                                               *)
(***************************************************************************)
CONSTANTS
    Files,   \* uuids of rows
    Paths,   \* paths of the folder
    Nobody   \* not a uuid: there is no file at a path

VARIABLES
    state,   \* what the catalog says of each file
    listed,  \* the path it lists the file at
    folder   \* whose file is at each path

library == <<state, listed, folder>>

Known(u) == state[u] \in {"active", "deleted"}

(* Every cataloged file lies where it is listed, and there is no other.    *)
Init ==
    /\ state \in [Files -> {"none", "active"}]
    /\ listed \in [Files -> Paths]
    /\ \A p \in Paths, u \in Files : folder[p] = u <=> Known(u) /\ listed[u] = p
    /\ folder \in [Paths -> Files \cup {Nobody}]

Becomes(u, s) == state' = [state EXCEPT ![u] = s]

Delete(u) ==
    /\ state[u] = "active"
    /\ Becomes(u, "deleted")
    /\ UNCHANGED <<listed, folder>>

Restore(u) ==
    /\ state[u] = "deleted"
    /\ Becomes(u, "active")
    /\ UNCHANGED <<listed, folder>>

(* A deleted file may be renamed still: the request was let in before.     *)
Rename(u, p) ==
    /\ Known(u) /\ folder[p] = Nobody
    /\ listed' = [listed EXCEPT ![u] = p]
    /\ folder' = [folder EXCEPT ![p] = u, ![listed[u]] = Nobody]
    /\ UNCHANGED state

Next ==
    \E u \in Files : Delete(u) \/ Restore(u) \/ \E p \in Paths : Rename(u, p)

Spec == Init /\ [][Next]_library
=============================================================================

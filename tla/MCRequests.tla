----------------------------- MODULE MCRequests -----------------------------
(***************************************************************************)
(* Requests that race: accounts and sessions, one call made on both        *)
(* surfaces, the replacement of the services, libraries, and the clock of  *)
(* a run.  The five share no state, so a behaviour is one of one of them   *)
(* and `focus` names it.  Callers are interchangeable, and so are the      *)
(* things they name: the same few model values stand for both in every     *)
(* part, so that two exchanges of values make the symmetry of all five.    *)
(***************************************************************************)
EXTENDS LocalAuth, Surfaces, ReInit, Libraries, RunClock, TLC

VARIABLE focus

CONSTANTS first, inner, far

RequestSymmetry == Permutations(Clients) \cup Permutations(StrongPasswords)

EveryOperation == AllOperations

\* A folder, one inside it and one apart, which lies outside the bound.
Folders == {<<first>>, <<first, inner>>, <<far>>}
InsideBound == {<<first>>, <<first, inner>>}
FilePaths == {<<first, "f">>, <<first, inner, "f">>}
NewNames == {"g"}

requestVars == <<focus, authVars, surfaceVars, initVars, libVars, clockVars>>

RequestsInit ==
    /\ focus \in {"auth", "surfaces", "services", "libraries", "clock"}
    /\ AuthInit /\ SurfaceInit /\ InitInit /\ LibrariesInit /\ ClockInit
    \* one state is enough for a part out of focus
    /\ focus # "auth" => mode = "local"
    /\ focus # "surfaces" =>
         /\ ready /\ session = "live" /\ authStore = "up"
         /\ asked = [op |-> "settings", fault |-> "none", outcome |-> "Ok"]

\* The call on one surface neither reads nor writes what the call on the
\* other does: letting the FFI answer first loses no behaviour of either.
FfiFirst == SurfaceNext /\ (Pending("ffi") => side'["http"] = side["http"])

RequestsNext ==
    /\ \/ focus = "auth" /\ AuthNext /\ UNCHANGED <<surfaceVars, initVars, libVars, clockVars>>
       \/ focus = "surfaces" /\ FfiFirst /\ UNCHANGED <<authVars, initVars, libVars, clockVars>>
       \/ focus = "services" /\ InitNext /\ UNCHANGED <<authVars, surfaceVars, libVars, clockVars>>
       \/ focus = "libraries" /\ LibrariesNext /\ UNCHANGED <<authVars, surfaceVars, initVars, clockVars>>
       \/ focus = "clock" /\ ClockNext /\ UNCHANGED <<authVars, surfaceVars, initVars, libVars>>
    /\ UNCHANGED focus

\* The type invariants of the five parts.
RequestsTypeOK ==
    AuthTypeOK /\ SurfaceTypeOK /\ InitTypeOK /\ LibrariesTypeOK /\ ClockTypeOK

RequestsSpec == RequestsInit /\ [][RequestsNext]_requestVars
=============================================================================

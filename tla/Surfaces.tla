------------------------------- MODULE Surfaces -------------------------------
(***************************************************************************)
(* The two surfaces of the one core: the C functions of alexandria-ffi and *)
(* the routes of alexandria-http. Each operation passes a sequence of      *)
(* gates on each surface, the first closed gate answers, and what the      *)
(* handler returns is translated by a map of the surface.                  *)
(*                                                                         *)
(* One call is made on both surfaces at once, and each gate is a step, so  *)
(* that a session may end, the session store fail or the catalog change    *)
(* between any two of them. Arguments are only as good or bad as the gates *)
(* can tell; an FFI status and an HTTP status are compared by their class. *)
(* A body fails one of three readings: "body" is a fault both surfaces     *)
(* have a reader for, "loose" a field of the wrong type that a lenient     *)
(* reader of the FFI takes for absent, and a form is what one surface      *)
(* alone refuses (a null pointer or an array for an object to the FFI; a   *)
(* repeated key, a media type or too long a body to HTTP).                 *)
(***************************************************************************)
EXTENDS Integers, Sequences

CONSTANT Operations     \* the operations called

VARIABLES
  ready,          \* the FFI's slot holds services; HTTP starts with its own
  session,        \* whether the caller's token authenticates
  authStore,      \* whether the query behind authenticate succeeds
  asked,          \* the call: operation, fault of its arguments, and what
                  \* the handler would return as the catalog now stands
  side,           \* each surface: the next gate, the answer, history
  disturbed       \* something changed since the call was made

surfaceVars == <<ready, session, authStore, asked, side, disturbed>>
environment == <<ready, session, authStore, asked, disturbed>>

----------------------------------------------------------------------------
(* Errors of the core and the class each surface gives them.               *)

Errors == {"NotFound", "Unauthorized", "InvalidInput", "Rejected",
           "InvalidState", "Conflict", "Disk", "Integrity", "Database",
           "Config", "Internal"}
Classes == {"Ok", "NotFound", "Unauthorized", "BadRequest", "Conflict",
            "Internal", "NotInitialized", "Dropped"}

\* error_body, behind every HTTP answer
ErrorClass(err) ==
  CASE err \in {"NotFound", "Unauthorized"} -> err
    [] err \in {"InvalidInput", "Rejected"} -> "BadRequest"
    [] err \in {"InvalidState", "Conflict"} -> "Conflict"
    [] OTHER -> "Internal"

\* An FFI map gives a status of their own to the errors it names; the rest
\* is _ERR_OTHER, the class Internal.
map_file_err == {"NotFound", "Unauthorized", "InvalidInput", "InvalidState",
                 "Disk", "Integrity"}
map_playback_err == {"NotFound", "Unauthorized", "InvalidInput", "InvalidState", "Disk"}
map_collection_err == {"NotFound", "Unauthorized", "InvalidInput", "InvalidState"}
map_bookmark_err == {"NotFound", "Unauthorized", "InvalidInput", "InvalidState"}
map_watchlist_err == {"NotFound", "Unauthorized", "InvalidInput", "InvalidState"}
map_reading_list_err == {"NotFound", "Unauthorized", "InvalidInput", "InvalidState"}
map_run_err == {"NotFound", "Unauthorized", "InvalidInput", "InvalidState"}
map_library_errWithoutConflict == {"NotFound", "Unauthorized", "InvalidInput"}

map_library_err == {"NotFound", "Unauthorized", "InvalidInput", "Conflict"}
map_auth_err == {"Unauthorized", "InvalidInput", "Rejected", "InvalidState",
                 "Config", "Conflict"}

----------------------------------------------------------------------------
(* The C functions. Every one is wrapped in ffi_guard and, but for index,  *)
(* takes its services from the slot before anything else.                  *)

\* the parts of a surface put together
Joined(parts) ==
  [op \in UNION {DOMAIN part : part \in parts} |->
     (CHOOSE part \in parts : op \in DOMAIN part)[op]]

Via(gates, names, ops) ==
  [op \in ops |-> [gates |-> gates, names |-> names]]

FfiStart == Via(<<"slot", "gate", "body", "session", "act">>,
                {"InvalidInput", "Unauthorized"}, {"index"})
FfiRefresh == Via(<<"slot", "session", "act">>, {"Unauthorized"}, {"refresh"})
FfiEditMetadata ==
  Via(<<"slot", "gate", "id", "body", "session", "act">>,
      {"NotFound", "Unauthorized", "InvalidInput", "InvalidState"}, {"edit_metadata"})
FfiListFiles == Via(<<"slot", "gate", "lenient", "session", "act">>, map_file_err,
                    {"list_files"})
FfiReads == Via(<<"slot", "gate", "id", "session", "act">>, map_file_err,
                {"get_file", "read_content"})
FfiPlayback == Via(<<"slot", "gate", "id", "session", "act">>, map_playback_err,
                   {"playback_source", "comic_page", "thumbnail"})
FfiEdits == Via(<<"slot", "gate", "id", "body", "session", "act">>, map_file_err,
                {"edit_content", "rename"})
FfiDeletes == Via(<<"slot", "gate", "id", "session", "act">>, map_file_err,
                  {"soft_delete", "restore"})
FfiPurges == Via(<<"slot", "gate", "id", "session", "act">>, map_file_err,
                 {"purge", "purge_on_disk"})

FfiCreateCollection == Via(<<"slot", "gate", "body", "session", "act">>,
                           map_collection_err, {"create_collection"})
FfiRenameCollection == Via(<<"slot", "gate", "id", "body", "session", "act">>,
                           map_collection_err, {"rename_collection"})
FfiDeleteCollection == Via(<<"slot", "gate", "id", "session", "act">>,
                           map_collection_err, {"delete_collection"})
FfiAddItems == Via(<<"slot", "gate", "id", "body", "session", "act">>,
                   map_collection_err, {"add_items"})
FfiItems == Via(<<"slot", "gate", "id", "session", "act">>, map_collection_err,
                {"remove_collection_item", "list_items"})
FfiListCollections == Via(<<"slot", "gate", "lenient", "session", "act">>,
                          map_collection_err, {"list_collections"})

FfiCreateBookmark == Via(<<"slot", "gate", "body", "session", "act">>,
                         map_bookmark_err, {"create_bookmark"})
FfiUpdateBookmark == Via(<<"slot", "gate", "id", "body", "session", "act">>,
                         map_bookmark_err, {"update_bookmark"})
FfiListBookmarks == Via(<<"slot", "gate", "lenient", "session", "act">>,
                        map_bookmark_err, {"list_bookmarks"})
FfiBookmarkLifecycle ==
  Via(<<"slot", "gate", "id", "session", "act">>, map_bookmark_err,
      {"soft_delete_bookmark", "restore_bookmark", "purge_bookmark"})

FfiCreateWatchlist == Via(<<"slot", "gate", "body", "session", "act">>,
                          map_watchlist_err, {"create_watchlist"})
FfiAddVideo == Via(<<"slot", "gate", "id", "body", "session", "act">>,
                   map_watchlist_err, {"add_video"})
FfiListWatchlists == Via(<<"slot", "gate", "lenient", "session", "act">>,
                         map_watchlist_err, {"list_watchlists"})
FfiWatchProgress == Via(<<"slot", "gate", "id", "lenient", "session", "act">>,
                        map_watchlist_err, {"update_watch_progress"})
FfiRemoveFromWatchlists ==
  Via(<<"slot", "gate", "id", "session", "act">>, map_watchlist_err,
      {"remove_video", "delete_watchlist"})

FfiCreateReadingList == Via(<<"slot", "gate", "body", "session", "act">>,
                            map_reading_list_err, {"create_reading_list"})
FfiAddReadingItem == Via(<<"slot", "gate", "id", "body", "session", "act">>,
                         map_reading_list_err, {"add_reading_item"})
FfiListReadingLists == Via(<<"slot", "gate", "lenient", "session", "act">>,
                           map_reading_list_err, {"list_reading_lists"})
FfiReadingProgress == Via(<<"slot", "gate", "id", "lenient", "session", "act">>,
                          map_reading_list_err, {"update_reading_progress"})
FfiRemoveFromReadingLists ==
  Via(<<"slot", "gate", "id", "session", "act">>, map_reading_list_err,
      {"remove_reading_item", "delete_reading_list"})

\* an auth operation parses its body first; the handler authenticates, if at all
FfiLogin == Via(<<"slot", "body", "act">>, map_auth_err, {"login"})
FfiWindowsLogin == Via(<<"slot", "act">>, map_auth_err, {"windows_login"})
FfiSetCredentials == Via(<<"slot", "body", "mode", "session", "act">>, map_auth_err,
                         {"set_credentials"})
FfiRegister == Via(<<"slot", "body", "act">>, map_auth_err, {"register"})
FfiAccount == Via(<<"slot", "mode", "session", "act">>, map_auth_err, {"account"})
FfiRedeem == Via(<<"slot", "body", "act">>, map_auth_err, {"redeem"})
FfiRegenerate == Via(<<"slot", "session", "mode", "act">>, map_auth_err, {"regenerate"})
FfiSettings == Via(<<"slot", "session", "act">>, {"Unauthorized"}, {"settings"})

\* the run operations trim the id before they parse it
FfiRunReads == Via(<<"slot", "gate", "trimmed", "session", "act">>, map_run_err,
                   {"run_status", "run_failures"})
FfiRunStopsIdFirst == Via(<<"slot", "trimmed", "gate", "session", "act">>, map_run_err,
                          {"pause_run", "cancel_run"})

FfiRunStops == Via(<<"slot", "gate", "trimmed", "session", "act">>, map_run_err,
                   {"pause_run", "cancel_run"})
FfiResume == Via(<<"slot", "gate", "trimmed", "session", "act">>, map_run_err,
                 {"resume_run"})
FfiActiveRuns == Via(<<"slot", "gate", "session", "act">>, map_run_err, {"active_runs"})

\* a field of the wrong type reads as blank, which the handler refuses once
\* it has authenticated
FfiRegisterLibrary ==
  Via(<<"slot", "gate", "lenient", "session", "body", "act">>, map_library_err,
      {"register_library"})
FfiMoveLibrary ==
  Via(<<"slot", "gate", "id", "lenient", "session", "body", "act">>, map_library_err,
      {"move_library"})
FfiListLibraries == Via(<<"slot", "gate", "session", "act">>, map_library_err,
                        {"list_libraries"})
FfiLibrary == Via(<<"slot", "gate", "id", "session", "act">>, map_library_err,
                  {"browse_library", "remove_library"})

Ffi ==
  Joined({FfiStart, FfiRefresh, FfiEditMetadata, FfiListFiles, FfiReads,
          FfiPlayback, FfiEdits, FfiDeletes, FfiPurges, FfiCreateCollection,
          FfiRenameCollection, FfiDeleteCollection, FfiAddItems, FfiItems,
          FfiListCollections, FfiCreateBookmark, FfiUpdateBookmark,
          FfiListBookmarks, FfiBookmarkLifecycle, FfiCreateWatchlist,
          FfiAddVideo, FfiListWatchlists, FfiWatchProgress,
          FfiRemoveFromWatchlists, FfiCreateReadingList, FfiAddReadingItem,
          FfiListReadingLists, FfiReadingProgress, FfiRemoveFromReadingLists,
          FfiLogin, FfiWindowsLogin, FfiSetCredentials, FfiRegister,
          FfiAccount, FfiRedeem, FfiRegenerate, FfiSettings, FfiRunReads,
          FfiRunStops, FfiResume, FfiActiveRuns, FfiRegisterLibrary,
          FfiMoveLibrary, FfiListLibraries, FfiLibrary})

----------------------------------------------------------------------------
(* The routes. Everything under /v1 but the auth routes is behind          *)
(* require_auth, a layer ahead of every extractor; extractors are taken as *)
(* Results, so a route refuses its path first and its query or body next.  *)

Route(gates, ops) == [op \in ops |-> [gates |-> gates, names |-> Errors]]

HttpIndex == Route(<<"bearer", "body", "session", "act">>, {"index"})
HttpRefresh == Route(<<"bearer", "session", "act">>, {"refresh"})
HttpRunReads == Route(<<"bearer", "id", "session", "act">>, {"run_status", "run_failures"})
HttpRunStops == Route(<<"bearer", "id", "session", "act">>, {"pause_run", "cancel_run"})
HttpResume == Route(<<"bearer", "id", "session", "act">>, {"resume_run"})
HttpActiveRuns == Route(<<"bearer", "query", "session", "act">>, {"active_runs"})
HttpSettings == Route(<<"bearer", "session", "act">>, {"settings"})
HttpBrowse ==
  Joined({Route(<<"bearer", "body", "session", "act">>, {"list_files"}),
          Route(<<"bearer", "id", "session", "act">>, {"get_file"})})
HttpContent ==
  Joined({Route(<<"bearer", "id", "session", "act">>, {"read_content"}),
          Route(<<"bearer", "id", "body", "session", "act">>,
            {"edit_content"})})
HttpStream == Route(<<"bearer", "id", "session", "act", "serve">>, {"playback_source"})
\* the number of a page is a segment of the path here, an integer of C there
HttpArtwork ==
  Joined({Route(<<"bearer", "id", "query", "session", "act">>, {"comic_page"}),
          Route(<<"bearer", "id", "session", "act">>, {"thumbnail"})})
HttpRename == Route(<<"bearer", "id", "body", "session", "act">>, {"rename"})
HttpEditMetadata == Route(<<"bearer", "id", "body", "session", "act">>, {"edit_metadata"})
HttpRestore == Route(<<"bearer", "id", "session", "act">>, {"restore"})

\* one route for three operations, chosen by two flags that exclude each other
HttpDelete == Route(<<"bearer", "id", "query", "session", "act">>,
                    {"soft_delete", "purge", "purge_on_disk"})

HttpCollections ==
  Joined({Route(<<"bearer", "body", "session", "act">>,
            {"list_collections", "create_collection"}),
          Route(<<"bearer", "id", "body", "session", "act">>,
            {"rename_collection"})})
HttpCollectionItems ==
  Joined({Route(<<"bearer", "id", "session", "act">>,
            {"delete_collection", "remove_collection_item", "list_items"}),
          Route(<<"bearer", "id", "body", "session", "act">>, {"add_items"})})
HttpBookmarks ==
  Joined({Route(<<"bearer", "body", "session", "act">>,
            {"create_bookmark", "list_bookmarks"}),
          Route(<<"bearer", "id", "body", "session", "act">>,
            {"update_bookmark"})})
HttpBookmarkLifecycle ==
  Joined({Route(<<"bearer", "id", "query", "session", "act">>,
            {"soft_delete_bookmark", "purge_bookmark"}),
          Route(<<"bearer", "id", "session", "act">>, {"restore_bookmark"})})
HttpWatchlists ==
  Joined({Route(<<"bearer", "body", "session", "act">>,
            {"create_watchlist", "list_watchlists"}),
          Route(<<"bearer", "id", "body", "session", "act">>, {"add_video"})})
HttpWatchProgress ==
  Joined({Route(<<"bearer", "id", "body", "session", "act">>,
            {"update_watch_progress"}),
          Route(<<"bearer", "id", "session", "act">>,
            {"remove_video", "delete_watchlist"})})
HttpReadingLists ==
  Joined({Route(<<"bearer", "body", "session", "act">>,
            {"create_reading_list", "list_reading_lists"}),
          Route(<<"bearer", "id", "body", "session", "act">>,
            {"add_reading_item"})})
HttpReadingProgress ==
  Joined({Route(<<"bearer", "id", "body", "session", "act">>,
            {"update_reading_progress"}),
          Route(<<"bearer", "id", "session", "act">>,
            {"remove_reading_item", "delete_reading_list"})})
HttpLibraries ==
  Joined({Route(<<"bearer", "body", "session", "act">>, {"register_library"}),
          Route(<<"bearer", "session", "act">>, {"list_libraries"}),
          Route(<<"bearer", "id", "query", "session", "act">>,
            {"browse_library"}),
          Route(<<"bearer", "id", "body", "session", "act">>,
            {"move_library"}),
          Route(<<"bearer", "id", "session", "act">>, {"remove_library"})})
HttpLogin ==
  Joined({Route(<<"body", "act">>, {"login"}),
          Route(<<"act">>, {"windows_login"}),
          Route(<<"body", "mode", "session", "act">>, {"set_credentials"})})
HttpAccount ==
  Joined({Route(<<"body", "act">>, {"register", "redeem"}),
          Route(<<"mode", "session", "act">>, {"account"}),
          Route(<<"session", "mode", "act">>, {"regenerate"})})

Http ==
  Joined({HttpIndex, HttpRefresh, HttpRunReads, HttpRunStops, HttpResume,
          HttpActiveRuns, HttpSettings, HttpBrowse, HttpContent, HttpStream,
          HttpArtwork, HttpRename, HttpEditMetadata, HttpRestore, HttpDelete,
          HttpCollections, HttpCollectionItems, HttpBookmarks,
          HttpBookmarkLifecycle, HttpWatchlists, HttpWatchProgress,
          HttpReadingLists, HttpReadingProgress, HttpLibraries, HttpLogin,
          HttpAccount})

Surface == [ffi |-> Ffi, http |-> Http]
AllOperations == DOMAIN Ffi

ASSUME SurfacesAssumption == Operations \subseteq AllOperations

----------------------------------------------------------------------------
(* What the handlers return, besides Ok and a database error.              *)

AuthOps == {"login", "windows_login", "set_credentials", "register", "account",
            "redeem", "regenerate"}

\* Each handler's own errors; a row that does not parse is as good as a
\* database error, to both surfaces.
Raising(errors, ops) == [op \in ops |-> errors \cup {"Database"}]

IndexRaises == Raising({"InvalidInput"}, {"index"})
RefreshRaises == Raising({}, {"refresh"})
RunStatusRaises == Raising({"NotFound"}, {"run_status", "run_failures"})
RunControlRaises == Raising({"NotFound", "InvalidState"}, {"pause_run", "cancel_run"})
ResumeRaises == Raising({"NotFound", "InvalidState"}, {"resume_run"})
ActiveRunsRaises == Raising({}, {"active_runs"})
SettingsRaises == Raising({}, {"settings"})

BrowseRaises ==
  Joined({Raising({}, {"list_files"}),
          Raising({"NotFound"}, {"get_file"})})
ReadContentRaises == Raising({"NotFound", "InvalidState", "InvalidInput", "Disk"}, {"read_content"})
EditContentRaises ==
  Raising({"NotFound", "InvalidState", "InvalidInput", "Disk", "Integrity"}, {"edit_content"})
EditMetadataRaises == Raising({"NotFound", "InvalidState", "InvalidInput"}, {"edit_metadata"})
RenameRaises == Raising({"NotFound", "InvalidState", "InvalidInput", "Disk"}, {"rename"})
SoftDeleteRaises == Raising({"NotFound", "InvalidState"}, {"soft_delete"})
RestoreRaises == Raising({"NotFound", "InvalidState"}, {"restore"})
PurgeRaises == Raising({"NotFound", "InvalidState"}, {"purge"})
PurgeOnDiskRaises == Raising({"NotFound", "InvalidInput", "Disk"}, {"purge_on_disk"})

\* what resolve_playable refuses, and the handler behind it
NotPlayable == {"NotFound", "InvalidState", "InvalidInput", "Disk"}
PlaybackSourceRaises == Raising(NotPlayable, {"playback_source"})
ComicPageRaises == Raising(NotPlayable, {"comic_page"})
ThumbnailRaises == Raising(NotPlayable, {"thumbnail"})

CollectionsRaise ==
  Joined({Raising({"InvalidInput"}, {"create_collection"}),
          Raising({"NotFound", "InvalidInput"}, {"rename_collection"}),
          Raising({"NotFound"},
             {"delete_collection", "remove_collection_item", "list_items"})})
AddItemsRaises == Raising({"NotFound"}, {"add_items"})
ListCollectionsRaises == Raising({}, {"list_collections"})
CreateBookmarkRaises == Raising({"NotFound", "InvalidInput"}, {"create_bookmark"})
UpdateBookmarkRaises ==
  Raising({"NotFound", "InvalidState", "InvalidInput"}, {"update_bookmark"})
ListBookmarksRaises == Raising({"NotFound"}, {"list_bookmarks"})
BookmarkLifecycleRaises ==
  Raising({"NotFound", "InvalidState"},
          {"soft_delete_bookmark", "restore_bookmark", "purge_bookmark"})
WatchlistsRaise ==
  Joined({Raising({"InvalidInput"}, {"create_watchlist"}),
          Raising({"NotFound", "InvalidInput"}, {"add_video"}),
          Raising({"NotFound"},
             {"list_watchlists", "remove_video", "delete_watchlist"})})
WatchProgressRaises == Raising({"NotFound", "InvalidState"}, {"update_watch_progress"})
ReadingListsRaise ==
  Joined({Raising({"InvalidInput"}, {"create_reading_list"}),
          Raising({"NotFound", "InvalidInput"}, {"add_reading_item"}),
          Raising({"NotFound"},
             {"list_reading_lists", "remove_reading_item", "delete_reading_list"})})
ReadingProgressRaises == Raising({"NotFound", "InvalidState"}, {"update_reading_progress"})

RegisterLibraryRaises == Raising({"InvalidInput", "Conflict", "Disk"}, {"register_library"})
MoveLibraryRaises ==
  Raising({"NotFound", "InvalidInput", "Conflict", "Disk"}, {"move_library"})
LibraryReadsRaise ==
  Joined({Raising({"Disk"}, {"list_libraries"}),
          Raising({"NotFound", "Disk"}, {"browse_library"})})
RemoveLibraryRaises == Raising({"NotFound", "Disk"}, {"remove_library"})

LoginRaises == Raising({"Unauthorized", "Config"}, {"login"})
WindowsLoginRaises == Raising({"Conflict"}, {"windows_login"})
SetCredentialsRaises == Raising({"Rejected"}, {"set_credentials"})
RegisterRaises == Raising({"Conflict", "Rejected"}, {"register"})
AccountRaises == Raising({"Config"}, {"account"})
RedeemRaises == Raising({"Conflict", "NotFound", "Rejected"}, {"redeem"})
RegenerateRaises == Raising({"NotFound"}, {"regenerate"})

Raises ==
  Joined({IndexRaises, RefreshRaises, RunStatusRaises, RunControlRaises,
          ResumeRaises, ActiveRunsRaises, SettingsRaises, BrowseRaises,
          ReadContentRaises, EditContentRaises, EditMetadataRaises,
          RenameRaises, SoftDeleteRaises, RestoreRaises, PurgeRaises,
          PurgeOnDiskRaises, PlaybackSourceRaises, ComicPageRaises,
          ThumbnailRaises, CollectionsRaise, AddItemsRaises,
          ListCollectionsRaises, CreateBookmarkRaises, UpdateBookmarkRaises,
          ListBookmarksRaises, BookmarkLifecycleRaises, WatchlistsRaise,
          WatchProgressRaises, ReadingListsRaise, ReadingProgressRaises,
          RegisterLibraryRaises, MoveLibraryRaises, LibraryReadsRaise,
          RemoveLibraryRaises, LoginRaises, WindowsLoginRaises,
          SetCredentialsRaises, RegisterRaises, AccountRaises, RedeemRaises,
          RegenerateRaises})

\* what a call may meet in the catalog, a panic and a vanishing file included
Outcomes(op) ==
  Raises[op] \cup {"Ok", "panic"}
  \cup {o \in {"other_mode"} : \E i \in 1..Len(Http[op].gates) : Http[op].gates[i] = "mode"}
  \cup {o \in {"vanished"} : op = "playback_source"}

----------------------------------------------------------------------------
(* What can be wrong with the arguments of a call, and who minds.          *)

Faults == {"none", "id", "padding", "body", "loose", "query", "ffi_form", "http_form"}

\* what a surface refuses in a body the other one takes
OwnForm == [ffi |-> "ffi_form", http |-> "http_form"]

RefusedAt(s, gate) ==
  CASE gate = "id" -> {"id", "padding"}
    [] gate = "trimmed" -> {"id"}
    [] gate = "body" -> {"body", "loose", OwnForm[s]}
    [] gate = "lenient" -> {"body", OwnForm[s]}
    [] gate = "query" -> {"query"}
    [] OTHER -> {}

\* the faults the arguments of an operation can have
FaultsOf(op) ==
  {fault \in Faults :
     \/ fault = "none"
     \/ \E s \in {"ffi", "http"} : \E i \in 1..Len(Surface[s][op].gates) :
          fault \in RefusedAt(s, Surface[s][op].gates[i])}

----------------------------------------------------------------------------
(* One call, on both surfaces.                                             *)

Unanswered == "unanswered"
Before == [at |-> 1, answer |-> Unanswered, admitted |-> FALSE]

SurfaceTypeOK ==
  /\ ready \in BOOLEAN /\ disturbed \in BOOLEAN
  /\ session \in {"live", "over"} /\ authStore \in {"up", "down"}
  /\ asked.op \in Operations /\ asked.fault \in Faults
  /\ asked.outcome \in Outcomes(asked.op)
  /\ side \in [{"ffi", "http"} -> [at : 1..8, answer : Classes \cup {Unanswered},
                                   admitted : BOOLEAN]]

SurfaceInit ==
  /\ ready \in BOOLEAN
  /\ session \in {"live", "over"} /\ authStore \in {"up", "down"}
  /\ \E op \in Operations : \E fault \in FaultsOf(op), outcome \in Outcomes(op) :
       asked = [op |-> op, fault |-> fault, outcome |-> outcome]
  /\ side = [s \in {"ffi", "http"} |-> Before]
  /\ disturbed = FALSE

Entry(s) == Surface[s][asked.op]
Gate(s) == Entry(s).gates[side[s].at]
Pending(s) == side[s].answer = Unanswered

\* the class of an error the handler returned
Translated(s, err) ==
  IF err \in Entry(s).names THEN ErrorClass(err) ELSE "Internal"

Authenticates == session = "live" /\ authStore = "up"

\* authenticated: any error of authenticate is a refusal
authenticated == IF Authenticates THEN "open" ELSE "Unauthorized"

\* require_auth: the error of authenticate is the answer
require_auth ==
  IF Authenticates THEN "open"
  ELSE ErrorClass(IF authStore = "down" THEN "Database" ELSE "Unauthorized")

Parses(s, gate) == IF asked.fault \in RefusedAt(s, gate) THEN "BadRequest" ELSE "open"

\* what the handler does; a panic is caught by ffi_guard and nowhere else
Acts(s) ==
  CASE asked.outcome \in {"Ok", "vanished", "other_mode"} -> "Ok"
    [] asked.outcome = "panic" -> IF s = "ffi" THEN "Internal" ELSE "Dropped"
    [] OTHER -> Translated(s, asked.outcome)

\* finish_stream: the file went after it was resolved
Serves == IF asked.outcome = "vanished" THEN ErrorClass("Disk") ELSE "open"

\* AuthMode is not Local: the answer of the three handlers that check it so
OtherMode == IF asked.op = "set_credentials" THEN "InvalidState" ELSE "Conflict"

Answer(s, gate) ==
  CASE gate = "slot" -> IF ready THEN "open" ELSE "NotInitialized"
    [] gate = "gate" -> authenticated
    [] gate = "bearer" -> require_auth
    [] gate \in {"id", "trimmed", "body", "lenient", "query"} -> Parses(s, gate)
    [] gate = "session" ->
         IF Authenticates THEN "open"
         ELSE Translated(s, IF authStore = "down" THEN "Database" ELSE "Unauthorized")
    [] gate = "mode" -> IF asked.outcome = "other_mode" THEN Translated(s, OtherMode)
                        ELSE "open"
    [] gate = "act" -> Acts(s)
    [] gate = "serve" -> Serves

AtLastGate(s) == side[s].at = Len(Entry(s).gates)

Pass(s) ==
  /\ Pending(s) /\ ~ AtLastGate(s)
  /\ Answer(s, Gate(s)) \in {"open", "Ok"}
  /\ side' = [side EXCEPT ![s].at = @ + 1,
       ![s].admitted = @ \/ Gate(s) \in {"gate", "bearer", "session"}]
  /\ UNCHANGED environment

Reply(s) ==
  /\ Pending(s)
  /\ AtLastGate(s) \/ Answer(s, Gate(s)) \notin {"open", "Ok"}
  /\ side' = [side EXCEPT ![s].answer =
       IF Answer(s, Gate(s)) = "open" THEN "Ok" ELSE Answer(s, Gate(s))]
  /\ UNCHANGED environment

----------------------------------------------------------------------------
(* What may happen between two gates. BOUND: one change beside the end of  *)
(* the session.                                                            *)

SessionEnds ==
  /\ session = "live" /\ session' = "over"
  /\ disturbed' = TRUE
  /\ UNCHANGED <<ready, authStore, asked, side>>

StoreFlips ==
  /\ ~ disturbed
  /\ authStore' = IF authStore = "up" THEN "down" ELSE "up"
  /\ disturbed' = TRUE
  /\ UNCHANGED <<ready, session, asked, side>>

CatalogChanges ==
  /\ ~ disturbed
  /\ \E outcome \in Outcomes(asked.op) : asked' = [asked EXCEPT !.outcome = outcome]
  /\ disturbed' = TRUE
  /\ UNCHANGED <<ready, session, authStore, side>>

\* alexandria_index_init succeeds (an initialised slot never empties again)
Initialises ==
  /\ ~ ready /\ ~ disturbed /\ ready' = TRUE
  /\ disturbed' = TRUE
  /\ UNCHANGED <<session, authStore, asked, side>>

SurfaceNext ==
  \/ \E s \in {"ffi", "http"} : Pass(s) \/ Reply(s)
  \/ SessionEnds \/ StoreFlips \/ CatalogChanges \/ Initialises

SurfaceSpec == SurfaceInit /\ [][SurfaceNext]_surfaceVars

----------------------------------------------------------------------------
(* Properties.                                                             *)

\* Whose optional fields the FFI reads with as_str or as_i64, so that one of
\* the wrong type is dropped where the route's typed field answers 400: the
\* numbers of the two progress updates, which are cleared and stored so, and
\* the filters of the five listings, which then list more.
DropsWrongTypes ==
  {"update_watch_progress", "update_reading_progress", "list_files",
   "list_collections", "list_bookmarks", "list_watchlists", "list_reading_lists"}

\* A call differs by surface only so: the FFI was not initialised; the query
\* behind authenticate failed, a refusal to the FFI's gate and an error to
\* require_auth; the handler panicked; the fault is in an argument only one
\* surface has, in a form only one of them refuses, or in an optional field
\* the FFI drops; a stream's file vanished; or a recovery operation found no
\* account, which map_auth_err does not name.
KnownDifference ==
  \/ ~ ready
  \/ authStore = "down" /\ Ffi[asked.op].gates[2] = "gate"
  \/ asked.outcome \in {"panic", "vanished"}
  \/ asked.fault \in {"query", "ffi_form", "http_form"}
  \/ asked.fault = "loose" /\ asked.op \in DropsWrongTypes
  \/ asked.fault = "padding" /\ asked.op \in {"run_status", "run_failures",
                                             "pause_run", "cancel_run", "resume_run"}
  \/ asked.op \in {"redeem", "regenerate"} /\ asked.outcome = "NotFound"

\* The same call with the same state gets an answer of the same class on both
\* surfaces, whichever gate refuses it, but for the differences named above:
\* both are promised one error envelope (errors.rs:210) and parity (NFR-09, as
\* catalog/model.rs:212 has it).
SurfacesAgree ==
  ~ Pending("ffi") /\ ~ Pending("http") /\ ~ disturbed /\ ~ KnownDifference =>
    side["ffi"].answer = side["http"].answer

\* "an unauthenticated caller must not learn whether its uuid or body would
\* have parsed" (lib.rs), nor what the catalog holds: a call that never got
\* past an authentication is told nothing else, whenever its session ended.
UnauthenticatedLearnsNothing ==
  \A s \in {"ffi", "http"} :
    side[s].answer \in {"Ok", "NotFound", "BadRequest", "Conflict"} =>
      side[s].admitted \/ asked.op \in AuthOps
=============================================================================

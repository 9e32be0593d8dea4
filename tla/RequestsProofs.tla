--------------------------- MODULE RequestsProofs ---------------------------
(***************************************************************************)
(* What is proved of a call on both surfaces, and the types of the five    *)
(* parts of MCRequests together.                                           *)
(***************************************************************************)
EXTENDS MCRequests, LocalAuthProofs, LibrariesProofs, RunClockProofs

(***************************************************************************)
(* The tables of the two surfaces, row by row.                             *)
(***************************************************************************)

AuthGates == {"gate", "bearer", "session"}
IdGates == {"id", "trimmed"}
BodyGates == {"body", "lenient"}
Gates == AuthGates \cup IdGates \cup BodyGates \cup {"slot", "query", "mode", "act", "serve"}

Kinds(gates) == {gates[i] : i \in 1..Len(gates)}
Has(gates, kinds) == Kinds(gates) \cap kinds # {}

(* The operations that take an id, those that take a body, and those whose *)
(* id is trimmed before it is parsed.                                      *)
IdOps == {"edit_metadata", "get_file", "read_content", "playback_source", "comic_page",
          "thumbnail", "edit_content", "rename", "soft_delete", "restore", "purge",
          "purge_on_disk", "rename_collection", "delete_collection", "add_items",
          "remove_collection_item", "list_items", "update_bookmark", "soft_delete_bookmark",
          "restore_bookmark", "purge_bookmark", "add_video", "update_watch_progress",
          "remove_video", "delete_watchlist", "add_reading_item", "update_reading_progress",
          "remove_reading_item", "delete_reading_list", "run_status", "run_failures",
          "pause_run", "cancel_run", "resume_run", "move_library", "browse_library",
          "remove_library"}
BodyOps == {"index", "edit_metadata", "list_files", "edit_content", "rename",
            "create_collection", "rename_collection", "add_items", "list_collections",
            "create_bookmark", "update_bookmark", "list_bookmarks", "create_watchlist",
            "add_video", "list_watchlists", "update_watch_progress", "create_reading_list",
            "add_reading_item", "list_reading_lists", "update_reading_progress",
            "register_library", "move_library"}
TrimmedOps == {"run_status", "run_failures", "pause_run", "cancel_run", "resume_run"}
LibraryOps == {"register_library", "move_library", "list_libraries", "browse_library",
               "remove_library"}
BareOps == {"refresh", "settings"}

(* The operations there are.                                               *)
Everything ==
   {"index", "refresh", "edit_metadata", "list_files", "get_file", "read_content",
    "playback_source", "comic_page", "thumbnail", "edit_content", "rename",
    "soft_delete", "restore", "purge", "purge_on_disk", "create_collection",
    "rename_collection", "delete_collection", "add_items", "remove_collection_item",
    "list_items", "list_collections", "create_bookmark", "update_bookmark",
    "list_bookmarks", "soft_delete_bookmark", "restore_bookmark", "purge_bookmark",
    "create_watchlist", "add_video", "list_watchlists", "update_watch_progress",
    "remove_video", "delete_watchlist", "create_reading_list", "add_reading_item",
    "list_reading_lists", "update_reading_progress", "remove_reading_item",
    "delete_reading_list", "login", "windows_login", "set_credentials", "register",
    "account", "redeem", "regenerate", "settings", "run_status", "run_failures",
    "pause_run", "cancel_run", "resume_run", "active_runs", "register_library",
    "move_library", "list_libraries", "browse_library", "remove_library"}

(* The errors an operation has names for on both surfaces.                 *)
Tells(op, err) ==
    \/ err = "Unauthorized"
    \/ err = "NotFound" /\ op \notin {"index"} \cup BareOps \cup AuthOps
    \/ err = "InvalidInput" /\ op \notin BareOps
    \/ err = "InvalidState" /\ op \notin {"index"} \cup BareOps \cup LibraryOps
    \/ err = "Conflict" /\ op \in AuthOps \cup LibraryOps
    \/ err = "Rejected" /\ op \in AuthOps

(* A way is a sequence of gates whose last step acts; nothing but the slot *)
(* is asked ahead of an authentication.                                    *)
Shaped(gates) ==
    /\ Len(gates) \in Nat /\ 1 <= Len(gates) /\ Len(gates) <= 7
    /\ Kinds(gates) \subseteq Gates

Guarded(gates) ==
    /\ \A i \in 1..Len(gates) :
          gates[i] \notin AuthGates \cup {"slot"} =>
              \E j \in 1..(i - 1) : gates[j] \in AuthGates
    /\ \A i \in 1..Len(gates) : gates[i] \in {"act", "serve"} =>
              \/ i = Len(gates)
              \/ gates[i] = "act" /\ i + 1 = Len(gates) /\ gates[i + 1] = "serve"
    /\ \A i \in 1..Len(gates) : gates[i] = "serve" => i > 1 /\ gates[i - 1] = "act"
    /\ gates[Len(gates)] \in {"act", "serve"}

Arguments(op, gates) ==
    /\ Has(gates, IdGates) <=> op \in IdOps
    /\ Has(gates, BodyGates) <=> op \in BodyOps
    /\ op \in BodyOps \ DropsWrongTypes => Has(gates, {"body"})
    /\ Has(gates, {"trimmed"}) => op \in TrimmedOps

(* The operations on accounts are asked the same on both surfaces, but for *)
(* the slot.                                                               *)
AuthWay(op) ==
    IF op \in {"login", "register", "redeem"} THEN <<"body", "act">>
    ELSE IF op = "windows_login" THEN <<"act">>
    ELSE IF op = "set_credentials" THEN <<"body", "mode", "session", "act">>
    ELSE IF op = "account" THEN <<"mode", "session", "act">>
    ELSE <<"session", "mode", "act">>

FfiWay(op, gates) ==
    /\ Shaped(gates) /\ gates[1] = "slot"
    /\ op \notin AuthOps =>
         /\ Guarded(gates) /\ Arguments(op, gates)
         /\ ~ Has(gates, {"bearer", "mode", "query", "serve"})
         /\ Has(gates, {"gate"}) => gates[2] = "gate"
    /\ op \in AuthOps =>
         /\ Len(gates) = Len(AuthWay(op)) + 1
         /\ \A i \in 1..Len(AuthWay(op)) : gates[i + 1] = AuthWay(op)[i]

FfiNames(op, names) ==
    /\ "Database" \notin names
    /\ \A err \in Errors : Tells(op, err) => err \in names

HttpWay(op, gates) ==
    /\ Shaped(gates)
    /\ op \notin AuthOps =>
         /\ Guarded(gates) /\ Arguments(op, gates)
         /\ ~ Has(gates, {"slot", "gate", "mode", "trimmed"})
    /\ op \in AuthOps =>
         gates = AuthWay(op) /\ Kinds(gates) \subseteq {"body", "mode", "session", "act"}

FfiRows(part) ==
    \A op \in DOMAIN part :
        op \in Everything /\ FfiWay(op, part[op].gates) /\ FfiNames(op, part[op].names)

HttpRows(part) ==
    \A op \in DOMAIN part : HttpWay(op, part[op].gates) /\ part[op].names = Errors

(* What a handler raises is named by both surfaces or an error inside, but *)
(* for the account that is not found.                                      *)
RaiseRows(part) ==
    \A op \in DOMAIN part : \A err \in part[op] :
        /\ err \in Errors
        /\ \/ Tells(op, err)
           \/ err \in {"Disk", "Integrity", "Database", "Config", "Internal"}
           \/ err = "NotFound" /\ op \in {"redeem", "regenerate"}

LEMMA ViaRows ==
  ASSUME NEW gates, NEW names, NEW ops, ops \subseteq Everything,
         \A op \in ops : FfiWay(op, gates) /\ FfiNames(op, names)
  PROVE  FfiRows(Via(gates, names, ops))
  BY DEF FfiRows, Via

LEMMA RouteRows ==
  ASSUME NEW gates, NEW ops, \A op \in ops : HttpWay(op, gates)
  PROVE  HttpRows(Route(gates, ops))
  BY DEF HttpRows, Route

LEMMA RaisingRows ==
  ASSUME NEW errors, NEW ops,
         \A op \in ops : \A err \in errors :
            /\ err \in Errors
            /\ \/ Tells(op, err)
               \/ err \in {"Disk", "Integrity", "Database", "Config", "Internal"}
               \/ err = "NotFound" /\ op \in {"redeem", "regenerate"}
  PROVE  RaiseRows(Raising(errors, ops))
  BY DEF RaiseRows, Raising, Errors

(* A row of tables put together is a row of one of them.                   *)
LEMMA JoinedRow ==
  ASSUME NEW parts, NEW op \in DOMAIN Joined(parts)
  PROVE  \E part \in parts : op \in DOMAIN part /\ Joined(parts)[op] = part[op]
  <1> DEFINE own == CHOOSE part \in parts : op \in DOMAIN part
  <1>1. \E part \in parts : op \in DOMAIN part
    BY DEF Joined
  <1>2. own \in parts /\ op \in DOMAIN own
    BY <1>1
  <1>3. Joined(parts)[op] = own[op]
    BY DEF Joined
  <1> QED
    BY <1>2, <1>3

LEMMA JoinedRows ==
  ASSUME NEW parts
  PROVE  /\ (\A part \in parts : FfiRows(part)) => FfiRows(Joined(parts))
         /\ (\A part \in parts : HttpRows(part)) => HttpRows(Joined(parts))
         /\ (\A part \in parts : RaiseRows(part)) => RaiseRows(Joined(parts))
  BY JoinedRow DEF FfiRows, HttpRows, RaiseRows

(* The ways there are, and the operations they suit.                       *)
LEMMA FfiNeither ==
  ASSUME NEW op, op \notin AuthOps, op \notin IdOps, op \notin BodyOps
  PROVE  FfiWay(op, <<"slot", "session", "act">>)
  <1> DEFINE g == <<"slot", "session", "act">>
  <1>1. /\ Len(g) = 3 /\ g[1] = "slot" /\ g[2] = "session" /\ g[3] = "act"
    OBVIOUS
  <1> HIDE DEF g
  <1>2. Kinds(g) = {"slot", "session", "act"}
    BY <1>1 DEF Kinds
  <1>3. Shaped(g)
    BY <1>1, <1>2 DEF Shaped, Gates, AuthGates, IdGates, BodyGates
  <1>4. Guarded(g)
    BY <1>1 DEF Guarded, AuthGates
  <1>5. Arguments(op, g) /\ ~ Has(g, {"bearer", "mode", "query", "serve"})
    BY <1>2 DEF Arguments, Has, IdGates, BodyGates, TrimmedOps
  <1>6. Has(g, {"gate"}) => g[2] = "gate"
    BY <1>1, <1>2 DEF Has
  <1> QED
    BY <1>1, <1>3, <1>4, <1>5, <1>6 DEF FfiWay, g

LEMMA FfiGate ==
  ASSUME NEW op, op \notin AuthOps, op \notin IdOps, op \notin BodyOps
  PROVE  FfiWay(op, <<"slot", "gate", "session", "act">>)
  <1> DEFINE g == <<"slot", "gate", "session", "act">>
  <1>1. /\ Len(g) = 4 /\ g[1] = "slot" /\ g[2] = "gate" /\ g[3] = "session"
        /\ g[4] = "act"
    OBVIOUS
  <1> HIDE DEF g
  <1>2. Kinds(g) = {"slot", "gate", "session", "act"}
    BY <1>1 DEF Kinds
  <1>3. Shaped(g)
    BY <1>1, <1>2 DEF Shaped, Gates, AuthGates, IdGates, BodyGates
  <1>4. Guarded(g)
    BY <1>1 DEF Guarded, AuthGates
  <1>5. Arguments(op, g) /\ ~ Has(g, {"bearer", "mode", "query", "serve"})
    BY <1>2 DEF Arguments, Has, IdGates, BodyGates, TrimmedOps
  <1>6. Has(g, {"gate"}) => g[2] = "gate"
    BY <1>1, <1>2 DEF Has
  <1> QED
    BY <1>1, <1>3, <1>4, <1>5, <1>6 DEF FfiWay, g

LEMMA FfiBody ==
  ASSUME NEW op, op \notin AuthOps, op \notin IdOps, op \in BodyOps
  PROVE  FfiWay(op, <<"slot", "gate", "body", "session", "act">>)
  <1> DEFINE g == <<"slot", "gate", "body", "session", "act">>
  <1>1. /\ Len(g) = 5 /\ g[1] = "slot" /\ g[2] = "gate" /\ g[3] = "body"
        /\ g[4] = "session" /\ g[5] = "act"
    OBVIOUS
  <1> HIDE DEF g
  <1>2. Kinds(g) = {"slot", "gate", "body", "session", "act"}
    BY <1>1 DEF Kinds
  <1>3. Shaped(g)
    BY <1>1, <1>2 DEF Shaped, Gates, AuthGates, IdGates, BodyGates
  <1>4. Guarded(g)
    BY <1>1 DEF Guarded, AuthGates
  <1>5. Arguments(op, g) /\ ~ Has(g, {"bearer", "mode", "query", "serve"})
    BY <1>2 DEF Arguments, Has, IdGates, BodyGates, TrimmedOps
  <1>6. Has(g, {"gate"}) => g[2] = "gate"
    BY <1>1, <1>2 DEF Has
  <1> QED
    BY <1>1, <1>3, <1>4, <1>5, <1>6 DEF FfiWay, g

LEMMA FfiId ==
  ASSUME NEW op, op \notin AuthOps, op \in IdOps, op \notin BodyOps
  PROVE  FfiWay(op, <<"slot", "gate", "id", "session", "act">>)
  <1> DEFINE g == <<"slot", "gate", "id", "session", "act">>
  <1>1. /\ Len(g) = 5 /\ g[1] = "slot" /\ g[2] = "gate" /\ g[3] = "id"
        /\ g[4] = "session" /\ g[5] = "act"
    OBVIOUS
  <1> HIDE DEF g
  <1>2. Kinds(g) = {"slot", "gate", "id", "session", "act"}
    BY <1>1 DEF Kinds
  <1>3. Shaped(g)
    BY <1>1, <1>2 DEF Shaped, Gates, AuthGates, IdGates, BodyGates
  <1>4. Guarded(g)
    BY <1>1 DEF Guarded, AuthGates
  <1>5. Arguments(op, g) /\ ~ Has(g, {"bearer", "mode", "query", "serve"})
    BY <1>2 DEF Arguments, Has, IdGates, BodyGates, TrimmedOps
  <1>6. Has(g, {"gate"}) => g[2] = "gate"
    BY <1>1, <1>2 DEF Has
  <1> QED
    BY <1>1, <1>3, <1>4, <1>5, <1>6 DEF FfiWay, g

LEMMA FfiTrimmed ==
  ASSUME NEW op, op \notin AuthOps, op \in IdOps, op \notin BodyOps, op \in TrimmedOps
  PROVE  FfiWay(op, <<"slot", "gate", "trimmed", "session", "act">>)
  <1> DEFINE g == <<"slot", "gate", "trimmed", "session", "act">>
  <1>1. /\ Len(g) = 5 /\ g[1] = "slot" /\ g[2] = "gate" /\ g[3] = "trimmed"
        /\ g[4] = "session" /\ g[5] = "act"
    OBVIOUS
  <1> HIDE DEF g
  <1>2. Kinds(g) = {"slot", "gate", "trimmed", "session", "act"}
    BY <1>1 DEF Kinds
  <1>3. Shaped(g)
    BY <1>1, <1>2 DEF Shaped, Gates, AuthGates, IdGates, BodyGates
  <1>4. Guarded(g)
    BY <1>1 DEF Guarded, AuthGates
  <1>5. Arguments(op, g) /\ ~ Has(g, {"bearer", "mode", "query", "serve"})
    BY <1>2 DEF Arguments, Has, IdGates, BodyGates, TrimmedOps
  <1>6. Has(g, {"gate"}) => g[2] = "gate"
    BY <1>1, <1>2 DEF Has
  <1> QED
    BY <1>1, <1>3, <1>4, <1>5, <1>6 DEF FfiWay, g

LEMMA FfiIdBody ==
  ASSUME NEW op, op \notin AuthOps, op \in IdOps, op \in BodyOps
  PROVE  FfiWay(op, <<"slot", "gate", "id", "body", "session", "act">>)
  <1> DEFINE g == <<"slot", "gate", "id", "body", "session", "act">>
  <1>1. /\ Len(g) = 6 /\ g[1] = "slot" /\ g[2] = "gate" /\ g[3] = "id"
        /\ g[4] = "body" /\ g[5] = "session" /\ g[6] = "act"
    OBVIOUS
  <1> HIDE DEF g
  <1>2. Kinds(g) = {"slot", "gate", "id", "body", "session", "act"}
    BY <1>1 DEF Kinds
  <1>3. Shaped(g)
    BY <1>1, <1>2 DEF Shaped, Gates, AuthGates, IdGates, BodyGates
  <1>4. Guarded(g)
    BY <1>1 DEF Guarded, AuthGates
  <1>5. Arguments(op, g) /\ ~ Has(g, {"bearer", "mode", "query", "serve"})
    BY <1>2 DEF Arguments, Has, IdGates, BodyGates, TrimmedOps
  <1>6. Has(g, {"gate"}) => g[2] = "gate"
    BY <1>1, <1>2 DEF Has
  <1> QED
    BY <1>1, <1>3, <1>4, <1>5, <1>6 DEF FfiWay, g

LEMMA FfiLenient ==
  ASSUME NEW op, op \notin AuthOps, op \notin IdOps, op \in BodyOps, op \in DropsWrongTypes
  PROVE  FfiWay(op, <<"slot", "gate", "lenient", "session", "act">>)
  <1> DEFINE g == <<"slot", "gate", "lenient", "session", "act">>
  <1>1. /\ Len(g) = 5 /\ g[1] = "slot" /\ g[2] = "gate" /\ g[3] = "lenient"
        /\ g[4] = "session" /\ g[5] = "act"
    OBVIOUS
  <1> HIDE DEF g
  <1>2. Kinds(g) = {"slot", "gate", "lenient", "session", "act"}
    BY <1>1 DEF Kinds
  <1>3. Shaped(g)
    BY <1>1, <1>2 DEF Shaped, Gates, AuthGates, IdGates, BodyGates
  <1>4. Guarded(g)
    BY <1>1 DEF Guarded, AuthGates
  <1>5. Arguments(op, g) /\ ~ Has(g, {"bearer", "mode", "query", "serve"})
    BY <1>2 DEF Arguments, Has, IdGates, BodyGates, TrimmedOps
  <1>6. Has(g, {"gate"}) => g[2] = "gate"
    BY <1>1, <1>2 DEF Has
  <1> QED
    BY <1>1, <1>3, <1>4, <1>5, <1>6 DEF FfiWay, g

LEMMA FfiIdLenient ==
  ASSUME NEW op, op \notin AuthOps, op \in IdOps, op \in BodyOps, op \in DropsWrongTypes
  PROVE  FfiWay(op, <<"slot", "gate", "id", "lenient", "session", "act">>)
  <1> DEFINE g == <<"slot", "gate", "id", "lenient", "session", "act">>
  <1>1. /\ Len(g) = 6 /\ g[1] = "slot" /\ g[2] = "gate" /\ g[3] = "id"
        /\ g[4] = "lenient" /\ g[5] = "session" /\ g[6] = "act"
    OBVIOUS
  <1> HIDE DEF g
  <1>2. Kinds(g) = {"slot", "gate", "id", "lenient", "session", "act"}
    BY <1>1 DEF Kinds
  <1>3. Shaped(g)
    BY <1>1, <1>2 DEF Shaped, Gates, AuthGates, IdGates, BodyGates
  <1>4. Guarded(g)
    BY <1>1 DEF Guarded, AuthGates
  <1>5. Arguments(op, g) /\ ~ Has(g, {"bearer", "mode", "query", "serve"})
    BY <1>2 DEF Arguments, Has, IdGates, BodyGates, TrimmedOps
  <1>6. Has(g, {"gate"}) => g[2] = "gate"
    BY <1>1, <1>2 DEF Has
  <1> QED
    BY <1>1, <1>3, <1>4, <1>5, <1>6 DEF FfiWay, g

LEMMA FfiBlank ==
  ASSUME NEW op, op \notin AuthOps, op \notin IdOps, op \in BodyOps
  PROVE  FfiWay(op, <<"slot", "gate", "lenient", "session", "body", "act">>)
  <1> DEFINE g == <<"slot", "gate", "lenient", "session", "body", "act">>
  <1>1. /\ Len(g) = 6 /\ g[1] = "slot" /\ g[2] = "gate" /\ g[3] = "lenient"
        /\ g[4] = "session" /\ g[5] = "body" /\ g[6] = "act"
    OBVIOUS
  <1> HIDE DEF g
  <1>2. Kinds(g) = {"slot", "gate", "lenient", "session", "body", "act"}
    BY <1>1 DEF Kinds
  <1>3. Shaped(g)
    BY <1>1, <1>2 DEF Shaped, Gates, AuthGates, IdGates, BodyGates
  <1>4. Guarded(g)
    BY <1>1 DEF Guarded, AuthGates
  <1>5. Arguments(op, g) /\ ~ Has(g, {"bearer", "mode", "query", "serve"})
    BY <1>2 DEF Arguments, Has, IdGates, BodyGates, TrimmedOps
  <1>6. Has(g, {"gate"}) => g[2] = "gate"
    BY <1>1, <1>2 DEF Has
  <1> QED
    BY <1>1, <1>3, <1>4, <1>5, <1>6 DEF FfiWay, g

LEMMA FfiIdBlank ==
  ASSUME NEW op, op \notin AuthOps, op \in IdOps, op \in BodyOps
  PROVE  FfiWay(op, <<"slot", "gate", "id", "lenient", "session", "body", "act">>)
  <1> DEFINE g == <<"slot", "gate", "id", "lenient", "session", "body", "act">>
  <1>1. /\ Len(g) = 7 /\ g[1] = "slot" /\ g[2] = "gate" /\ g[3] = "id"
        /\ g[4] = "lenient" /\ g[5] = "session" /\ g[6] = "body" /\ g[7] = "act"
    OBVIOUS
  <1> HIDE DEF g
  <1>2. Kinds(g) = {"slot", "gate", "id", "lenient", "session", "body", "act"}
    BY <1>1 DEF Kinds
  <1>3. Shaped(g)
    BY <1>1, <1>2 DEF Shaped, Gates, AuthGates, IdGates, BodyGates
  <1>4. Guarded(g)
    BY <1>1 DEF Guarded, AuthGates
  <1>5. Arguments(op, g) /\ ~ Has(g, {"bearer", "mode", "query", "serve"})
    BY <1>2 DEF Arguments, Has, IdGates, BodyGates, TrimmedOps
  <1>6. Has(g, {"gate"}) => g[2] = "gate"
    BY <1>1, <1>2 DEF Has
  <1> QED
    BY <1>1, <1>3, <1>4, <1>5, <1>6 DEF FfiWay, g

LEMMA FfiParsed ==
  ASSUME NEW op, op \in AuthOps, op \in {"login", "register", "redeem"}
  PROVE  FfiWay(op, <<"slot", "body", "act">>)
  <1> DEFINE g == <<"slot", "body", "act">>
  <1>1. /\ Len(g) = 3 /\ g[1] = "slot" /\ g[2] = "body" /\ g[3] = "act"
    OBVIOUS
  <1> HIDE DEF g
  <1>2. Kinds(g) = {"slot", "body", "act"}
    BY <1>1 DEF Kinds
  <1>3. Shaped(g)
    BY <1>1, <1>2 DEF Shaped, Gates, AuthGates, IdGates, BodyGates
  <1>4. /\ Len(g) = Len(AuthWay(op)) + 1
        /\ \A i \in 1..Len(AuthWay(op)) : g[i + 1] = AuthWay(op)[i]
    <2> DEFINE w == <<"body", "act">>
    <2>1. w = AuthWay(op)
      BY DEF AuthWay
    <2>2. Len(w) = 2 /\ w[1] = "body" /\ w[2] = "act"
      OBVIOUS
    <2> HIDE DEF w
    <2>3. Len(g) = Len(w) + 1 /\ \A i \in 1..Len(w) : g[i + 1] = w[i]
      BY <1>1, <2>2
    <2> QED
      BY <2>1, <2>3
  <1> QED
    BY <1>1, <1>3, <1>4 DEF FfiWay, AuthOps, g

LEMMA FfiActs ==
  ASSUME NEW op, op \in AuthOps, op = "windows_login"
  PROVE  FfiWay(op, <<"slot", "act">>)
  <1> DEFINE g == <<"slot", "act">>
  <1>1. /\ Len(g) = 2 /\ g[1] = "slot" /\ g[2] = "act"
    OBVIOUS
  <1> HIDE DEF g
  <1>2. Kinds(g) = {"slot", "act"}
    BY <1>1 DEF Kinds
  <1>3. Shaped(g)
    BY <1>1, <1>2 DEF Shaped, Gates, AuthGates, IdGates, BodyGates
  <1>4. /\ Len(g) = Len(AuthWay(op)) + 1
        /\ \A i \in 1..Len(AuthWay(op)) : g[i + 1] = AuthWay(op)[i]
    <2> DEFINE w == <<"act">>
    <2>1. w = AuthWay(op)
      BY DEF AuthWay
    <2>2. Len(w) = 1 /\ w[1] = "act"
      OBVIOUS
    <2> HIDE DEF w
    <2>3. Len(g) = Len(w) + 1 /\ \A i \in 1..Len(w) : g[i + 1] = w[i]
      BY <1>1, <2>2
    <2> QED
      BY <2>1, <2>3
  <1> QED
    BY <1>1, <1>3, <1>4 DEF FfiWay, AuthOps, g

LEMMA FfiSets ==
  ASSUME NEW op, op \in AuthOps, op = "set_credentials"
  PROVE  FfiWay(op, <<"slot", "body", "mode", "session", "act">>)
  <1> DEFINE g == <<"slot", "body", "mode", "session", "act">>
  <1>1. /\ Len(g) = 5 /\ g[1] = "slot" /\ g[2] = "body" /\ g[3] = "mode"
        /\ g[4] = "session" /\ g[5] = "act"
    OBVIOUS
  <1> HIDE DEF g
  <1>2. Kinds(g) = {"slot", "body", "mode", "session", "act"}
    BY <1>1 DEF Kinds
  <1>3. Shaped(g)
    BY <1>1, <1>2 DEF Shaped, Gates, AuthGates, IdGates, BodyGates
  <1>4. /\ Len(g) = Len(AuthWay(op)) + 1
        /\ \A i \in 1..Len(AuthWay(op)) : g[i + 1] = AuthWay(op)[i]
    <2> DEFINE w == <<"body", "mode", "session", "act">>
    <2>1. w = AuthWay(op)
      BY DEF AuthWay
    <2>2. Len(w) = 4 /\ w[1] = "body" /\ w[2] = "mode" /\ w[3] = "session" /\ w[4] = "act"
      OBVIOUS
    <2> HIDE DEF w
    <2>3. Len(g) = Len(w) + 1 /\ \A i \in 1..Len(w) : g[i + 1] = w[i]
      BY <1>1, <2>2
    <2> QED
      BY <2>1, <2>3
  <1> QED
    BY <1>1, <1>3, <1>4 DEF FfiWay, AuthOps, g

LEMMA FfiShows ==
  ASSUME NEW op, op \in AuthOps, op = "account"
  PROVE  FfiWay(op, <<"slot", "mode", "session", "act">>)
  <1> DEFINE g == <<"slot", "mode", "session", "act">>
  <1>1. /\ Len(g) = 4 /\ g[1] = "slot" /\ g[2] = "mode" /\ g[3] = "session"
        /\ g[4] = "act"
    OBVIOUS
  <1> HIDE DEF g
  <1>2. Kinds(g) = {"slot", "mode", "session", "act"}
    BY <1>1 DEF Kinds
  <1>3. Shaped(g)
    BY <1>1, <1>2 DEF Shaped, Gates, AuthGates, IdGates, BodyGates
  <1>4. /\ Len(g) = Len(AuthWay(op)) + 1
        /\ \A i \in 1..Len(AuthWay(op)) : g[i + 1] = AuthWay(op)[i]
    <2> DEFINE w == <<"mode", "session", "act">>
    <2>1. w = AuthWay(op)
      BY DEF AuthWay
    <2>2. Len(w) = 3 /\ w[1] = "mode" /\ w[2] = "session" /\ w[3] = "act"
      OBVIOUS
    <2> HIDE DEF w
    <2>3. Len(g) = Len(w) + 1 /\ \A i \in 1..Len(w) : g[i + 1] = w[i]
      BY <1>1, <2>2
    <2> QED
      BY <2>1, <2>3
  <1> QED
    BY <1>1, <1>3, <1>4 DEF FfiWay, AuthOps, g

LEMMA FfiRenews ==
  ASSUME NEW op, op \in AuthOps, op = "regenerate"
  PROVE  FfiWay(op, <<"slot", "session", "mode", "act">>)
  <1> DEFINE g == <<"slot", "session", "mode", "act">>
  <1>1. /\ Len(g) = 4 /\ g[1] = "slot" /\ g[2] = "session" /\ g[3] = "mode"
        /\ g[4] = "act"
    OBVIOUS
  <1> HIDE DEF g
  <1>2. Kinds(g) = {"slot", "session", "mode", "act"}
    BY <1>1 DEF Kinds
  <1>3. Shaped(g)
    BY <1>1, <1>2 DEF Shaped, Gates, AuthGates, IdGates, BodyGates
  <1>4. /\ Len(g) = Len(AuthWay(op)) + 1
        /\ \A i \in 1..Len(AuthWay(op)) : g[i + 1] = AuthWay(op)[i]
    <2> DEFINE w == <<"session", "mode", "act">>
    <2>1. w = AuthWay(op)
      BY DEF AuthWay
    <2>2. Len(w) = 3 /\ w[1] = "session" /\ w[2] = "mode" /\ w[3] = "act"
      OBVIOUS
    <2> HIDE DEF w
    <2>3. Len(g) = Len(w) + 1 /\ \A i \in 1..Len(w) : g[i + 1] = w[i]
      BY <1>1, <2>2
    <2> QED
      BY <2>1, <2>3
  <1> QED
    BY <1>1, <1>3, <1>4 DEF FfiWay, AuthOps, g

LEMMA HttpNeither ==
  ASSUME NEW op, op \notin AuthOps, op \notin IdOps, op \notin BodyOps
  PROVE  HttpWay(op, <<"bearer", "session", "act">>)
  <1> DEFINE g == <<"bearer", "session", "act">>
  <1>1. /\ Len(g) = 3 /\ g[1] = "bearer" /\ g[2] = "session" /\ g[3] = "act"
    OBVIOUS
  <1> HIDE DEF g
  <1>2. Kinds(g) = {"bearer", "session", "act"}
    BY <1>1 DEF Kinds
  <1>3. Shaped(g)
    BY <1>1, <1>2 DEF Shaped, Gates, AuthGates, IdGates, BodyGates
  <1>4. Guarded(g)
    BY <1>1 DEF Guarded, AuthGates
  <1>5. Arguments(op, g) /\ ~ Has(g, {"slot", "gate", "mode", "trimmed"})
    BY <1>2 DEF Arguments, Has, IdGates, BodyGates, TrimmedOps
  <1> QED
    BY <1>1, <1>3, <1>4, <1>5 DEF HttpWay, g

LEMMA HttpQuery ==
  ASSUME NEW op, op \notin AuthOps, op \notin IdOps, op \notin BodyOps
  PROVE  HttpWay(op, <<"bearer", "query", "session", "act">>)
  <1> DEFINE g == <<"bearer", "query", "session", "act">>
  <1>1. /\ Len(g) = 4 /\ g[1] = "bearer" /\ g[2] = "query" /\ g[3] = "session"
        /\ g[4] = "act"
    OBVIOUS
  <1> HIDE DEF g
  <1>2. Kinds(g) = {"bearer", "query", "session", "act"}
    BY <1>1 DEF Kinds
  <1>3. Shaped(g)
    BY <1>1, <1>2 DEF Shaped, Gates, AuthGates, IdGates, BodyGates
  <1>4. Guarded(g)
    BY <1>1 DEF Guarded, AuthGates
  <1>5. Arguments(op, g) /\ ~ Has(g, {"slot", "gate", "mode", "trimmed"})
    BY <1>2 DEF Arguments, Has, IdGates, BodyGates, TrimmedOps
  <1> QED
    BY <1>1, <1>3, <1>4, <1>5 DEF HttpWay, g

LEMMA HttpBody ==
  ASSUME NEW op, op \notin AuthOps, op \notin IdOps, op \in BodyOps
  PROVE  HttpWay(op, <<"bearer", "body", "session", "act">>)
  <1> DEFINE g == <<"bearer", "body", "session", "act">>
  <1>1. /\ Len(g) = 4 /\ g[1] = "bearer" /\ g[2] = "body" /\ g[3] = "session"
        /\ g[4] = "act"
    OBVIOUS
  <1> HIDE DEF g
  <1>2. Kinds(g) = {"bearer", "body", "session", "act"}
    BY <1>1 DEF Kinds
  <1>3. Shaped(g)
    BY <1>1, <1>2 DEF Shaped, Gates, AuthGates, IdGates, BodyGates
  <1>4. Guarded(g)
    BY <1>1 DEF Guarded, AuthGates
  <1>5. Arguments(op, g) /\ ~ Has(g, {"slot", "gate", "mode", "trimmed"})
    BY <1>2 DEF Arguments, Has, IdGates, BodyGates, TrimmedOps
  <1> QED
    BY <1>1, <1>3, <1>4, <1>5 DEF HttpWay, g

LEMMA HttpId ==
  ASSUME NEW op, op \notin AuthOps, op \in IdOps, op \notin BodyOps
  PROVE  HttpWay(op, <<"bearer", "id", "session", "act">>)
  <1> DEFINE g == <<"bearer", "id", "session", "act">>
  <1>1. /\ Len(g) = 4 /\ g[1] = "bearer" /\ g[2] = "id" /\ g[3] = "session"
        /\ g[4] = "act"
    OBVIOUS
  <1> HIDE DEF g
  <1>2. Kinds(g) = {"bearer", "id", "session", "act"}
    BY <1>1 DEF Kinds
  <1>3. Shaped(g)
    BY <1>1, <1>2 DEF Shaped, Gates, AuthGates, IdGates, BodyGates
  <1>4. Guarded(g)
    BY <1>1 DEF Guarded, AuthGates
  <1>5. Arguments(op, g) /\ ~ Has(g, {"slot", "gate", "mode", "trimmed"})
    BY <1>2 DEF Arguments, Has, IdGates, BodyGates, TrimmedOps
  <1> QED
    BY <1>1, <1>3, <1>4, <1>5 DEF HttpWay, g

LEMMA HttpServed ==
  ASSUME NEW op, op \notin AuthOps, op \in IdOps, op \notin BodyOps
  PROVE  HttpWay(op, <<"bearer", "id", "session", "act", "serve">>)
  <1> DEFINE g == <<"bearer", "id", "session", "act", "serve">>
  <1>1. /\ Len(g) = 5 /\ g[1] = "bearer" /\ g[2] = "id" /\ g[3] = "session"
        /\ g[4] = "act" /\ g[5] = "serve"
    OBVIOUS
  <1> HIDE DEF g
  <1>2. Kinds(g) = {"bearer", "id", "session", "act", "serve"}
    BY <1>1 DEF Kinds
  <1>3. Shaped(g)
    BY <1>1, <1>2 DEF Shaped, Gates, AuthGates, IdGates, BodyGates
  <1>4. Guarded(g)
    BY <1>1 DEF Guarded, AuthGates
  <1>5. Arguments(op, g) /\ ~ Has(g, {"slot", "gate", "mode", "trimmed"})
    BY <1>2 DEF Arguments, Has, IdGates, BodyGates, TrimmedOps
  <1> QED
    BY <1>1, <1>3, <1>4, <1>5 DEF HttpWay, g

LEMMA HttpIdQuery ==
  ASSUME NEW op, op \notin AuthOps, op \in IdOps, op \notin BodyOps
  PROVE  HttpWay(op, <<"bearer", "id", "query", "session", "act">>)
  <1> DEFINE g == <<"bearer", "id", "query", "session", "act">>
  <1>1. /\ Len(g) = 5 /\ g[1] = "bearer" /\ g[2] = "id" /\ g[3] = "query"
        /\ g[4] = "session" /\ g[5] = "act"
    OBVIOUS
  <1> HIDE DEF g
  <1>2. Kinds(g) = {"bearer", "id", "query", "session", "act"}
    BY <1>1 DEF Kinds
  <1>3. Shaped(g)
    BY <1>1, <1>2 DEF Shaped, Gates, AuthGates, IdGates, BodyGates
  <1>4. Guarded(g)
    BY <1>1 DEF Guarded, AuthGates
  <1>5. Arguments(op, g) /\ ~ Has(g, {"slot", "gate", "mode", "trimmed"})
    BY <1>2 DEF Arguments, Has, IdGates, BodyGates, TrimmedOps
  <1> QED
    BY <1>1, <1>3, <1>4, <1>5 DEF HttpWay, g

LEMMA HttpIdBody ==
  ASSUME NEW op, op \notin AuthOps, op \in IdOps, op \in BodyOps
  PROVE  HttpWay(op, <<"bearer", "id", "body", "session", "act">>)
  <1> DEFINE g == <<"bearer", "id", "body", "session", "act">>
  <1>1. /\ Len(g) = 5 /\ g[1] = "bearer" /\ g[2] = "id" /\ g[3] = "body"
        /\ g[4] = "session" /\ g[5] = "act"
    OBVIOUS
  <1> HIDE DEF g
  <1>2. Kinds(g) = {"bearer", "id", "body", "session", "act"}
    BY <1>1 DEF Kinds
  <1>3. Shaped(g)
    BY <1>1, <1>2 DEF Shaped, Gates, AuthGates, IdGates, BodyGates
  <1>4. Guarded(g)
    BY <1>1 DEF Guarded, AuthGates
  <1>5. Arguments(op, g) /\ ~ Has(g, {"slot", "gate", "mode", "trimmed"})
    BY <1>2 DEF Arguments, Has, IdGates, BodyGates, TrimmedOps
  <1> QED
    BY <1>1, <1>3, <1>4, <1>5 DEF HttpWay, g

LEMMA HttpParsed ==
  ASSUME NEW op, op \in AuthOps, op \in {"login", "register", "redeem"}
  PROVE  HttpWay(op, <<"body", "act">>)
  <1> DEFINE g == <<"body", "act">>
  <1>1. /\ Len(g) = 2 /\ g[1] = "body" /\ g[2] = "act"
    OBVIOUS
  <1> HIDE DEF g
  <1>2. Kinds(g) = {"body", "act"}
    BY <1>1 DEF Kinds
  <1>3. Shaped(g)
    BY <1>1, <1>2 DEF Shaped, Gates, AuthGates, IdGates, BodyGates
  <1>4. AuthWay(op) = g
    BY DEF AuthWay, g
  <1> QED
    BY <1>2, <1>3, <1>4 DEF HttpWay, AuthOps, g

LEMMA HttpActs ==
  ASSUME NEW op, op \in AuthOps, op = "windows_login"
  PROVE  HttpWay(op, <<"act">>)
  <1> DEFINE g == <<"act">>
  <1>1. /\ Len(g) = 1 /\ g[1] = "act"
    OBVIOUS
  <1> HIDE DEF g
  <1>2. Kinds(g) = {"act"}
    BY <1>1 DEF Kinds
  <1>3. Shaped(g)
    BY <1>1, <1>2 DEF Shaped, Gates, AuthGates, IdGates, BodyGates
  <1>4. AuthWay(op) = g
    BY DEF AuthWay, g
  <1> QED
    BY <1>2, <1>3, <1>4 DEF HttpWay, AuthOps, g

LEMMA HttpSets ==
  ASSUME NEW op, op \in AuthOps, op = "set_credentials"
  PROVE  HttpWay(op, <<"body", "mode", "session", "act">>)
  <1> DEFINE g == <<"body", "mode", "session", "act">>
  <1>1. /\ Len(g) = 4 /\ g[1] = "body" /\ g[2] = "mode" /\ g[3] = "session"
        /\ g[4] = "act"
    OBVIOUS
  <1> HIDE DEF g
  <1>2. Kinds(g) = {"body", "mode", "session", "act"}
    BY <1>1 DEF Kinds
  <1>3. Shaped(g)
    BY <1>1, <1>2 DEF Shaped, Gates, AuthGates, IdGates, BodyGates
  <1>4. AuthWay(op) = g
    BY DEF AuthWay, g
  <1> QED
    BY <1>2, <1>3, <1>4 DEF HttpWay, AuthOps, g

LEMMA HttpShows ==
  ASSUME NEW op, op \in AuthOps, op = "account"
  PROVE  HttpWay(op, <<"mode", "session", "act">>)
  <1> DEFINE g == <<"mode", "session", "act">>
  <1>1. /\ Len(g) = 3 /\ g[1] = "mode" /\ g[2] = "session" /\ g[3] = "act"
    OBVIOUS
  <1> HIDE DEF g
  <1>2. Kinds(g) = {"mode", "session", "act"}
    BY <1>1 DEF Kinds
  <1>3. Shaped(g)
    BY <1>1, <1>2 DEF Shaped, Gates, AuthGates, IdGates, BodyGates
  <1>4. AuthWay(op) = g
    BY DEF AuthWay, g
  <1> QED
    BY <1>2, <1>3, <1>4 DEF HttpWay, AuthOps, g

LEMMA HttpRenews ==
  ASSUME NEW op, op \in AuthOps, op = "regenerate"
  PROVE  HttpWay(op, <<"session", "mode", "act">>)
  <1> DEFINE g == <<"session", "mode", "act">>
  <1>1. /\ Len(g) = 3 /\ g[1] = "session" /\ g[2] = "mode" /\ g[3] = "act"
    OBVIOUS
  <1> HIDE DEF g
  <1>2. Kinds(g) = {"session", "mode", "act"}
    BY <1>1 DEF Kinds
  <1>3. Shaped(g)
    BY <1>1, <1>2 DEF Shaped, Gates, AuthGates, IdGates, BodyGates
  <1>4. AuthWay(op) = g
    BY DEF AuthWay, g
  <1> QED
    BY <1>2, <1>3, <1>4 DEF HttpWay, AuthOps, g

LEMMA FfiTable == FfiRows(Ffi)
  <1> USE DEF Everything, FfiNames, Tells, Errors, AuthOps, IdOps, BodyOps, TrimmedOps,
              LibraryOps, BareOps, DropsWrongTypes
  <1>1. FfiRows(FfiStart)
    BY ViaRows, FfiBody DEF FfiStart
  <1>2. FfiRows(FfiRefresh)
    BY ViaRows, FfiNeither DEF FfiRefresh
  <1>3. FfiRows(FfiEditMetadata)
    BY ViaRows, FfiIdBody DEF FfiEditMetadata
  <1>4. FfiRows(FfiListFiles)
    BY ViaRows, FfiLenient DEF FfiListFiles, map_file_err
  <1>5. FfiRows(FfiReads)
    BY ViaRows, FfiId DEF FfiReads, map_file_err
  <1>6. FfiRows(FfiPlayback)
    BY ViaRows, FfiId DEF FfiPlayback, map_playback_err
  <1>7. FfiRows(FfiEdits)
    BY ViaRows, FfiIdBody DEF FfiEdits, map_file_err
  <1>8. FfiRows(FfiDeletes)
    BY ViaRows, FfiId DEF FfiDeletes, map_file_err
  <1>9. FfiRows(FfiPurges)
    BY ViaRows, FfiId DEF FfiPurges, map_file_err
  <1>10. FfiRows(FfiCreateCollection)
    BY ViaRows, FfiBody DEF FfiCreateCollection, map_collection_err
  <1>11. FfiRows(FfiRenameCollection)
    BY ViaRows, FfiIdBody DEF FfiRenameCollection, map_collection_err
  <1>12. FfiRows(FfiDeleteCollection)
    BY ViaRows, FfiId DEF FfiDeleteCollection, map_collection_err
  <1>13. FfiRows(FfiAddItems)
    BY ViaRows, FfiIdBody DEF FfiAddItems, map_collection_err
  <1>14. FfiRows(FfiItems)
    BY ViaRows, FfiId DEF FfiItems, map_collection_err
  <1>15. FfiRows(FfiListCollections)
    BY ViaRows, FfiLenient DEF FfiListCollections, map_collection_err
  <1>16. FfiRows(FfiCreateBookmark)
    BY ViaRows, FfiBody DEF FfiCreateBookmark, map_bookmark_err
  <1>17. FfiRows(FfiUpdateBookmark)
    BY ViaRows, FfiIdBody DEF FfiUpdateBookmark, map_bookmark_err
  <1>18. FfiRows(FfiListBookmarks)
    BY ViaRows, FfiLenient DEF FfiListBookmarks, map_bookmark_err
  <1>19. FfiRows(FfiBookmarkLifecycle)
    BY ViaRows, FfiId DEF FfiBookmarkLifecycle, map_bookmark_err
  <1>20. FfiRows(FfiCreateWatchlist)
    BY ViaRows, FfiBody DEF FfiCreateWatchlist, map_watchlist_err
  <1>21. FfiRows(FfiAddVideo)
    BY ViaRows, FfiIdBody DEF FfiAddVideo, map_watchlist_err
  <1>22. FfiRows(FfiListWatchlists)
    BY ViaRows, FfiLenient DEF FfiListWatchlists, map_watchlist_err
  <1>23. FfiRows(FfiWatchProgress)
    BY ViaRows, FfiIdLenient DEF FfiWatchProgress, map_watchlist_err
  <1>24. FfiRows(FfiRemoveFromWatchlists)
    BY ViaRows, FfiId DEF FfiRemoveFromWatchlists, map_watchlist_err
  <1>25. FfiRows(FfiCreateReadingList)
    BY ViaRows, FfiBody DEF FfiCreateReadingList, map_reading_list_err
  <1>26. FfiRows(FfiAddReadingItem)
    BY ViaRows, FfiIdBody DEF FfiAddReadingItem, map_reading_list_err
  <1>27. FfiRows(FfiListReadingLists)
    BY ViaRows, FfiLenient DEF FfiListReadingLists, map_reading_list_err
  <1>28. FfiRows(FfiReadingProgress)
    BY ViaRows, FfiIdLenient DEF FfiReadingProgress, map_reading_list_err
  <1>29. FfiRows(FfiRemoveFromReadingLists)
    BY ViaRows, FfiId DEF FfiRemoveFromReadingLists, map_reading_list_err
  <1>30. FfiRows(FfiLogin)
    BY ViaRows, FfiParsed DEF FfiLogin, map_auth_err
  <1>31. FfiRows(FfiWindowsLogin)
    BY ViaRows, FfiActs DEF FfiWindowsLogin, map_auth_err
  <1>32. FfiRows(FfiSetCredentials)
    BY ViaRows, FfiSets DEF FfiSetCredentials, map_auth_err
  <1>33. FfiRows(FfiRegister)
    BY ViaRows, FfiParsed DEF FfiRegister, map_auth_err
  <1>34. FfiRows(FfiAccount)
    BY ViaRows, FfiShows DEF FfiAccount, map_auth_err
  <1>35. FfiRows(FfiRedeem)
    BY ViaRows, FfiParsed DEF FfiRedeem, map_auth_err
  <1>36. FfiRows(FfiRegenerate)
    BY ViaRows, FfiRenews DEF FfiRegenerate, map_auth_err
  <1>37. FfiRows(FfiSettings)
    BY ViaRows, FfiNeither DEF FfiSettings
  <1>38. FfiRows(FfiRunReads)
    BY ViaRows, FfiTrimmed DEF FfiRunReads, map_run_err
  <1>39. FfiRows(FfiRunStops)
    BY ViaRows, FfiTrimmed DEF FfiRunStops, map_run_err
  <1>40. FfiRows(FfiResume)
    BY ViaRows, FfiTrimmed DEF FfiResume, map_run_err
  <1>41. FfiRows(FfiActiveRuns)
    BY ViaRows, FfiGate DEF FfiActiveRuns, map_run_err
  <1>42. FfiRows(FfiRegisterLibrary)
    BY ViaRows, FfiBlank DEF FfiRegisterLibrary, map_library_err
  <1>43. FfiRows(FfiMoveLibrary)
    BY ViaRows, FfiIdBlank DEF FfiMoveLibrary, map_library_err
  <1>44. FfiRows(FfiListLibraries)
    BY ViaRows, FfiGate DEF FfiListLibraries, map_library_err
  <1>45. FfiRows(FfiLibrary)
    BY ViaRows, FfiId DEF FfiLibrary, map_library_err
  <1> HIDE DEF Everything, FfiNames, Tells, Errors, AuthOps, IdOps, BodyOps, TrimmedOps,
              LibraryOps, BareOps, DropsWrongTypes
  <1> QED
    BY <1>1, <1>2, <1>3, <1>4, <1>5, <1>6, <1>7, <1>8, <1>9, <1>10, <1>11,
       <1>12, <1>13, <1>14, <1>15, <1>16, <1>17, <1>18, <1>19, <1>20,
       <1>21, <1>22, <1>23, <1>24, <1>25, <1>26, <1>27, <1>28, <1>29,
       <1>30, <1>31, <1>32, <1>33, <1>34, <1>35, <1>36, <1>37, <1>38,
       <1>39, <1>40, <1>41, <1>42, <1>43, <1>44, <1>45, JoinedRows DEF Ffi

LEMMA HttpTable == HttpRows(Http)
  <1> USE DEF AuthOps, IdOps, BodyOps
  <1>1. HttpRows(HttpIndex)
    BY RouteRows, HttpBody DEF HttpIndex
  <1>2. HttpRows(HttpRefresh)
    BY RouteRows, HttpNeither DEF HttpRefresh
  <1>3. HttpRows(HttpRunReads)
    BY RouteRows, HttpId DEF HttpRunReads
  <1>4. HttpRows(HttpRunStops)
    BY RouteRows, HttpId DEF HttpRunStops
  <1>5. HttpRows(HttpResume)
    BY RouteRows, HttpId DEF HttpResume
  <1>6. HttpRows(HttpActiveRuns)
    BY RouteRows, HttpQuery DEF HttpActiveRuns
  <1>7. HttpRows(HttpSettings)
    BY RouteRows, HttpNeither DEF HttpSettings
  <1>8. HttpRows(HttpBrowse)
    BY RouteRows, HttpBody, HttpId, JoinedRows DEF HttpBrowse
  <1>9. HttpRows(HttpContent)
    BY RouteRows, HttpId, HttpIdBody, JoinedRows DEF HttpContent
  <1>10. HttpRows(HttpStream)
    BY RouteRows, HttpServed DEF HttpStream
  <1>11. HttpRows(HttpArtwork)
    BY RouteRows, HttpId, HttpIdQuery, JoinedRows DEF HttpArtwork
  <1>12. HttpRows(HttpRename)
    BY RouteRows, HttpIdBody DEF HttpRename
  <1>13. HttpRows(HttpEditMetadata)
    BY RouteRows, HttpIdBody DEF HttpEditMetadata
  <1>14. HttpRows(HttpRestore)
    BY RouteRows, HttpId DEF HttpRestore
  <1>15. HttpRows(HttpDelete)
    BY RouteRows, HttpIdQuery DEF HttpDelete
  <1>16. HttpRows(HttpCollections)
    BY RouteRows, HttpBody, HttpIdBody, JoinedRows DEF HttpCollections
  <1>17. HttpRows(HttpCollectionItems)
    BY RouteRows, HttpId, HttpIdBody, JoinedRows DEF HttpCollectionItems
  <1>18. HttpRows(HttpBookmarks)
    BY RouteRows, HttpBody, HttpIdBody, JoinedRows DEF HttpBookmarks
  <1>19. HttpRows(HttpBookmarkLifecycle)
    BY RouteRows, HttpId, HttpIdQuery, JoinedRows DEF HttpBookmarkLifecycle
  <1>20. HttpRows(HttpWatchlists)
    BY RouteRows, HttpBody, HttpIdBody, JoinedRows DEF HttpWatchlists
  <1>21. HttpRows(HttpWatchProgress)
    BY RouteRows, HttpId, HttpIdBody, JoinedRows DEF HttpWatchProgress
  <1>22. HttpRows(HttpReadingLists)
    BY RouteRows, HttpBody, HttpIdBody, JoinedRows DEF HttpReadingLists
  <1>23. HttpRows(HttpReadingProgress)
    BY RouteRows, HttpId, HttpIdBody, JoinedRows DEF HttpReadingProgress
  <1>24. HttpRows(HttpLibraries)
    BY RouteRows, HttpBody, HttpId, HttpIdBody, HttpIdQuery, HttpNeither, JoinedRows
       DEF HttpLibraries
  <1>25. HttpRows(HttpLogin)
    BY RouteRows, HttpActs, HttpParsed, HttpSets, JoinedRows DEF HttpLogin
  <1>26. HttpRows(HttpAccount)
    BY RouteRows, HttpParsed, HttpRenews, HttpShows, JoinedRows DEF HttpAccount
  <1> HIDE DEF AuthOps, IdOps, BodyOps
  <1> QED
    BY <1>1, <1>2, <1>3, <1>4, <1>5, <1>6, <1>7, <1>8, <1>9, <1>10, <1>11,
       <1>12, <1>13, <1>14, <1>15, <1>16, <1>17, <1>18, <1>19, <1>20,
       <1>21, <1>22, <1>23, <1>24, <1>25, <1>26, JoinedRows DEF Http

LEMMA RaisesTable == RaiseRows(Raises)
  <1> USE DEF Tells, Errors, AuthOps, LibraryOps, BareOps
  <1>1. RaiseRows(IndexRaises)
    BY RaisingRows DEF IndexRaises
  <1>2. RaiseRows(RefreshRaises)
    BY RaisingRows DEF RefreshRaises
  <1>3. RaiseRows(RunStatusRaises)
    BY RaisingRows DEF RunStatusRaises
  <1>4. RaiseRows(RunControlRaises)
    BY RaisingRows DEF RunControlRaises
  <1>5. RaiseRows(ResumeRaises)
    BY RaisingRows DEF ResumeRaises
  <1>6. RaiseRows(ActiveRunsRaises)
    BY RaisingRows DEF ActiveRunsRaises
  <1>7. RaiseRows(SettingsRaises)
    BY RaisingRows DEF SettingsRaises
  <1>8. RaiseRows(BrowseRaises)
    BY RaisingRows, JoinedRows DEF BrowseRaises
  <1>9. RaiseRows(ReadContentRaises)
    BY RaisingRows DEF ReadContentRaises
  <1>10. RaiseRows(EditContentRaises)
    BY RaisingRows DEF EditContentRaises
  <1>11. RaiseRows(EditMetadataRaises)
    BY RaisingRows DEF EditMetadataRaises
  <1>12. RaiseRows(RenameRaises)
    BY RaisingRows DEF RenameRaises
  <1>13. RaiseRows(SoftDeleteRaises)
    BY RaisingRows DEF SoftDeleteRaises
  <1>14. RaiseRows(RestoreRaises)
    BY RaisingRows DEF RestoreRaises
  <1>15. RaiseRows(PurgeRaises)
    BY RaisingRows DEF PurgeRaises
  <1>16. RaiseRows(PurgeOnDiskRaises)
    BY RaisingRows DEF PurgeOnDiskRaises
  <1>17. RaiseRows(PlaybackSourceRaises)
    BY RaisingRows DEF PlaybackSourceRaises, NotPlayable
  <1>18. RaiseRows(ComicPageRaises)
    BY RaisingRows DEF ComicPageRaises, NotPlayable
  <1>19. RaiseRows(ThumbnailRaises)
    BY RaisingRows DEF ThumbnailRaises, NotPlayable
  <1>20. RaiseRows(CollectionsRaise)
    BY RaisingRows, JoinedRows DEF CollectionsRaise
  <1>21. RaiseRows(AddItemsRaises)
    BY RaisingRows DEF AddItemsRaises
  <1>22. RaiseRows(ListCollectionsRaises)
    BY RaisingRows DEF ListCollectionsRaises
  <1>23. RaiseRows(CreateBookmarkRaises)
    BY RaisingRows DEF CreateBookmarkRaises
  <1>24. RaiseRows(UpdateBookmarkRaises)
    BY RaisingRows DEF UpdateBookmarkRaises
  <1>25. RaiseRows(ListBookmarksRaises)
    BY RaisingRows DEF ListBookmarksRaises
  <1>26. RaiseRows(BookmarkLifecycleRaises)
    BY RaisingRows DEF BookmarkLifecycleRaises
  <1>27. RaiseRows(WatchlistsRaise)
    BY RaisingRows, JoinedRows DEF WatchlistsRaise
  <1>28. RaiseRows(WatchProgressRaises)
    BY RaisingRows DEF WatchProgressRaises
  <1>29. RaiseRows(ReadingListsRaise)
    BY RaisingRows, JoinedRows DEF ReadingListsRaise
  <1>30. RaiseRows(ReadingProgressRaises)
    BY RaisingRows DEF ReadingProgressRaises
  <1>31. RaiseRows(RegisterLibraryRaises)
    BY RaisingRows DEF RegisterLibraryRaises
  <1>32. RaiseRows(MoveLibraryRaises)
    BY RaisingRows DEF MoveLibraryRaises
  <1>33. RaiseRows(LibraryReadsRaise)
    BY RaisingRows, JoinedRows DEF LibraryReadsRaise
  <1>34. RaiseRows(RemoveLibraryRaises)
    BY RaisingRows DEF RemoveLibraryRaises
  <1>35. RaiseRows(LoginRaises)
    BY RaisingRows DEF LoginRaises
  <1>36. RaiseRows(WindowsLoginRaises)
    BY RaisingRows DEF WindowsLoginRaises
  <1>37. RaiseRows(SetCredentialsRaises)
    BY RaisingRows DEF SetCredentialsRaises
  <1>38. RaiseRows(RegisterRaises)
    BY RaisingRows DEF RegisterRaises
  <1>39. RaiseRows(AccountRaises)
    BY RaisingRows DEF AccountRaises
  <1>40. RaiseRows(RedeemRaises)
    BY RaisingRows DEF RedeemRaises
  <1>41. RaiseRows(RegenerateRaises)
    BY RaisingRows DEF RegenerateRaises
  <1> HIDE DEF Tells, Errors, AuthOps, LibraryOps, BareOps
  <1> QED
    BY <1>1, <1>2, <1>3, <1>4, <1>5, <1>6, <1>7, <1>8, <1>9, <1>10, <1>11,
       <1>12, <1>13, <1>14, <1>15, <1>16, <1>17, <1>18, <1>19, <1>20,
       <1>21, <1>22, <1>23, <1>24, <1>25, <1>26, <1>27, <1>28, <1>29,
       <1>30, <1>31, <1>32, <1>33, <1>34, <1>35, <1>36, <1>37, <1>38,
       <1>39, <1>40, <1>41, JoinedRows DEF Raises

(* Both surfaces have every operation, and each of them has its errors.    *)
LEMMA JoinedHas ==
  ASSUME NEW parts, NEW part \in parts
  PROVE  DOMAIN part \subseteq DOMAIN Joined(parts)
  BY DEF Joined

LEMMA HttpHasAll == Everything \subseteq DOMAIN Http
  <1>1. {"index"} \subseteq DOMAIN Http
    BY JoinedHas DEF Http, HttpIndex, Route
  <1>2. {"refresh"} \subseteq DOMAIN Http
    BY JoinedHas DEF Http, HttpRefresh, Route
  <1>3. {"run_status", "run_failures"} \subseteq DOMAIN Http
    BY JoinedHas DEF Http, HttpRunReads, Route
  <1>4. {"pause_run", "cancel_run"} \subseteq DOMAIN Http
    BY JoinedHas DEF Http, HttpRunStops, Route
  <1>5. {"resume_run"} \subseteq DOMAIN Http
    BY JoinedHas DEF Http, HttpResume, Route
  <1>6. {"active_runs"} \subseteq DOMAIN Http
    BY JoinedHas DEF Http, HttpActiveRuns, Route
  <1>7. {"settings"} \subseteq DOMAIN Http
    BY JoinedHas DEF Http, HttpSettings, Route
  <1>8. {"list_files", "get_file"} \subseteq DOMAIN Http
    BY JoinedHas DEF Http, HttpBrowse, Route
  <1>9. {"read_content", "edit_content"} \subseteq DOMAIN Http
    BY JoinedHas DEF Http, HttpContent, Route
  <1>10. {"playback_source"} \subseteq DOMAIN Http
    BY JoinedHas DEF Http, HttpStream, Route
  <1>11. {"comic_page", "thumbnail"} \subseteq DOMAIN Http
    BY JoinedHas DEF Http, HttpArtwork, Route
  <1>12. {"rename"} \subseteq DOMAIN Http
    BY JoinedHas DEF Http, HttpRename, Route
  <1>13. {"edit_metadata"} \subseteq DOMAIN Http
    BY JoinedHas DEF Http, HttpEditMetadata, Route
  <1>14. {"restore"} \subseteq DOMAIN Http
    BY JoinedHas DEF Http, HttpRestore, Route
  <1>15. {"soft_delete", "purge", "purge_on_disk"} \subseteq DOMAIN Http
    BY JoinedHas DEF Http, HttpDelete, Route
  <1>16. {"list_collections", "create_collection", "rename_collection"}
          \subseteq DOMAIN Http
    BY JoinedHas DEF Http, HttpCollections, Route
  <1>17. {"delete_collection", "remove_collection_item", "list_items", "add_items"}
          \subseteq DOMAIN Http
    BY JoinedHas DEF Http, HttpCollectionItems, Route
  <1>18. {"create_bookmark", "list_bookmarks", "update_bookmark"} \subseteq DOMAIN Http
    BY JoinedHas DEF Http, HttpBookmarks, Route
  <1>19. {"soft_delete_bookmark", "purge_bookmark", "restore_bookmark"}
          \subseteq DOMAIN Http
    BY JoinedHas DEF Http, HttpBookmarkLifecycle, Route
  <1>20. {"create_watchlist", "list_watchlists", "add_video"} \subseteq DOMAIN Http
    BY JoinedHas DEF Http, HttpWatchlists, Route
  <1>21. {"update_watch_progress", "remove_video", "delete_watchlist"} \subseteq DOMAIN Http
    BY JoinedHas DEF Http, HttpWatchProgress, Route
  <1>22. {"create_reading_list", "list_reading_lists", "add_reading_item"}
          \subseteq DOMAIN Http
    BY JoinedHas DEF Http, HttpReadingLists, Route
  <1>23. {"update_reading_progress", "remove_reading_item", "delete_reading_list"}
          \subseteq DOMAIN Http
    BY JoinedHas DEF Http, HttpReadingProgress, Route
  <1>24. {"register_library", "list_libraries", "browse_library", "move_library",
          "remove_library"} \subseteq DOMAIN Http
    <2>1. DOMAIN HttpLibraries \subseteq DOMAIN Http
      BY JoinedHas DEF Http
    <2>2. {"register_library", "list_libraries", "browse_library", "move_library",
           "remove_library"} \subseteq DOMAIN HttpLibraries
      BY JoinedHas DEF HttpLibraries, Route
    <2> QED
      BY <2>1, <2>2
  <1>25. {"login", "windows_login", "set_credentials"} \subseteq DOMAIN Http
    <2>1. DOMAIN HttpLogin \subseteq DOMAIN Http
      BY JoinedHas DEF Http
    <2>2. {"login", "windows_login", "set_credentials"} \subseteq DOMAIN HttpLogin
      BY JoinedHas DEF HttpLogin, Route
    <2> QED
      BY <2>1, <2>2
  <1>26. {"register", "redeem", "account", "regenerate"} \subseteq DOMAIN Http
    <2>1. DOMAIN HttpAccount \subseteq DOMAIN Http
      BY JoinedHas DEF Http
    <2>2. {"register", "redeem", "account", "regenerate"} \subseteq DOMAIN HttpAccount
      BY JoinedHas DEF HttpAccount, Route
    <2> QED
      BY <2>1, <2>2
  <1> QED
    BY <1>1, <1>2, <1>3, <1>4, <1>5, <1>6, <1>7, <1>8, <1>9, <1>10, <1>11,
       <1>12, <1>13, <1>14, <1>15, <1>16, <1>17, <1>18, <1>19, <1>20,
       <1>21, <1>22, <1>23, <1>24, <1>25, <1>26 DEF Everything

LEMMA RaisesHaveAll == Everything \subseteq DOMAIN Raises
  <1>1. {"index"} \subseteq DOMAIN Raises
    BY JoinedHas DEF Raises, IndexRaises, Raising
  <1>2. {"refresh"} \subseteq DOMAIN Raises
    BY JoinedHas DEF Raises, RefreshRaises, Raising
  <1>3. {"run_status", "run_failures"} \subseteq DOMAIN Raises
    BY JoinedHas DEF Raises, RunStatusRaises, Raising
  <1>4. {"pause_run", "cancel_run"} \subseteq DOMAIN Raises
    BY JoinedHas DEF Raises, RunControlRaises, Raising
  <1>5. {"resume_run"} \subseteq DOMAIN Raises
    BY JoinedHas DEF Raises, ResumeRaises, Raising
  <1>6. {"active_runs"} \subseteq DOMAIN Raises
    BY JoinedHas DEF Raises, ActiveRunsRaises, Raising
  <1>7. {"settings"} \subseteq DOMAIN Raises
    BY JoinedHas DEF Raises, SettingsRaises, Raising
  <1>8. {"list_files", "get_file"} \subseteq DOMAIN Raises
    BY JoinedHas DEF Raises, BrowseRaises, Raising
  <1>9. {"read_content"} \subseteq DOMAIN Raises
    BY JoinedHas DEF Raises, ReadContentRaises, Raising
  <1>10. {"edit_content"} \subseteq DOMAIN Raises
    BY JoinedHas DEF Raises, EditContentRaises, Raising
  <1>11. {"edit_metadata"} \subseteq DOMAIN Raises
    BY JoinedHas DEF Raises, EditMetadataRaises, Raising
  <1>12. {"rename"} \subseteq DOMAIN Raises
    BY JoinedHas DEF Raises, RenameRaises, Raising
  <1>13. {"soft_delete"} \subseteq DOMAIN Raises
    BY JoinedHas DEF Raises, SoftDeleteRaises, Raising
  <1>14. {"restore"} \subseteq DOMAIN Raises
    BY JoinedHas DEF Raises, RestoreRaises, Raising
  <1>15. {"purge"} \subseteq DOMAIN Raises
    BY JoinedHas DEF Raises, PurgeRaises, Raising
  <1>16. {"purge_on_disk"} \subseteq DOMAIN Raises
    BY JoinedHas DEF Raises, PurgeOnDiskRaises, Raising
  <1>17. {"playback_source"} \subseteq DOMAIN Raises
    BY JoinedHas DEF Raises, PlaybackSourceRaises, Raising
  <1>18. {"comic_page"} \subseteq DOMAIN Raises
    BY JoinedHas DEF Raises, ComicPageRaises, Raising
  <1>19. {"thumbnail"} \subseteq DOMAIN Raises
    BY JoinedHas DEF Raises, ThumbnailRaises, Raising
  <1>20. {"create_collection", "rename_collection", "delete_collection",
          "remove_collection_item", "list_items"} \subseteq DOMAIN Raises
    <2>1. DOMAIN CollectionsRaise \subseteq DOMAIN Raises
      BY JoinedHas DEF Raises
    <2>2. {"create_collection", "rename_collection", "delete_collection",
           "remove_collection_item", "list_items"} \subseteq DOMAIN CollectionsRaise
      BY JoinedHas DEF CollectionsRaise, Raising
    <2> QED
      BY <2>1, <2>2
  <1>21. {"add_items"} \subseteq DOMAIN Raises
    BY JoinedHas DEF Raises, AddItemsRaises, Raising
  <1>22. {"list_collections"} \subseteq DOMAIN Raises
    BY JoinedHas DEF Raises, ListCollectionsRaises, Raising
  <1>23. {"create_bookmark"} \subseteq DOMAIN Raises
    BY JoinedHas DEF Raises, CreateBookmarkRaises, Raising
  <1>24. {"update_bookmark"} \subseteq DOMAIN Raises
    BY JoinedHas DEF Raises, UpdateBookmarkRaises, Raising
  <1>25. {"list_bookmarks"} \subseteq DOMAIN Raises
    BY JoinedHas DEF Raises, ListBookmarksRaises, Raising
  <1>26. {"soft_delete_bookmark", "restore_bookmark", "purge_bookmark"}
          \subseteq DOMAIN Raises
    BY JoinedHas DEF Raises, BookmarkLifecycleRaises, Raising
  <1>27. {"create_watchlist", "add_video", "list_watchlists", "remove_video",
          "delete_watchlist"} \subseteq DOMAIN Raises
    <2>1. DOMAIN WatchlistsRaise \subseteq DOMAIN Raises
      BY JoinedHas DEF Raises
    <2>2. {"create_watchlist", "add_video", "list_watchlists", "remove_video",
           "delete_watchlist"} \subseteq DOMAIN WatchlistsRaise
      BY JoinedHas DEF WatchlistsRaise, Raising
    <2> QED
      BY <2>1, <2>2
  <1>28. {"update_watch_progress"} \subseteq DOMAIN Raises
    BY JoinedHas DEF Raises, WatchProgressRaises, Raising
  <1>29. {"create_reading_list", "add_reading_item", "list_reading_lists",
          "remove_reading_item", "delete_reading_list"} \subseteq DOMAIN Raises
    <2>1. DOMAIN ReadingListsRaise \subseteq DOMAIN Raises
      BY JoinedHas DEF Raises
    <2>2. {"create_reading_list", "add_reading_item", "list_reading_lists",
           "remove_reading_item", "delete_reading_list"} \subseteq DOMAIN ReadingListsRaise
      BY JoinedHas DEF ReadingListsRaise, Raising
    <2> QED
      BY <2>1, <2>2
  <1>30. {"update_reading_progress"} \subseteq DOMAIN Raises
    BY JoinedHas DEF Raises, ReadingProgressRaises, Raising
  <1>31. {"register_library"} \subseteq DOMAIN Raises
    BY JoinedHas DEF Raises, RegisterLibraryRaises, Raising
  <1>32. {"move_library"} \subseteq DOMAIN Raises
    BY JoinedHas DEF Raises, MoveLibraryRaises, Raising
  <1>33. {"list_libraries", "browse_library"} \subseteq DOMAIN Raises
    BY JoinedHas DEF Raises, LibraryReadsRaise, Raising
  <1>34. {"remove_library"} \subseteq DOMAIN Raises
    BY JoinedHas DEF Raises, RemoveLibraryRaises, Raising
  <1>35. {"login"} \subseteq DOMAIN Raises
    BY JoinedHas DEF Raises, LoginRaises, Raising
  <1>36. {"windows_login"} \subseteq DOMAIN Raises
    BY JoinedHas DEF Raises, WindowsLoginRaises, Raising
  <1>37. {"set_credentials"} \subseteq DOMAIN Raises
    BY JoinedHas DEF Raises, SetCredentialsRaises, Raising
  <1>38. {"register"} \subseteq DOMAIN Raises
    BY JoinedHas DEF Raises, RegisterRaises, Raising
  <1>39. {"account"} \subseteq DOMAIN Raises
    BY JoinedHas DEF Raises, AccountRaises, Raising
  <1>40. {"redeem"} \subseteq DOMAIN Raises
    BY JoinedHas DEF Raises, RedeemRaises, Raising
  <1>41. {"regenerate"} \subseteq DOMAIN Raises
    BY JoinedHas DEF Raises, RegenerateRaises, Raising
  <1> QED
    BY <1>1, <1>2, <1>3, <1>4, <1>5, <1>6, <1>7, <1>8, <1>9, <1>10, <1>11,
       <1>12, <1>13, <1>14, <1>15, <1>16, <1>17, <1>18, <1>19, <1>20,
       <1>21, <1>22, <1>23, <1>24, <1>25, <1>26, <1>27, <1>28, <1>29,
       <1>30, <1>31, <1>32, <1>33, <1>34, <1>35, <1>36, <1>37, <1>38,
       <1>39, <1>40, <1>41 DEF Everything

(***************************************************************************)
(* One call on both surfaces.                                              *)
(***************************************************************************)

Sides == {"ffi", "http"}
AllOutcomes == Errors \cup {"Ok", "panic", "other_mode", "vanished"}
Telling == {"Ok", "NotFound", "BadRequest", "Conflict"}

(* The rows of an operation that is called.                                *)
LEMMA CalledRows ==
  ASSUME NEW op \in Operations
  PROVE  /\ op \in DOMAIN Ffi /\ FfiWay(op, Ffi[op].gates) /\ FfiNames(op, Ffi[op].names)
         /\ op \in DOMAIN Http /\ HttpWay(op, Http[op].gates) /\ Http[op].names = Errors
         /\ Outcomes(op) \subseteq AllOutcomes
         /\ \A err \in Raises[op] : err \in Errors /\
               \/ Tells(op, err)
               \/ err \in {"Disk", "Integrity", "Database", "Config", "Internal"}
               \/ err = "NotFound" /\ op \in {"redeem", "regenerate"}
  <1>1. op \in DOMAIN Ffi /\ op \in Everything
    BY SurfacesAssumption, FfiTable DEF AllOperations, FfiRows
  <1>2. op \in DOMAIN Http /\ op \in DOMAIN Raises
    BY <1>1, HttpHasAll, RaisesHaveAll
  <1>3. \A err \in Raises[op] : err \in Errors /\
               \/ Tells(op, err)
               \/ err \in {"Disk", "Integrity", "Database", "Config", "Internal"}
               \/ err = "NotFound" /\ op \in {"redeem", "regenerate"}
    BY <1>2, RaisesTable DEF RaiseRows
  <1>4. Outcomes(op) \subseteq AllOutcomes
    BY <1>3 DEF Outcomes, AllOutcomes
  <1> QED
    BY <1>1, <1>2, <1>3, <1>4, FfiTable, HttpTable DEF FfiRows, HttpRows

SideTypes == [at : Nat, answer : Classes \cup {Unanswered}, admitted : BOOLEAN]

CallTyped ==
    /\ ready \in BOOLEAN /\ disturbed \in BOOLEAN
    /\ session \in {"live", "over"} /\ authStore \in {"up", "down"}
    /\ asked \in [op : Operations, fault : Faults, outcome : AllOutcomes]
    /\ asked.outcome \in Outcomes(asked.op)
    /\ side \in [Sides -> SideTypes]

(* The gates before the one a surface is at opened; one that authenticates *)
(* admitted the call.  Left alone, they are open still, and the answer is  *)
(* that of the gate it stopped at.                                         *)
Along(s) == LET gates == Entry(s).gates
                n == side[s].at
    IN
    /\ n \in 1..Len(gates)
    /\ \A i \in 1..(n - 1) : gates[i] \in AuthGates => side[s].admitted
    /\ side[s].answer \in Telling => side[s].admitted \/ asked.op \in AuthOps
    /\ ~ disturbed =>
         /\ \A i \in 1..(n - 1) : Answer(s, gates[i]) \in {"open", "Ok"}
         /\ ~ Pending(s) =>
              /\ n = Len(gates) \/ Answer(s, gates[n]) \notin {"open", "Ok"}
              /\ side[s].answer =
                   IF Answer(s, gates[n]) = "open" THEN "Ok" ELSE Answer(s, gates[n])

SurfIInv == CallTyped /\ \A s \in Sides : Along(s)

LEMMA EntryFacts ==
  ASSUME CallTyped, NEW s \in Sides
  PROVE  /\ Shaped(Entry(s).gates)
         /\ asked.op \notin AuthOps =>
              Guarded(Entry(s).gates) /\ Arguments(asked.op, Entry(s).gates)
         /\ s = "ffi" => /\ Entry(s) = Ffi[asked.op]
                         /\ FfiWay(asked.op, Entry(s).gates)
                         /\ FfiNames(asked.op, Entry(s).names)
         /\ s = "http" => /\ Entry(s) = Http[asked.op]
                          /\ HttpWay(asked.op, Entry(s).gates) /\ Entry(s).names = Errors
  <1>1. asked.op \in Operations
    BY DEF CallTyped
  <1>2. Entry("ffi") = Ffi[asked.op] /\ Entry("http") = Http[asked.op]
    BY DEF Entry, Surface
  <1>3. s = "ffi" \/ s = "http"
    BY DEF Sides
  <1>4. /\ FfiWay(asked.op, Ffi[asked.op].gates) /\ FfiNames(asked.op, Ffi[asked.op].names)
        /\ HttpWay(asked.op, Http[asked.op].gates) /\ Http[asked.op].names = Errors
    BY <1>1, CalledRows
  <1>5. CASE s = "ffi"
    BY <1>2, <1>4, <1>5 DEF FfiWay
  <1>6. CASE s = "http"
    BY <1>2, <1>4, <1>6 DEF HttpWay
  <1> QED
    BY <1>3, <1>5, <1>6

(* What a gate answers.                                                    *)
LEMMA ErrorClasses ==
    /\ \A err : ErrorClass(err) \in Classes /\ ErrorClass(err) # "Ok"
    /\ ErrorClass("Unauthorized") = "Unauthorized" /\ ErrorClass("Database") = "Internal"
    /\ ErrorClass("Disk") = "Internal"
    /\ \A err \in {"Disk", "Integrity", "Database", "Config", "Internal"} :
          ErrorClass(err) = "Internal"
    /\ ErrorClass("InvalidState") = "Conflict" /\ ErrorClass("Conflict") = "Conflict"
  BY DEF ErrorClass, Classes

LEMMA GateAnswers ==
  ASSUME NEW s
  PROVE  /\ Answer(s, "slot") = IF ready THEN "open" ELSE "NotInitialized"
         /\ Answer(s, "gate") = authenticated /\ Answer(s, "bearer") = require_auth
         /\ \A gate \in {"id", "trimmed", "body", "lenient", "query"} :
              Answer(s, gate) =
                IF asked.fault \in RefusedAt(s, gate) THEN "BadRequest" ELSE "open"
         /\ RefusedAt(s, "id") = {"id", "padding"} /\ RefusedAt(s, "trimmed") = {"id"}
         /\ RefusedAt(s, "body") = {"body", "loose", OwnForm[s]}
         /\ RefusedAt(s, "lenient") = {"body", OwnForm[s]} /\ RefusedAt(s, "query") = {"query"}
         /\ Answer(s, "session") =
              IF Authenticates THEN "open"
              ELSE Translated(s, IF authStore = "down" THEN "Database" ELSE "Unauthorized")
         /\ Answer(s, "mode") =
              IF asked.outcome = "other_mode" THEN Translated(s, OtherMode) ELSE "open"
         /\ Answer(s, "act") = Acts(s) /\ Answer(s, "serve") = Serves
  BY DEF Answer, Parses, RefusedAt

LEMMA AnswerTypes ==
  ASSUME NEW s, NEW gate \in Gates
  PROVE  /\ Answer(s, gate) \in Classes \cup {"open"}
         /\ gate \in AuthGates \cup {"slot"} => Answer(s, gate) \notin Telling
         /\ gate \in AuthGates => (Answer(s, gate) = "open" <=> Authenticates)
         /\ gate \notin {"act"} => Answer(s, gate) # "Ok"
  <1>1. /\ \A err : Translated(s, err) \in Classes /\ Translated(s, err) # "Ok"
        /\ Translated(s, "Unauthorized") \in {"Unauthorized", "Internal"}
        /\ Translated(s, "Database") = "Internal"
    BY ErrorClasses DEF Translated, Classes
  <1>2. /\ authenticated \in {"open", "Unauthorized"}
        /\ require_auth \in {"open", "Unauthorized", "Internal"}
        /\ authenticated = "open" <=> Authenticates
        /\ require_auth = "open" <=> Authenticates
    BY ErrorClasses DEF authenticated, require_auth
  <1>4. Acts(s) \in Classes /\ Serves \in {"Internal", "open"}
    BY <1>1, ErrorClasses DEF Acts, Serves, Classes
  <1>5. Gates = {"gate", "bearer", "session", "id", "trimmed", "slot", "body", "lenient",
                 "query", "mode", "act", "serve"}
    BY DEF Gates, AuthGates, IdGates, BodyGates
  <1>6. CASE gate \in AuthGates \cup {"slot"}
    BY <1>1, <1>2, <1>6, GateAnswers DEF AuthGates, Classes, Telling
  <1>7. CASE gate \in {"id", "trimmed", "body", "lenient", "query"}
    BY <1>7, GateAnswers DEF AuthGates, Classes
  <1>8. CASE gate \in {"mode", "act", "serve"}
    BY <1>1, <1>4, <1>8, GateAnswers DEF AuthGates, Classes
  <1> QED
    BY <1>5, <1>6, <1>7, <1>8 DEF AuthGates

-----------------------------------------------------------------------------
(* The steps of a call.                                                    *)

LEMMA CallBegins == SurfaceInit => SurfIInv
  <1> SUFFICES ASSUME SurfaceInit PROVE SurfIInv
    OBVIOUS
  <1>1. PICK op \in Operations : \E fault \in FaultsOf(op), outcome \in Outcomes(op) :
          asked = [op |-> op, fault |-> fault, outcome |-> outcome]
    BY DEF SurfaceInit
  <1>2. CallTyped
    <2>1. PICK fault \in FaultsOf(op) : \E outcome \in Outcomes(op) :
            asked = [op |-> op, fault |-> fault, outcome |-> outcome]
      BY <1>1
    <2>1a. fault \in Faults
      BY DEF FaultsOf
    <2>2. /\ asked \in [op : Operations, fault : Faults, outcome : AllOutcomes]
          /\ asked.outcome \in Outcomes(asked.op)
      BY <2>1, <2>1a, CalledRows
    <2>3. side \in [Sides -> SideTypes]
      BY DEF SurfaceInit, Before, Sides, SideTypes
    <2> QED
      BY <2>2, <2>3 DEF SurfaceInit, CallTyped
  <1>3. ASSUME NEW s \in Sides PROVE Along(s)
    <2>1. side[s].at = 1 /\ side[s].answer = Unanswered
      BY DEF SurfaceInit, Before, Sides, SideTypes
    <2>2. Len(Entry(s).gates) \in Nat /\ 1 <= Len(Entry(s).gates)
      BY <1>2, EntryFacts DEF Shaped
    <2> QED
      BY <2>1, <2>2 DEF Along, Pending, Telling, Unanswered
  <1> QED
    BY <1>2, <1>3 DEF SurfIInv

LEMMA PassKeeps ==
  ASSUME SurfIInv, NEW s \in Sides, Pass(s)
  PROVE  SurfIInv'
  <1> DEFINE gates == Entry(s).gates
             n == side[s].at
  <1>1. CallTyped /\ Along(s) /\ \A t \in Sides : Along(t)
    BY DEF SurfIInv
  <1>2. /\ n \in Nat /\ n < Len(gates) /\ Len(gates) \in Nat /\ Kinds(gates) \subseteq Gates
    BY <1>1, EntryFacts DEF Pass, AtLastGate, Along, Shaped, CallTyped
  <1>3. UNCHANGED environment
    BY DEF Pass
  <1>4. PICK yes \in BOOLEAN :
          /\ yes = (side[s].admitted \/ gates[n] \in AuthGates)
          /\ side' = [side EXCEPT ![s].at = n + 1, ![s].admitted = yes]
    BY DEF Pass, Gate, AuthGates
  <1>4a. /\ side'[s].at = n + 1 /\ side'[s].answer = side[s].answer /\ side'[s].admitted = yes
         /\ \A t \in Sides \ {s} : side'[t] = side[t]
    BY <1>1, <1>4 DEF CallTyped
  <1>5. \A t \in Sides : Entry(t)' = Entry(t)
    BY <1>3 DEF Entry, environment
  <1>6. \A t \in Sides : \A gate : Answer(t, gate)' = Answer(t, gate)
    BY <1>3 DEF Answer, Parses, RefusedAt, Acts, Serves, Translated, Entry, OtherMode,
                authenticated, require_auth, Authenticates, environment
  <1>7. CallTyped'
    <2>1. side' \in [Sides -> SideTypes]
      <3>1. side' = [side EXCEPT ![s].at = n + 1, ![s].admitted = yes]
        BY <1>4
      <3>2. n + 1 \in Nat
        BY <1>2
      <3> HIDE DEF n
      <3> QED
        BY <1>1, <3>1, <3>2 DEF CallTyped, SideTypes
    <2> QED
      BY <1>1, <1>3, <2>1 DEF CallTyped, SideTypes, environment
  <1>8. Along(s)'
    <2>1. side[s].answer = Unanswered /\ Answer(s, gates[n]) \in {"open", "Ok"}
      BY DEF Pass, Pending, Gate
    <2>2. \A i \in 1..n : i \in 1..(n - 1) \/ i = n
      BY <1>2
    <2>3. \A i \in 1..n : gates[i] \in AuthGates => yes
      BY <1>1, <1>4, <2>2 DEF Along
    <2>4. ~ disturbed => \A i \in 1..n : Answer(s, gates[i]) \in {"open", "Ok"}
      BY <1>1, <2>1, <2>2 DEF Along
    <2>5. n + 1 \in 1..Len(gates) /\ (n + 1) - 1 = n
      BY <1>2
    <2>6. Unanswered \notin Telling
      BY DEF Unanswered, Telling
    <2> HIDE DEF gates, n
    <2> QED
      BY <1>3, <1>4a, <1>5, <1>6, <2>1, <2>3, <2>4, <2>5, <2>6
         DEF Along, Pending, environment, gates
  <1>9. ASSUME NEW t \in Sides \ {s} PROVE Along(t)'
    <2>1. side'[t] = side[t] /\ Entry(t)' = Entry(t) /\ UNCHANGED <<asked, disturbed>>
          /\ \A gate : Answer(t, gate)' = Answer(t, gate)
      BY <1>3, <1>4a, <1>5, <1>6 DEF environment
    <2> QED
      BY <1>1, <2>1 DEF Along, Pending
  <1> QED
    BY <1>7, <1>8, <1>9 DEF SurfIInv

LEMMA ReplyKeeps ==
  ASSUME SurfIInv, NEW s \in Sides, Reply(s)
  PROVE  SurfIInv'
  <1> DEFINE gates == Entry(s).gates
             n == side[s].at
             given == IF Answer(s, gates[n]) = "open" THEN "Ok" ELSE Answer(s, gates[n])
  <1>1. CallTyped /\ Along(s) /\ \A t \in Sides : Along(t)
    BY DEF SurfIInv
  <1>2. /\ n \in 1..Len(gates) /\ Len(gates) \in Nat /\ gates[n] \in Gates
    BY <1>1, EntryFacts DEF Along, Shaped, Kinds
  <1>3. side' = [side EXCEPT ![s].answer = given] /\ UNCHANGED environment
    BY DEF Reply, Gate
  <1>4. /\ side'[s].at = n /\ side'[s].answer = given /\ side'[s].admitted = side[s].admitted
        /\ \A t \in Sides \ {s} : side'[t] = side[t]
    BY <1>1, <1>3 DEF CallTyped
  <1>5. \A t \in Sides : Entry(t)' = Entry(t)
    BY <1>3 DEF Entry, environment
  <1>6. \A t \in Sides : \A gate : Answer(t, gate)' = Answer(t, gate)
    BY <1>3 DEF Answer, Parses, RefusedAt, Acts, Serves, Translated, Entry, OtherMode,
                authenticated, require_auth, Authenticates, environment
  <1>7. CallTyped'
    <2>1. given \in Classes
      BY <1>2, AnswerTypes DEF Classes
    <2> QED
      BY <1>1, <1>3, <2>1 DEF CallTyped, SideTypes, environment
  <1>8. n = Len(gates) \/ Answer(s, gates[n]) \notin {"open", "Ok"}
    BY DEF Reply, AtLastGate, Gate
  <1>9. given \in Telling => side[s].admitted \/ asked.op \in AuthOps
    <2> SUFFICES ASSUME given \in Telling, asked.op \notin AuthOps PROVE side[s].admitted
      OBVIOUS
    <2>1. Guarded(gates)
      BY <1>1, EntryFacts
    <2>2. gates[n] \notin AuthGates \cup {"slot"}
      BY <1>2, <1>8, <2>1, AnswerTypes DEF Guarded, AuthGates
    <2>3. PICK j \in 1..(n - 1) : gates[j] \in AuthGates
      BY <1>2, <2>1, <2>2 DEF Guarded
    <2> QED
      BY <1>1, <2>3 DEF Along
  <1>10. Along(s)'
    BY <1>1, <1>2, <1>3, <1>4, <1>5, <1>6, <1>8, <1>9 DEF Along, environment
  <1>11. \A t \in Sides \ {s} : Along(t)'
    BY <1>1, <1>3, <1>4, <1>5, <1>6 DEF Along, Pending, environment
  <1> QED
    BY <1>7, <1>10, <1>11 DEF SurfIInv

(* Nothing holds a call back once the world has moved under it, but that   *)
(* it was admitted, if it was.                                             *)
LEMMA WorldKeeps ==
  ASSUME SurfIInv, SessionEnds \/ StoreFlips \/ CatalogChanges \/ Initialises
  PROVE  SurfIInv'
  <1>1. CallTyped /\ \A t \in Sides : Along(t)
    BY DEF SurfIInv
  <1>2. side' = side /\ disturbed' = TRUE /\ asked'.op = asked.op
    BY <1>1 DEF SessionEnds, StoreFlips, CatalogChanges, Initialises, CallTyped
  <1>3. \A t \in Sides : Entry(t)' = Entry(t)
    BY <1>2 DEF Entry
  <1>4. CallTyped'
    <2>1. Outcomes(asked.op) \subseteq AllOutcomes
      BY <1>1, CalledRows DEF CallTyped
    <2> QED
      BY <1>1, <2>1 DEF CallTyped, SessionEnds, StoreFlips, CatalogChanges, Initialises
  <1>5. \A t \in Sides : Along(t)'
    BY <1>1, <1>2, <1>3 DEF Along
  <1> QED
    BY <1>4, <1>5 DEF SurfIInv

(* The inductive invariant of a call: see Along.                           *)
THEOREM SurfaceInvariance == SurfaceSpec => []SurfIInv
  <1>1. SurfIInv /\ [SurfaceNext]_surfaceVars => SurfIInv'
    <2> SUFFICES ASSUME SurfIInv, [SurfaceNext]_surfaceVars PROVE SurfIInv'
      OBVIOUS
    <2>1. CASE UNCHANGED surfaceVars
      <3>1. \A t \in Sides :
               Entry(t)' = Entry(t) /\ \A gate : Answer(t, gate)' = Answer(t, gate)
        BY <2>1 DEF Answer, Parses, RefusedAt, Acts, Serves, Translated, Entry, OtherMode,
                    authenticated, require_auth, Authenticates, surfaceVars
      <3>2. CallTyped'
        BY <2>1 DEF SurfIInv, CallTyped, surfaceVars
      <3>3. \A t \in Sides : Along(t)'
        BY <2>1, <3>1 DEF SurfIInv, Along, Pending, surfaceVars
      <3> QED
        BY <3>2, <3>3 DEF SurfIInv
    <2> QED
      BY <2>1, PassKeeps, ReplyKeeps, WorldKeeps DEF SurfaceNext, Sides
  <1> QED
    BY <1>1, CallBegins, PTL DEF SurfaceSpec

(* A call on either surface keeps its types.                               *)
THEOREM SurfaceTypeCorrect == SurfaceSpec => []SurfaceTypeOK
  <1>1. SurfIInv => SurfaceTypeOK
    <2> SUFFICES ASSUME SurfIInv PROVE SurfaceTypeOK
      OBVIOUS
    <2>1. \A s \in Sides : side[s].at \in 1..8
      BY EntryFacts DEF SurfIInv, Along, Shaped
    <2> QED
      BY <2>1 DEF SurfIInv, CallTyped, SurfaceTypeOK, Sides, SideTypes
  <1> QED
    BY <1>1, SurfaceInvariance, PTL

(* A call that never got past an authentication is told nothing but that   *)
(* it is refused, whatever operation it is and whatever its arguments      *)
(* (lib.rs of both surfaces).                                              *)
THEOREM UnauthenticatedTheorem == SurfaceSpec => []UnauthenticatedLearnsNothing
  <1>1. SurfIInv => UnauthenticatedLearnsNothing
    BY DEF SurfIInv, Along, UnauthenticatedLearnsNothing, Telling, Sides
  <1> QED
    BY <1>1, SurfaceInvariance, PTL

-----------------------------------------------------------------------------
(* The answer of a call that is left alone.                                *)

Parsed == /\ asked.fault \in {"id", "padding"} => asked.op \notin IdOps
          /\ asked.fault \in {"body", "loose"} => asked.op \notin BodyOps

Handled == IF asked.outcome \in {"Ok", "vanished", "other_mode"} THEN "Ok"
           ELSE ErrorClass(asked.outcome)

Expected ==
    IF ~ Authenticates THEN IF authStore = "down" THEN "Internal" ELSE "Unauthorized"
    ELSE IF Parsed THEN Handled ELSE "BadRequest"

(* A surface has a name for what an operation raises, or it is an error    *)
(* inside.                                                                 *)
LEMMA RaisedIsNamed ==
  ASSUME CallTyped, NEW s \in Sides, asked.outcome \notin {"panic"},
         ~ (asked.op \in {"redeem", "regenerate"} /\ asked.outcome = "NotFound")
  PROVE  Acts(s) = Handled
  <1>1. asked.op \in Operations /\ asked.outcome \in Outcomes(asked.op)
    BY DEF CallTyped
  <1>2. CASE asked.outcome \in {"Ok", "vanished", "other_mode"}
    BY <1>2 DEF Acts, Handled
  <1>3. CASE asked.outcome \notin {"Ok", "vanished", "other_mode"}
    <2>1. asked.outcome \in Raises[asked.op]
      BY <1>1, <1>3 DEF Outcomes
    <2>2. /\ asked.outcome \in Errors
          /\ \/ Tells(asked.op, asked.outcome)
             \/ asked.outcome \in {"Disk", "Integrity", "Database", "Config", "Internal"}
      BY <1>1, <2>1, CalledRows
    <2>3. asked.outcome \in Entry(s).names \/ ErrorClass(asked.outcome) = "Internal"
      BY <2>2, EntryFacts, ErrorClasses DEF FfiNames, Sides
    <2>4. Acts(s) = Translated(s, asked.outcome)
      BY <1>3 DEF Acts
    <2> QED
      BY <1>3, <2>3, <2>4 DEF Translated, Handled
  <1> QED
    BY <1>2, <1>3

(* A refusal is of one class on both surfaces, but for the gate of the FFI *)
(* when the query behind it fails.                                         *)
LEMMA RefusalIsNamed ==
  ASSUME CallTyped, NEW s \in Sides, NEW gate \in AuthGates, ~ Authenticates,
         gate = "gate" => authStore # "down"
  PROVE  Answer(s, gate) = IF authStore = "down" THEN "Internal" ELSE "Unauthorized"
  <1>1. "Unauthorized" \in Entry(s).names
    BY EntryFacts DEF FfiNames, Tells, Errors, Sides
  <1>2. Translated(s, "Unauthorized") = "Unauthorized"
    BY <1>1, ErrorClasses DEF Translated
  <1>3. Translated(s, "Database") = "Internal"
    BY ErrorClasses DEF Translated
  <1> QED
    BY <1>2, <1>3, GateAnswers, ErrorClasses DEF AuthGates, authenticated, require_auth

LEMMA GuardedVerdict ==
  ASSUME SurfIInv, ~ disturbed, ~ KnownDifference, asked.op \notin AuthOps,
         NEW s \in Sides, ~ Pending(s)
  PROVE  side[s].answer = Expected
  <1> DEFINE gates == Entry(s).gates
             n == side[s].at
             here == Answer(s, gates[n])
  <1>1. CallTyped /\ Along(s)
    BY DEF SurfIInv
  <1>2. /\ Shaped(gates) /\ Guarded(gates) /\ Arguments(asked.op, gates)
        /\ s = "ffi" => FfiWay(asked.op, gates) /\ gates = Ffi[asked.op].gates
        /\ s = "http" => HttpWay(asked.op, gates)
    BY <1>1, EntryFacts
  <1>3. /\ n \in 1..Len(gates) /\ Len(gates) \in Nat
        /\ \A i \in 1..(n - 1) : Answer(s, gates[i]) \in {"open", "Ok"}
        /\ n = Len(gates) \/ here \notin {"open", "Ok"}
        /\ side[s].answer = IF here = "open" THEN "Ok" ELSE here
    BY <1>1, <1>2 DEF Along, Shaped
  <1>4. \A i \in 1..Len(gates) :
           gates[i] \in Gates /\ gates[i] # "mode" /\ gates[i] \in Kinds(gates)
    BY <1>2 DEF Shaped, Kinds, FfiWay, HttpWay, Has, Sides
  <1>5. ready /\ asked.fault \notin {"query", "ffi_form", "http_form"}
        /\ asked.outcome \notin {"panic", "vanished"}
        /\ (asked.fault = "loose" => asked.op \notin DropsWrongTypes)
        /\ (asked.fault = "padding" => asked.op \notin TrimmedOps)
        /\ ~ (asked.op \in {"redeem", "regenerate"} /\ asked.outcome = "NotFound")
    BY DEF KnownDifference, TrimmedOps
  <1>6. Answer(s, "slot") = "open"
    BY <1>5, GateAnswers
  <1>6a. asked.fault # OwnForm[s]
    BY <1>5 DEF OwnForm, Sides
  <1>7. CASE ~ Authenticates
    <2>1. \A i \in 1..Len(gates) : gates[i] \in AuthGates =>
             Answer(s, gates[i]) = IF authStore = "down" THEN "Internal" ELSE "Unauthorized"
      <3> SUFFICES ASSUME NEW i \in 1..Len(gates), gates[i] \in AuthGates
                   PROVE  Answer(s, gates[i]) =
                            IF authStore = "down" THEN "Internal" ELSE "Unauthorized"
        OBVIOUS
      <3>1. gates[i] = "gate" => authStore # "down"
        BY <1>2, <1>4 DEF KnownDifference, FfiWay, HttpWay, Has, Sides
      <3> QED
        BY <1>1, <1>7, <3>1, RefusalIsNamed
    <2>2. gates[n] \in AuthGates
      <3> SUFFICES ASSUME gates[n] \notin AuthGates PROVE FALSE
        OBVIOUS
      <3>1. gates[n] # "slot"
        BY <1>2, <1>3, <1>6 DEF Guarded
      <3>2. PICK j \in 1..(n - 1) : gates[j] \in AuthGates
        BY <1>2, <1>3, <3>1 DEF Guarded
      <3> QED
        BY <1>3, <2>1, <3>2
    <2> QED
      BY <1>3, <1>7, <2>1, <2>2 DEF Expected
  <1>8. CASE Authenticates
    <2>1. \A i \in 1..Len(gates) : gates[i] \in AuthGates \cup {"slot", "query"} =>
             Answer(s, gates[i]) = "open"
      BY <1>4, <1>5, <1>6, <1>8, AnswerTypes, GateAnswers
    <2>2. Handled # "open" /\ Acts(s) = Handled /\ Serves = "open"
      BY <1>1, <1>5, RaisedIsNamed, ErrorClasses DEF Handled, Serves, Classes
    <2>3. \A i \in 1..Len(gates) :
             /\ gates[i] \in IdGates => asked.op \in IdOps
             /\ gates[i] = "trimmed" => asked.op \in TrimmedOps
             /\ gates[i] \in BodyGates => asked.op \in BodyOps
      BY <1>2, <1>4 DEF Arguments, Has, IdGates, BodyGates
    <2>4. CASE ~ Parsed
      <3>1. PICK k \in 1..Len(gates) :
               gates[k] \in IdGates \cup BodyGates /\ Answer(s, gates[k]) = "BadRequest"
        <4>1. CASE asked.fault \in {"id", "padding"} /\ asked.op \in IdOps
          <5>1. PICK k \in 1..Len(gates) : gates[k] \in IdGates
            BY <1>2, <4>1 DEF Arguments, Has, Kinds
          <5>2. Answer(s, gates[k]) = "BadRequest"
            BY <1>5, <2>3, <4>1, <5>1, GateAnswers DEF IdGates
          <5> QED
            BY <5>1, <5>2
        <4>2. CASE asked.fault = "body" /\ asked.op \in BodyOps
          <5>1. PICK k \in 1..Len(gates) : gates[k] \in BodyGates
            BY <1>2, <4>2 DEF Arguments, Has, Kinds
          <5> QED
            BY <4>2, <5>1, GateAnswers DEF BodyGates
        <4>3. CASE asked.fault = "loose" /\ asked.op \in BodyOps
          <5>1. PICK k \in 1..Len(gates) : gates[k] = "body"
            BY <1>2, <1>5, <4>3 DEF Arguments, Has, Kinds
          <5> QED
            BY <4>3, <5>1, GateAnswers DEF BodyGates
        <4> QED
          BY <2>4, <4>1, <4>2, <4>3 DEF Parsed
      <3>2. n <= k
        BY <1>3, <3>1
      <3>3. CASE n = k
        BY <1>3, <1>8, <2>4, <3>1, <3>3 DEF Expected
      <3>4. CASE n < k
        <4>1. gates[n] \notin {"act", "serve"}
          BY <1>2, <1>3, <3>1, <3>4 DEF Guarded, IdGates, BodyGates
        <4>2. here \in {"open", "BadRequest"}
          BY <1>3, <1>4, <2>1, <4>1, GateAnswers DEF Gates, AuthGates, IdGates, BodyGates
        <4>3. here \notin {"open", "Ok"}
          BY <1>3, <3>4
        <4> QED
          BY <1>3, <1>8, <2>4, <4>2, <4>3 DEF Expected
      <3> QED
        BY <1>3, <3>1, <3>2, <3>3, <3>4
    <2>5. CASE Parsed
      <3>1. \A i \in 1..Len(gates) :
               gates[i] \notin {"act", "serve"} => Answer(s, gates[i]) = "open"
        <4> SUFFICES ASSUME NEW i \in 1..Len(gates), gates[i] \notin {"act", "serve"}
                     PROVE  Answer(s, gates[i]) = "open"
          OBVIOUS
        <4>1. CASE gates[i] \in AuthGates \cup {"slot", "query"}
          BY <2>1, <4>1
        <4>2. CASE gates[i] \in IdGates
          BY <2>3, <2>5, <4>2, GateAnswers DEF IdGates, Parsed
        <4>3. CASE gates[i] \in BodyGates
          BY <1>6a, <2>3, <2>5, <4>3, GateAnswers DEF BodyGates, Parsed
        <4> QED
          BY <1>4, <4>1, <4>2, <4>3 DEF Gates
      <3>2. gates[n] \in {"act", "serve"}
        BY <1>2, <1>3, <3>1 DEF Guarded
      <3>3. CASE gates[n] = "act"
        BY <1>3, <1>8, <2>2, <2>5, <3>3, GateAnswers DEF Expected
      <3>4. CASE gates[n] = "serve"
        <4>1. n > 1 /\ gates[n - 1] = "act"
          BY <1>2, <1>3, <3>4 DEF Guarded
        <4>2. Handled = "Ok"
          BY <1>3, <2>2, <4>1, GateAnswers
        <4> QED
          BY <1>3, <1>8, <2>2, <2>5, <3>4, <4>2, GateAnswers DEF Expected
      <3> QED
        BY <3>2, <3>3, <3>4
    <2> QED
      BY <2>4, <2>5
  <1> QED
    BY <1>7, <1>8

(* An operation on accounts passes the same gates on both surfaces.        *)
LEMMA AccountVerdict ==
  ASSUME SurfIInv, ~ disturbed, ~ KnownDifference, asked.op \in AuthOps,
         ~ Pending("ffi"), ~ Pending("http")
  PROVE  side["ffi"].answer = side["http"].answer
  <1> DEFINE way == AuthWay(asked.op)
             f == side["ffi"].at
             h == side["http"].at
  <1>1. CallTyped /\ Along("ffi") /\ Along("http") /\ {"ffi", "http"} = Sides
    BY DEF SurfIInv, Sides
  <1>2. /\ Shaped(Entry("ffi").gates) /\ Entry("ffi").gates[1] = "slot"
        /\ Len(Entry("ffi").gates) = Len(way) + 1
        /\ \A i \in 1..Len(way) : Entry("ffi").gates[i + 1] = way[i]
        /\ Entry("http").gates = way /\ Shaped(way)
        /\ Kinds(way) \subseteq {"body", "mode", "session", "act"}
    BY <1>1, EntryFacts DEF FfiWay, HttpWay
  <1>3. Len(way) \in Nat /\ Len(way) >= 1
    BY <1>2 DEF Shaped
  <1>4. /\ ready /\ asked.outcome # "panic" /\ asked.fault \notin {"ffi_form", "http_form"}
        /\ ~ (asked.op \in {"redeem", "regenerate"} /\ asked.outcome = "NotFound")
    BY DEF KnownDifference
  <1>5. /\ "InvalidState" \in Entry("ffi").names /\ "Conflict" \in Entry("ffi").names
        /\ "InvalidState" \in Entry("http").names /\ "Conflict" \in Entry("http").names
    BY <1>1, EntryFacts DEF FfiNames, Tells, Errors, LibraryOps, BareOps, AuthOps
  <1>6. \A gate \in {"body", "mode", "session", "act"} :
           Answer("ffi", gate) = Answer("http", gate)
    <2>1. Answer("ffi", "body") = Answer("http", "body")
      BY <1>4, GateAnswers DEF OwnForm
    <2>2. Answer("ffi", "mode") = Answer("http", "mode")
      <3>1. OtherMode \in {"InvalidState", "Conflict"}
        BY DEF OtherMode
      <3> QED
        BY <1>5, <3>1, GateAnswers DEF Translated
    <2>3. Answer("ffi", "session") = Answer("http", "session")
      BY <1>1, GateAnswers, AnswerTypes, RefusalIsNamed DEF AuthGates, Gates
    <2>4. Answer("ffi", "act") = Answer("http", "act")
      BY <1>1, <1>4, GateAnswers, RaisedIsNamed
    <2> QED
      BY <2>1, <2>2, <2>3, <2>4
  <1>7. \A i \in 1..Len(way) :
           /\ Answer("ffi", way[i]) = Answer("http", way[i])
           /\ Answer("ffi", Entry("ffi").gates[i + 1]) = Answer("http", way[i])
    BY <1>2, <1>6 DEF Kinds
  <1>8. /\ f \in 1..(Len(way) + 1)
        /\ \A i \in 1..(f - 1) : Answer("ffi", Entry("ffi").gates[i]) \in {"open", "Ok"}
        /\ \/ f = Len(way) + 1
           \/ Answer("ffi", Entry("ffi").gates[f]) \notin {"open", "Ok"}
        /\ side["ffi"].answer = IF Answer("ffi", Entry("ffi").gates[f]) = "open" THEN "Ok"
                                ELSE Answer("ffi", Entry("ffi").gates[f])
    BY <1>1, <1>2 DEF Along
  <1>9. /\ h \in 1..Len(way)
        /\ \A i \in 1..(h - 1) : Answer("http", way[i]) \in {"open", "Ok"}
        /\ h = Len(way) \/ Answer("http", way[h]) \notin {"open", "Ok"}
        /\ side["http"].answer = IF Answer("http", way[h]) = "open" THEN "Ok"
                                 ELSE Answer("http", way[h])
    BY <1>1, <1>2 DEF Along
  <1>10. f # 1
    BY <1>2, <1>3, <1>4, <1>8, GateAnswers
  <1>11. f - 1 \in 1..Len(way) /\ (f - 1) + 1 = f
    BY <1>3, <1>8, <1>10
  <1>12. Answer("ffi", Entry("ffi").gates[f]) = Answer("http", way[f - 1])
    BY <1>7, <1>11
  <1> HIDE DEF way, f, h
  <1>13. ~ (f - 1 < h)
    <2> SUFFICES ASSUME f - 1 < h PROVE FALSE
      OBVIOUS
    <2>0. f - 1 \in 1..(h - 1)
      BY <1>3, <1>9, <1>11
    <2>1. Answer("http", way[f - 1]) \in {"open", "Ok"}
      BY <1>9, <2>0
    <2> QED
      BY <1>3, <1>8, <1>9, <1>11, <1>12, <2>1
  <1>14. ~ (f - 1 > h)
    <2> SUFFICES ASSUME f - 1 > h PROVE FALSE
      OBVIOUS
    <2>1. h + 1 \in 1..(f - 1) /\ h \in 1..Len(way)
      BY <1>3, <1>8, <1>9
    <2>2. Answer("http", way[h]) \in {"open", "Ok"}
      BY <1>7, <1>8, <2>1
    <2> QED
      BY <1>3, <1>8, <1>9, <2>2
  <1>15. h = f - 1
    BY <1>3, <1>8, <1>9, <1>11, <1>13, <1>14
  <1> QED
    BY <1>8, <1>9, <1>12, <1>15

(* The same call with the same state gets an answer of the same class on   *)
(* both surfaces, whichever of their gates refuses it, but for the known   *)
(* differences (errors.rs, lib.rs and the routes).                         *)
THEOREM AgreementTheorem == SurfaceSpec => []SurfacesAgree
  <1>1. SurfIInv => SurfacesAgree
    <2> SUFFICES ASSUME SurfIInv, ~ Pending("ffi"), ~ Pending("http"), ~ disturbed,
                        ~ KnownDifference
                 PROVE  side["ffi"].answer = side["http"].answer
      BY DEF SurfacesAgree
    <2> QED
      BY GuardedVerdict, AccountVerdict DEF Sides
  <1> QED
    BY <1>1, SurfaceInvariance, PTL

(***************************************************************************)
(* The five parts together.                                                *)
(***************************************************************************)

(* A behaviour of the composition is one of each of its parts, which share *)
(* no state.                                                               *)
LEMMA PartsImplement ==
  RequestsSpec => AuthSpec /\ SurfaceSpec /\ InitSpec /\ LibrariesSpec /\ ClockSpec
  <1>1. RequestsInit => AuthInit /\ SurfaceInit /\ InitInit /\ LibrariesInit /\ ClockInit
    BY DEF RequestsInit
  <1>2. [RequestsNext]_requestVars => [AuthNext]_authVars
    BY DEF RequestsNext, requestVars
  <1>3. [RequestsNext]_requestVars => [SurfaceNext]_surfaceVars
    BY DEF RequestsNext, requestVars, FfiFirst
  <1>4. [RequestsNext]_requestVars => [InitNext]_initVars
    BY DEF RequestsNext, requestVars
  <1>5. [RequestsNext]_requestVars => [LibrariesNext]_libVars
    BY DEF RequestsNext, requestVars
  <1>6. [RequestsNext]_requestVars => [ClockNext]_clockVars
    BY DEF RequestsNext, requestVars
  <1> QED
    BY <1>1, <1>2, <1>3, <1>4, <1>5, <1>6, PTL
       DEF RequestsSpec, AuthSpec, SurfaceSpec, InitSpec, LibrariesSpec, ClockSpec

(* Accounts, calls, services, libraries and the clock keep their types     *)
(* beside each other.                                                      *)
THEOREM RequestsTypeCorrect == RequestsSpec => []RequestsTypeOK
  <1>1. AuthTypeOK /\ SurfaceTypeOK /\ InitTypeOK /\ LibrariesTypeOK /\ ClockTypeOK
          => RequestsTypeOK
    BY DEF RequestsTypeOK
  <1> QED
    BY <1>1, PartsImplement, AuthTypeCorrect, SurfaceTypeCorrect, InitTypeCorrect,
       LibrariesTypeCorrect, ClockTypeCorrect, PTL
====

------------------------------ MODULE MCStores ------------------------------
(***************************************************************************)
(* What is kept and looked up again: collections and bookmarks, the places *)
(* in watchlists and reading lists, cached thumbnails, and Heimdall's      *)
(* cached keys.  The four share no state, so a behaviour is one of one of  *)
(* them and `focus` names it.  Only the keys have liveness, and only they  *)
(* are scheduled fairly.                                                   *)
(***************************************************************************)
EXTENDS Collections, ProgressLists, Thumbnails, HeimdallKeys

VARIABLE focus

CONSTANTS w, r, video, comic

KindOfList == [l \in Lists |-> IF l = w THEN "watch" ELSE "reading"]
KindOfFile == [f \in ListFiles |-> IF f = video THEN "video" ELSE "comic"]

Signed(alg, k, g, claims) == [alg |-> alg, kid |-> k, signer |-> g, claims |-> claims]

\* Tokens of the owner, forged ones, and one that has expired.
PresentedTokens ==
    {Signed("ES256", k, k, AllClaims) : k \in Kids}
      \cup {Signed("ES256", k, Forger, AllClaims) : k \in Kids}
      \cup {Signed("HS256", k, g, AllClaims) : k \in Kids, g \in Secrets}
      \cup {Signed("ES256", k, k, AllClaims \ {"current"}) : k \in Kids}

storeVars == <<focus, collVars, listVars, thumbVars, keyVars>>

StoresInit ==
    /\ focus \in {"collections", "lists", "thumbnails", "keys"}
    /\ CollInit /\ ListsInit /\ ThumbInit /\ KeysInit
    \* one state is enough for a part out of focus
    /\ focus # "keys" => published = {CHOOSE k \in Kids : TRUE}

StoresNext ==
    /\ \/ focus = "collections" /\ CollNext /\ UNCHANGED <<listVars, thumbVars, keyVars>>
       \/ focus = "lists" /\ ListsNext /\ UNCHANGED <<collVars, thumbVars, keyVars>>
       \/ focus = "thumbnails" /\ ThumbNext /\ UNCHANGED <<collVars, listVars, keyVars>>
       \/ focus = "keys" /\ KeysNext /\ UNCHANGED <<collVars, listVars, thumbVars>>
    /\ UNCHANGED focus

\* The type invariants of the four parts.
StoresTypeOK == CollTypeOK /\ ListsTypeOK /\ ThumbTypeOK /\ KeysTypeOK

StoresSpec == StoresInit /\ [][StoresNext]_storeVars /\ KeysFairness
=============================================================================

---------------------------- MODULE Collections ----------------------------
(***************************************************************************)
(* Collections and bookmarks (alexandria-core/src/collections, bookmarks): *)
(* a collection groups files or bookmarks, a bookmark has the two-phase    *)
(* deletion files have, and an item is in at most one collection.          *)
(*                                                                         *)
(* A handler reads what it decides on and writes later, with no            *)
(* transaction around the two; each read and each write is an action. A    *)
(* write names its collection by uuid, so one that has vanished is NULL.   *)
(***************************************************************************)
EXTENDS Integers, FiniteSets

CONSTANTS
  Users,          \* concurrent callers
  Colls,          \* collections that may be created
  CollFiles,      \* files of the catalog
  Marks,          \* bookmarks that may be created
  RetentionDays,  \* retention_days
  MaxDay          \* bound on the clock

ASSUME CollectionsAssumption ==
  /\ RetentionDays \in Nat /\ MaxDay \in Nat
  /\ CollFiles \cap Marks = {}

NoColl == "no collection"
NoItem == "no item"
Never == -1
Free == [verb |-> "free", coll |-> NoColl, item |-> NoItem, todo |-> {},
         crossed |-> FALSE, day |-> 0]

VARIABLES
  coll,           \* the kind each collection was created with, or "absent"
  live,           \* the collections that exist
  item,           \* files and bookmarks: [state, link, deletedAt]
  busy,           \* the call each user has between two statements
  today           \* Clock::now, in days

collVars == <<coll, live, item, busy, today>>
Items == CollFiles \cup Marks
KindOf(i) == IF i \in CollFiles THEN "file" ELSE "bookmark"
Stored(i) == item[i].state \in {"active", "deleted"}

\* The types; and a bookmark's state and its deletion date go together,
\* whichever of two racing lifecycle calls writes last.
CollTypeOK ==
  /\ coll \in [Colls -> {"absent", "file", "bookmark"}] /\ live \subseteq Colls
  /\ item \in [Items -> [state : {"absent", "active", "deleted", "purged"},
                         link : Colls \cup {NoColl},
                         deletedAt : {Never} \cup 0..MaxDay]]
  /\ busy \in [Users -> [verb : {"free", "add", "link", "remove", "drop",
                                 "insert", "update", "delete", "restore", "purge"},
                         coll : Colls \cup {NoColl}, item : Items \cup {NoItem},
                         todo : SUBSET Items, crossed : BOOLEAN, day : 0..MaxDay]]
  /\ \A b \in Marks : (item[b].state = "deleted") = (item[b].deletedAt # Never)
  /\ today \in 0..MaxDay

CollInit ==
  /\ coll = [c \in Colls |-> "absent"] /\ live = {}
  /\ item = [i \in Items |-> [state |-> IF i \in CollFiles THEN "active" ELSE "absent",
                              link |-> NoColl, deletedAt |-> Never]]
  /\ busy = [u \in Users |-> Free]
  /\ today = 0

----------------------------------------------------------------------------
(* What the statements do.                                                 *)

\* (SELECT id FROM collections WHERE uuid = ?)
Resolved(c) == IF c \in live THEN c ELSE NoColl

Enter(u, verb, c, i) ==
  /\ busy[u] = Free
  /\ busy' = [busy EXCEPT ![u] = [Free EXCEPT !.verb = verb, !.coll = c,
                                              !.item = i]]
Exit(u) == busy' = [busy EXCEPT ![u] = Free]

\* a change of a bookmark's lifecycle while a purge of it is between its two
\* statements; kept for the property that names the race
Crossing(u, i) ==
  busy' = [v \in Users |-> IF v = u THEN Free
                           ELSE [busy[v] EXCEPT !.crossed =
                                   \/ @
                                   \/ busy[v].verb = "purge" /\ busy[v].item = i]]

----------------------------------------------------------------------------
(* Collections.                                                            *)

CreateCollection(c, kind) ==
  /\ coll[c] = "absent"
  /\ coll' = [coll EXCEPT ![c] = kind]
  /\ live' = live \cup {c}
  /\ UNCHANGED <<item, busy, today>>

\* AddItemsToCollectionHandler::add; the items in the caller's order
AddBegin(u, c, items) ==
  /\ busy[u] = Free /\ c \in live /\ items # {}
  /\ busy' = [busy EXCEPT ![u] = [Free EXCEPT !.verb = "add", !.coll = c,
                                              !.todo = items]]
  /\ UNCHANGED <<coll, live, item, today>>

\* an item of the other kind, or of none, is reported and passed over; the
\* kind is the one read at the start
AddLooksUp(u, i) ==
  /\ busy[u].verb = "add" /\ i \in busy[u].todo
  /\ LET belongs == Stored(i) /\ coll[busy[u].coll] = KindOf(i)
         rest == busy[u].todo \ {i}
     IN busy' = [busy EXCEPT ![u] =
          IF belongs THEN [@ EXCEPT !.verb = "link", !.item = i, !.todo = rest]
          ELSE IF rest = {} THEN Free ELSE [@ EXCEPT !.todo = rest]]
  /\ UNCHANGED <<coll, live, item, today>>

\* set_collection: an item purged meanwhile ends the call, a collection
\* deleted meanwhile is NULL
AddLinks(u) ==
  /\ busy[u].verb = "link"
  /\ IF Stored(busy[u].item)
     THEN /\ item' = [item EXCEPT ![busy[u].item].link = Resolved(busy[u].coll)]
          /\ busy' = [busy EXCEPT ![u] =
               IF @.todo = {} THEN Free
               ELSE [@ EXCEPT !.verb = "add", !.item = NoItem]]
     ELSE Exit(u) /\ UNCHANGED item
  /\ UNCHANGED <<coll, live, today>>

RemoveBegin(u, c, i) ==
  /\ c \in live /\ coll[c] = KindOf(i)
  /\ Enter(u, "remove", c, i)
  /\ UNCHANGED <<coll, live, item, today>>

\* clear_collection matches only while the link still names the collection
RemoveUnlinks(u) ==
  /\ busy[u].verb = "remove"
  /\ LET i == busy[u].item IN
     item' = IF Stored(i) /\ busy[u].coll \in live /\ item[i].link = busy[u].coll
             THEN [item EXCEPT ![i].link = NoColl] ELSE item
  /\ Exit(u)
  /\ UNCHANGED <<coll, live, today>>

DeleteBegin(u, c) ==
  /\ c \in live
  /\ Enter(u, "drop", c, NoItem)
  /\ UNCHANGED <<coll, live, item, today>>

DeleteCollectionOnly(u) ==
  /\ busy[u].verb = "drop"
  /\ LET c == busy[u].coll IN
     /\ live' = live \ {c}
     /\ item' = item
  /\ Exit(u)
  /\ UNCHANGED <<coll, today>>

\* delete_collection: unlink in both tables and delete, one transaction
DeleteCollection(u) ==
  /\ busy[u].verb = "drop"
  /\ LET c == busy[u].coll IN
     /\ live' = live \ {c}
     /\ item' = [i \in Items |-> IF item[i].link = c
                                 THEN [item[i] EXCEPT !.link = NoColl] ELSE item[i]]
  /\ Exit(u)
  /\ UNCHANGED <<coll, today>>

----------------------------------------------------------------------------
(* Bookmarks.                                                              *)

\* the check creation and update share: a collection of bookmarks, or none
Accepts(c) == c # NoColl => c \in live /\ coll[c] = "bookmark"

CreateMarkBegin(u, i, c) ==
  /\ item[i].state = "absent" /\ Accepts(c)
  /\ \A v \in Users : busy[v].item # i
  /\ Enter(u, "insert", c, i)
  /\ UNCHANGED <<coll, live, item, today>>

InsertMark(u) ==
  /\ busy[u].verb = "insert"
  /\ item' = [item EXCEPT ![busy[u].item] =
       [state |-> "active", link |-> Resolved(busy[u].coll), deletedAt |-> Never]]
  /\ Exit(u)
  /\ UNCHANGED <<coll, live, today>>

UpdateBegin(u, i, c) ==
  /\ item[i].state = "active" /\ Accepts(c)
  /\ Enter(u, "update", c, i)
  /\ UNCHANGED <<coll, live, item, today>>

\* update_bookmark writes whatever the state has become
UpdateMark(u) ==
  /\ busy[u].verb = "update"
  /\ LET i == busy[u].item IN
     item' = IF Stored(i) THEN [item EXCEPT ![i].link = Resolved(busy[u].coll)]
             ELSE item
  /\ Exit(u)
  /\ UNCHANGED <<coll, live, today>>

\* the handler reads the clock once it has looked, and the statement writes
\* that day whenever it runs
SoftDeleteBegin(u, i) ==
  /\ item[i].state = "active" /\ busy[u] = Free
  /\ busy' = [busy EXCEPT ![u] = [Free EXCEPT !.verb = "delete", !.item = i,
                                              !.day = today]]
  /\ UNCHANGED <<coll, live, item, today>>

SoftDeleteMark(u) ==
  /\ busy[u].verb = "delete"
  /\ LET i == busy[u].item IN
     /\ item' = IF Stored(i)
                THEN [item EXCEPT ![i].state = "deleted", ![i].deletedAt = busy[u].day]
                ELSE item
     /\ Crossing(u, i)
  /\ UNCHANGED <<coll, live, today>>

RestoreBegin(u, i) ==
  /\ item[i].state = "deleted"
  /\ Enter(u, "restore", NoColl, i)
  /\ UNCHANGED <<coll, live, item, today>>

RestoreMark(u) ==
  /\ busy[u].verb = "restore"
  /\ LET i == busy[u].item IN
     /\ item' = IF Stored(i)
                THEN [item EXCEPT ![i].state = "active", ![i].deletedAt = Never]
                ELSE item
     /\ Crossing(u, i)
  /\ UNCHANGED <<coll, live, today>>

\* PurgeBookmarkHandler: deleted, and for longer than the retention
PastRetention(i) == today - item[i].deletedAt > RetentionDays

PurgeBeginAnyDay(u, i) ==
  /\ item[i].state = "deleted"
  /\ Enter(u, "purge", NoColl, i)
  /\ UNCHANGED <<coll, live, item, today>>

PurgeBegin(u, i) ==
  /\ item[i].state = "deleted" /\ PastRetention(i)
  /\ Enter(u, "purge", NoColl, i)
  /\ UNCHANGED <<coll, live, item, today>>

PurgeMark(u) ==
  /\ busy[u].verb = "purge"
  /\ LET i == busy[u].item IN
     item' = IF Stored(i)
             THEN [item EXCEPT ![i] = [state |-> "purged", link |-> NoColl,
                                       deletedAt |-> Never]]
             ELSE item
  /\ Exit(u)
  /\ UNCHANGED <<coll, live, today>>

----------------------------------------------------------------------------
(* The catalog purges a file; days pass; a statement fails.                *)

CatalogPurges(f) ==
  /\ Stored(f)
  /\ item' = [item EXCEPT ![f].state = "purged", ![f].link = NoColl]
  /\ UNCHANGED <<coll, live, busy, today>>

NextDay ==
  /\ today < MaxDay
  /\ today' = today + 1
  /\ UNCHANGED <<coll, live, item, busy>>

CallFails(u) ==
  /\ busy[u] # Free
  /\ Exit(u)
  /\ UNCHANGED <<coll, live, item, today>>

Begin(u) ==
  \/ \E c \in Colls :
       \/ DeleteBegin(u, c)
       \/ \E items \in SUBSET Items : AddBegin(u, c, items)
       \/ \E i \in Items : RemoveBegin(u, c, i)
  \/ \E b \in Marks :
       \/ \E c \in Colls \cup {NoColl} : \/ CreateMarkBegin(u, b, c)
                                         \/ UpdateBegin(u, b, c)
       \/ SoftDeleteBegin(u, b) \/ RestoreBegin(u, b) \/ PurgeBegin(u, b)

Proceed(u) ==
  \/ \E i \in Items : AddLooksUp(u, i)
  \/ AddLinks(u) \/ RemoveUnlinks(u) \/ DeleteCollection(u)
  \/ InsertMark(u) \/ UpdateMark(u)
  \/ SoftDeleteMark(u) \/ RestoreMark(u) \/ PurgeMark(u)

CollNext ==
  \/ \E c \in Colls, kind \in {"file", "bookmark"} : CreateCollection(c, kind)
  \/ \E u \in Users : Begin(u) \/ Proceed(u) \/ CallFails(u)
  \/ \E f \in CollFiles : CatalogPurges(f)
  \/ NextDay

CollSpec == CollInit /\ [][CollNext]_collVars

----------------------------------------------------------------------------
(* Properties.                                                             *)

\* No item points at a collection that is gone or that holds the other kind,
\* though no foreign key says so and every check is a statement earlier than
\* its write (collections/repos.rs, delete_collection).
LinksResolve ==
  \A i \in Items : item[i].link # NoColl => item[i].link \in live /\ coll[item[i].link] = KindOf(i)

\* A bookmark is removed only when it is deleted and its retention is over,
\* unless a restore or a deletion got in between the two statements of the
\* purge, which deletes by uuid alone.
PurgeAwaitsRetention ==
  [][\A b \in Marks : item[b].state # "purged" /\ item'[b].state = "purged" =>
       \/ item[b].state = "deleted" /\ PastRetention(b)
       \/ \E u \in Users : /\ busy[u].verb = "purge" /\ busy[u].item = b
                           /\ busy[u].crossed]_collVars
=============================================================================

# TLA+ development of alexandria-api

Alexandria catalogs a personal media library. One process holds a SQLite
database, a background runtime and two surfaces, HTTP (`alexandria-http`) and a
C ABI (`alexandria-ffi`), over one core (`alexandria-core`). This directory
holds the TLA+ models of the core, the TLC configurations that check them, and
the theorems TLAPS proves about them.

## Inventory of the system

| component | state it keeps | operations | interacts with | hard behaviour | what makes it correct |
|---|---|---|---|---|---|
| Catalog runs (`catalog/runs.rs`, `commands/{index,refresh,run_control}.rs`) | rows of `catalog_runs`: status, phase, segment, tally, pause columns | start, walk, pause, cancel, resume, close, flush | registry, transports that spawn walks | walks and control calls interleave at every await; guarded and unguarded writes race | one lifecycle per run; stops are asked for; closed stays closed; nothing stranded |
| Run registry (`catalog/run_registry.rs`) | in-memory map run id → cell (signal, phase, counters) | open, raise, snapshot, close if owned | walks write, control and status read | cells of two segments of one run overlap; panics | a cell belongs to a walk that is running |
| Startup (`services.rs`, FFI `alexandria_index_init`) | the slot that holds the services | pause rows left running; replace services | `catalog_runs`, registry | crash and restart; a second init beside runs being started | no row waits for a process that is gone; a run that was live is not paused by a second init |
| Catalog walk (`index_entry`, `refresh_one`, `extraction.rs`, `fs.rs`) | `files` rows, disk | insert, refresh stat, mark missing, fill metadata | every file operation | stat by a stale path; entries run concurrently | one row per path; a missing mark and a stat describe the row's own file |
| File lifecycle (`soft_delete`, `restore`, `purge`, `purge_on_disk`, `rename`, `edit_content`) | `files` rows, disk | the six operations | each other, the walk | check-then-act over two statements; disk and catalog written one after the other | nothing active is purged; disk and catalog agree after a failure |
| Local auth (`auth/`) | account, recovery codes, sessions | register, login, redeem, regenerate, authenticate | every handler | three tables written one after the other | codes are spent once; a redemption ends all sessions |
| Heimdall tokens and keys (`auth/heimdall.rs`, `auth/jwks.rs`) | keys by kid, time of fetch and of attempt, one mutex | authenticate, key | Heimdall | failed fetches, staleness, refetch interval | withdrawn keys expire, refusals of published keys are brief, new keys are learnt |
| Collections and bookmarks | collections, bookmarks, the link of each item | create, add, remove, rename, delete, restore, purge | files | check-then-act; no foreign keys | links resolve; retention is waited for |
| Watchlists and reading lists | lists, one progress row per list and file | create, add, update, remove, delete | files | check-then-act | transitions are those of the state diagram; no orphan rows |
| Libraries | root paths, `files.library_id` | register, move, remove, browse | index runs, renames | two transactions per registration and move, overlap check before insert | a file is held by a library that lists it; roots do not overlap |
| Playback | thumbnail cache | thumbnail, comic page, byte range | files | render after the row is read; concurrent renders | nothing half-written, nothing older than the row |
| Surfaces (HTTP routes, C functions) | the services they fetched | gates, call, translation of errors | every handler | the order of gates on two surfaces; what changes between them | the same answer on both; nothing before authentication |
| Pure algorithms | none | retry on busy, active time, scope, root bounds, byte ranges, file names | – | boundaries | agree with a reference definition |

`PROJECT.json` lists every component with its sources and status, and every
hazard at its line with the properties that cover it.

## Modules

| module | what it is |
|---|---|
| `RunControl` | catalog runs, the registry, the control and status requests, startup reconciliation |
| `RunLifecycle` | abstract specification: what the record of a run promises, with no registry, signals or program counters |
| `MCRunControl` | model values, symmetry and fault sets for TLC |
| `RunControlProofs` | type correctness, the inductive invariants and the safety theorems of `RunControl`, and that it implements `RunLifecycle` |
| `FileLifecycle` | the operations on one file over the files table and the disk |
| `FileLibrary` | abstract specification: what renames, soft deletes and restores promise the owner of a library |
| `CatalogWalk` | extends `FileLifecycle` with what an index or a re-index does to the catalog, entry by entry |
| `MCFileLifecycle`, `MCCatalogWalk` | model values and the sets of targets and entries for TLC |
| `RunClock` | the clock columns of a run's row and the time a status answers |
| `LocalAuth` | the account, its recovery codes and its sessions, under six commands |
| `Surfaces` | every operation as a sequence of gates on each of the two surfaces |
| `ReInit` | `alexandria_index_init` called again while runs are started |
| `Libraries` | libraries, the files they hold, moves beside index runs and renames |
| `MCRequests` | composes the five modules above for TLC |
| `Collections` | collections and bookmarks |
| `ProgressLists` | watchlists and reading lists |
| `Thumbnails` | the thumbnail cache |
| `HeimdallKeys` | bearer tokens and the cache of Heimdall's keys |
| `MCStores` | composes the four modules above for TLC |
| `RunClockProofs` | the types and the inductive invariant of the clock, and the bound on the time a run reports |
| `FilesProofs` | theorems about `FileLifecycle` and `CatalogWalk` |
| `LocalAuthProofs` | theorems about `LocalAuth` |
| `HeimdallKeysProofs` | theorems about `HeimdallKeys` |
| `StoresProofs` | theorems about `Collections`, `ProgressLists`, `Thumbnails` and the types of `MCStores` |
| `LibrariesProofs` | theorems about `Libraries` and `ReInit` |
| `RequestsProofs` | theorems about `Surfaces` and the types of `MCRequests` |

### How `RunControl` corresponds to the code

* `row[r]` is the row of run `r`. Its operators (`PausedRow`, `CancelledRow`,
  `ResumedRow`, `Finished`, ...) are the UPDATE statements of
  `SqliteCatalogRunRepository`, `PauseApplies`, `CancelApplies` and
  `SegmentGuard` their WHERE clauses. A statement is one SQLite transaction and
  one action.
* `cell[r]` is the registry. Which cell is registered is named by the segment
  of the walk that opened it: a run's segments are numbered by its resumes and
  each spawns one walk, so `<<r, g>>` names the task, and `Arc::ptr_eq` in
  `close_if_owned` is equality of segments. Signal and phase live in `walk`,
  since a walk keeps its cell when another one replaces it in the map.
* `walk[w]` is a task running `IndexHandler::execute` or
  `RefreshHandler::execute`; both have the same control flow. Each action is
  what happens between two awaits: `Open`, `ReadRow`, `Discover`, `FirstFlush`,
  `HaltEntry`/`IntervalFlush`/`Drain` (the concurrent entry loop), `FinalFlush`,
  `DropCell`, `WriteEnd` or `WriteFailed`. `known` is the captured segment,
  `Waived` when the row could not be read.
* `call[c]` is a request: `Lookup` is the SELECT it starts with,
  `CheckRegistry` the look at the registry and the raise (two synchronous
  operations on one cell; a walk that drops its cell between them is
  indistinguishable from one that is past its last look at the signal, which
  the model has), `WriteStop` and `WriteResume` the guarded UPDATE, `Overlay`
  the status overlay. A request that is refused at its lookup changes nothing
  and is left out.
* `Restart` ends every task and request, empties the registry and runs
  `pause_running`.
* `acked` is a history variable: which stops were answered Ok and are still in
  force (a resume supersedes them, except those raised on the cell of a walk
  that has yet to read its row).
* Faults are a constant set, so that each run and each theorem names what may
  go wrong: a failed row read, listing, flush or closing write, a panic, a
  request dropped before it spawns its walk, a crash, a failed reconciliation.
  `retry_on_busy` is inside the fault: a write either happened or failed after
  its attempts.

Abstracted away: counters, timestamps (only whether they are set), priorities,
scope, the failure list, what an entry does to the catalog. Two bounds:
`MaxSegment` caps the resumes of one run, the size of `Callers` the requests in
flight.

### How `FileLifecycle` corresponds to the code

* `row[u]` is the row of a file: its `state` (`"none"` before the row exists,
  `"purged"` once it is deleted from the table), `path`, `deletedAt`, `hash`,
  `stamp` (the pair of size and mtime), `missing`, and of the metadata one
  editable field, `title`, with where its value comes from, and whether the
  file was extracted by the current version. `SoftDeleted`, `Restored`,
  `Renamed`, `Rehashed` and `Retitled` are the UPDATE statements of
  `SqliteCatalogRepository`; those that go by uuid change the row whatever its
  state, as the code does, and `UpdatePath` is `WHERE path = ?`.
* `disk[p]` is what is at a path: whether something is, which file it is
  (`id`, which no code reads: it is how the properties tell one file from
  another), its bytes and its stamp. Every write gives a file a stamp no file
  has had: what the code cannot tell apart (a write that keeps size and mtime)
  is out of scope, as it is for the code. A hash stands for the bytes it is of.
* `op[c]` is a request after its lookup. Its fields are what the handler keeps
  in its locals: the path and the time of deletion it read, the time it was let
  in, the target of a rename, the content of an edit and the stat it took.
  `Ask` is the lookup and the checks of the state; a request that is refused
  changes nothing and is left out. Each further action is one statement or one
  system call: a rename is `FindTarget`, `ProbeTarget`, `MoveFile`,
  `RenameRow`, `RereadRow` and, after an error, `RollBack`; an edit is
  `SaveContent`, `VerifyContent`, at most one second round of the two,
  `StatContent` and `RecordContent`; a purge on disk is `RemoveFile` and
  `PurgeRow`; the others are one statement.
* `now` counts days, the unit of `deletion.retention_days`; `writes` numbers
  the stamps.
* Faults: a statement fails (`db`), the SELECT after a committed rename fails
  (`reread`), a system call fails or tears a write (`disk`), the file cannot be
  moved back (`stuck`), another program writes or removes files (`external`),
  the process ends (`crash`).

Left out because they refuse before anything changes: authentication, the
syntax of file names, the check against the library root, the text type of an
edit. `path_exists` answers false for a path it cannot stat; the model lets it
see what is there.

`Library` is the mapping under which renames, soft deletes and restores implement
`FileLibrary`: states and paths are those of the rows, and the folder is the
disk with the moves undone whose rename has yet to settle its row. The two
halves of a rename, on disk and in the catalog, become one step at the write of
the row, and a rename that fails becomes no step at all.

### How `CatalogWalk` corresponds to the code

A walk lists once and processes entries concurrently, later, against a catalog
and a disk that have moved on. Each entry is an actor: `refresh[<<run, u>>]` is
`refresh_one` on the row of `u` as it was listed, `index[<<run, p>>]` is
`index_entry` on the file found at `p` with the stat of the listing. Entries
start independently of each other, which allows every order of a walk's list
and every mix of two runs' lists, and more. An entry that is at rest may be
listed again: a later run. `FileStep` is a step of `FileLifecycle`; a restart
ends the entries as well. Actions are between two awaits: `StatRow`,
`MarkMissing`, `RefreshStat`, `FillMetadata` (`COALESCE`, a failed write is
stepped over), `StampRefreshed`; `FindRow`, `InsertFile`, `ReplaceMetadata`,
`StampIndexed`. `alone` is history: nobody else has changed a row or the disk
since the entry was listed.

Only the editable field stands for the metadata; the technical columns, the
library of a file and the failure list of a run are left out.

### How `RunClock` corresponds to the code

`run` is the part of the row that keeps time: status, `started_at`,
`finished_at`, `paused_at`, `paused_millis` (`paused`) and the segment. A write
is two steps: its caller takes the time (`AskStop`, `Bank`, `WalkEnds`), and the
guarded UPDATE lands later (`WritePause`, `WriteCancel`, `WriteResume`,
`WriteEnd`), on whatever the row is by then, or never (`Unwritten`:
`retry_on_busy` gives up, or the request is dropped). A resume also reads the
row first, and its UPDATE writes the sum it worked out then. `ActiveMillis` is
the arithmetic of `overlay_live_state`. Time is one unit per tick; `SetBack`
sets the system clock back. `ran`, `downtime` and `late` measure what the
answer should have been.

### How `LocalAuth` corresponds to the code

`credential`, `codes` and `sessions` are the three tables; `job[c]` is a call
between two of its statements, each of which is an action: `RegisterInsert`,
`RegisterCodes`, `OpenSession`, `SetWrite`, `RegenerateCodes`,
`RedeemConsume`, `RedeemPassword`, `RedeemSessions`. `...Check` is what a
handler does before its first write. A refused call changes nothing and is left
out. Any statement may fail (`StatementFails`) and the process may restart, in
another auth mode. A password is a value (its hash is of it alone), a code is
the number of its set and its number in it.

The properties concede what the code does: a login that verified the old
password before a redemption may write its session after it (`crossed`); a
redemption that stops between the password and the sessions leaves them
(`cutShort`); a registration that stops before `replace_all` leaves an account
without codes (`lostCodes`), which `register.rs` says itself. In Windows mode a
session may outlive a restart into local mode, and `set_credentials` then
creates the account by its upsert: `PasswordIsEarned` counts it as earned by a
live session.

### How `Surfaces` corresponds to the code

`Ffi` and `Http` give each operation its gates in the order of the source:
`slot` (the services are initialised), `gate` and `bearer` (authentication
before anything else), `id`, `trimmed` (an id that is trimmed first), `body`,
`lenient`, `query` (an argument parses), `session` (the handler authenticates),
`mode`, `act` (the handler) and `serve` (the body is streamed), and the errors
its map names. `RefusedAt` says which faults of the arguments each gate refuses,
and `FaultsOf` which an operation can have:

* `id`, `padding` and `query`: an id that does not parse or has blanks around
  it, and an argument HTTP alone parses (the flags of a deletion, the path of a
  listing, the status of a run, the number of a page);
* `body`: what both surfaces refuse (no JSON object, a required field that is
  missing or of the wrong type, an unknown value);
* `loose`: a field of the wrong type. A typed field refuses it, and so do the
  strict readers of the FFI. A `lenient` reader (`.and_then(|v| v.as_str())`)
  takes it for absent: in the two progress updates and the five listings the
  call goes on without the field; for `register_library` and `move_library` the
  field reads as blank, which the handler refuses after it has authenticated,
  hence their second gate `body`;
* `ffi_form` and `http_form`: what one surface alone refuses in a body the other
  takes. The FFI refuses a null pointer, an array in the place of an object (a
  derived reader takes one) and a filter that is no JSON; HTTP a repeated key, a
  media type that is not JSON, bytes that are not UTF-8 and too long a body.

A call is made on both surfaces at once, with at most one bad argument and with
an outcome the handler may have; a session may end, the session store go down or come up, the
outcome change or the slot be filled between any two gates. Answers are
compared by class (an FFI status, an HTTP status). `DomainError::Unavailable`
and `TooManyRequests` are raised nowhere and left out.

`KnownDifference` lists what differs, and `SurfacesAgree` holds for everything
else: an FFI that is not initialised; a failing session store, which the gate of
the C functions reports as a refusal and the middleware as an error; a panic; an
argument only one surface takes or trims; a form of the body only one refuses;
an optional field of the wrong type in one of the operations of
`DropsWrongTypes`, which the FFI drops and HTTP refuses; a file that vanishes
under a stream; and a recovery operation without an account, which
`map_auth_err` does not name. Each of them is needed: without it TLC finds a
call the two surfaces answer differently.

### How `ReInit` corresponds to the code

`slot` is `SERVICES`, a set of services the number of its build. `Look` is the
first look for live runs, `Refuses` and `Builds` what follows it (`Builds`
pauses the rows of runs that say running), `Swaps` the second look and the
swap under the lock. A run is started by another thread in steps: it fetches
the services, writes its row and spawns, and the walk opens its cell. Two
things the comments do not say: BUSY of the second look comes after the rows
have been paused; and a run whose starter fetched the services before the swap
opens its cell in a registry nobody can reach.

### How `Libraries` corresponds to the code

`root[l]` is the row of a library, `at[f]` and `holder[f]` the path and
`library_id` of a file. A path is its segments, so that `Within` is the prefix
comparison of SQL with its separator, `Beneath` the same comparison of a file
with a root (`root/` is a prefix of no file at `root` itself) and `Relocated`
the cut and the concatenation of a move. A registration is `CheckOverlap`, `InsertLibrary`,
`ClaimFiles`; a move `FindLibrary`, `CheckOverlap`, `MoveRoot`, `ClaimFiles`; a
removal `FindLibrary`, `DeleteLibrary`; any of them may stop after any
statement. An index run inserts a file with the library found in the insert
itself; a rename writes a path it worked out from one it read. The history
variables name the exceptions: `slipped` (a root written between the other's
check and write), `strayed` (a rename's path written over a move's), `unclaimed`
(a claim that never ran, or an overlapping library removed).

### How `Collections` corresponds to the code

`item[i]` is a file or a bookmark with its `collection_id` and, for a bookmark,
its lifecycle; `busy[u]` a call between its look and its write. Adding links the
items one by one; a link whose collection has gone since is set to NULL without
a word, the one silent way to lose it. A bookmark's purge deletes by uuid: a
restore or a second deletion in between does not stop it (`crossed`).

### How `ProgressLists` corresponds to the code

The two components have one shape, told apart by `ListKind`. `progress` is the
table of places. Adding is four statements, the last of which reads the row
back; updating is `find_progress`, `ValidTransition` and an UPDATE by list and
file. A reading list reads the updated row back; a watchlist answers with what
it was asked to store. Two updates that
looked at one state both write: `ForwardUnlessRaced` marks their entries
`raced`.

### How `Thumbnails` corresponds to the code

A request reads the row, looks for the picture of its key, renders what is at
the path, writes a scratch file in two steps and renames it. A key is uuid and
mtime of the row, and a picture the version of the file it shows; a version is
an mtime. Requests for one key run at once, the file changes and a refresh
records its stat at any step, and the process may end. A picture may be newer
than the row it is kept under. Left out is the row without an mtime, whose key
is of its uuid alone and never goes stale by itself.

### How `HeimdallKeys` corresponds to the code

`authenticate` checks the token (algorithm, then key, then signature, then
claims) around `JwksCache::key`, which holds its mutex across the fetch. The
cache compares `now` with two stored instants only; the model keeps the two
ages, capped at the intervals they are compared with, so that time goes on
without bound in a finite model. Heimdall is the environment: it publishes and
withdraws keys and can be reached or not. A request dropped during its fetch
leaves the stamp of an attempt and no keys, which is what a fetch that fails
leaves, and is in the model as one.

### The runs

#### Catalog runs

| run | instance | checks |
|---|---|---|
| `control` | 1 run, 2 callers, 2 segments, pause, cancel and resume, failed listings, closing writes and reconciliations, panics, crashes, dropped requests | `TypeOK`, `RegistryOwned`, `RowShape`, `CompleteIsWhole`, `OnlyOwnerCloses`, `HaltsAreAsked`, `FollowsLifecycle` |
| `liveness` | 1 run, 1 caller, 2 segments, the control verbs and status, failed reads and flushes, crashes | `RunningIsOwed`, `ViewConsistent`, `RunningIsTransient` |

Runs share no state but the table and the map, keyed by id, so one run is
enough for properties of one run. Two segments are what the segment guard and
the ownership of a cell tell apart. Two callers are needed for a pause and a
resume to land around a third actor's write. `control` leaves out a failed read
of the row, which waives a walk's segment by design and would let it stop a
later one; `HaltsAreAsked` is proved for every set of faults without that one,
the other properties for every set (below). A failed flush changes nothing a control call can see and is
left to `liveness`. `ViewConsistent` excepts a run with an
acknowledged cancel and one that has been resumed: a cancel written just before
a walk opens its cell is read as cancelled and discovering (`run_status.rs:101`;
`index.rs:606` says no reader can see that). Deadlock checking is off: once
every run is closed the system rests.

#### Files and walks

| run | instance | checks |
|---|---|---|
| `file_renames` | 2 files, 4 paths, 3 callers: two rename, each its own file to names of its own, one soft-deletes and restores; failed statements and system calls | `RenamesAreAtomic` |
| `cata_alone` | 1 file, 2 paths, 1 caller, every operation but the hard purge, a re-index, 2 writes, every fault of the process's own | `WalkTypeOK`, `RefreshHeals`, `HashDescribesBytes`, `OwnerEditsStand`, `NoFileLost` |
| `cata_two_runs` | 1 file cataloged and 2 fresh uuids, 2 paths, 2 callers who soft-delete, restore and purge over 2 days, one of whom renames, 2 index runs, failed statements and crashes | `RowsSound`, `WindowsDisjoint` |
| `cata_converges` | 2 paths, a re-index, an index, renames and purges on disk, one write and any removals from outside | `CatalogConverges` |

Two callers are enough for a check and an act to come apart, a third for
something to happen to the row in between. Two paths let a name be taken while
another is free; four give each of two callers a name to leave and a name to
take. After a crash between the halves of a rename, an edit creates a second
file at the path of the row, so that one row is enough for two files to meet at
a name in `cata_alone`. Two writes let a stat, a hash and a listing each be
stale by one. One write from outside is enough for a file to change or come
back under a walk. Symmetry is used for callers, fresh uuids and runs in
invariants and action properties only. Deadlock checking is off: requests need
not come, and the clock and the writes are bounded.

The passing runs assume what these properties need, and the assumption is in
the instance. `file_renames` gives each caller names of its own and keeps
purges and crashes out: a second file at a rename's path, or a row that goes
between a move and its rollback, breaks the agreement of catalog and disk.
`cata_alone` has one request at a time for the same reason. `RenamesSpec` is the
part of `Next` that the requests of `file_renames` are made of; the other
operations run in the instances of `CatalogWalk`.

#### Requests and stores

| run | instance | checks |
|---|---|---|
| `requests` | `LocalAuth`: 2 clients, 2 strong passwords and a weak one, 1 code, 2 sets, 2 sessions, local and Windows mode. `Surfaces`: every operation, every fault. `ReInit`: 2 runs, 3 calls, 3 sets of services. `Libraries`: 2 libraries, 2 files, 2 requests in flight, 4 in all, a folder, one inside it and one apart. `RunClock`: 2 writes in flight, 2 requests beside the walks' own ends, the times 0 to 2, the clock set back once | `RequestsTypeOK`; `CodeBuysOneRedemption`, `AccountHasCodes`, `RedemptionEndsSessions`, `PasswordIsEarned`; `SurfacesAgree`, `UnauthenticatedLearnsNothing`; `LiveAtTheLookIsLeftAlone`; `OverlapsWereRaced`, `HeldFilesAreListed`, `NothingLeftUnclaimed`; `ActiveIsTimeRun` |
| `stores` | `Collections`: 2 users, 2 collections, a file and a bookmark, 2 days and a retention that ends with the first. `ProgressLists`: 2 viewers, a watchlist and a reading list, a video and a comic. `Thumbnails`: 2 requests, 3 versions. `HeimdallKeys`: 2 requests, 2 keys, a secret, tokens of the owner, forged and expired, a maximum age of 3, an interval of 2 and a timeout of 1 | `StoresTypeOK`; `LinksResolve`, `PurgeAwaitsRetention`; `ProgressRowsLive`, `ForwardUnlessRaced`; `NeverOlderThanRow`; `AcceptedKeyIsCurrent`, `PublishedKeyRefusedBriefly`, `KeysAreLearnt` |

The modules of a run share no state. `focus` picks the one a behaviour is of,
the others keep their initial state, so the run checks each module as a run of
its own would, and its state count is the sum and not the product. Two
concurrent calls are what every race of these handlers needs, since each has
one decision and one or more writes; a third call of `index_init` lets one
build while two look. Two roots that nest and one apart are the three ways two
folders can lie. A walk may end by a pause, so two requests are enough for a
run to be paused and resumed twice, and for two resumes of one pause. In
`requests`, the two callers and the two interchangeable things they name are
exchanged by symmetry, which is the same exchange in every module; it has no
liveness property. `stores` has one, and no symmetry. Since the call on one
surface neither reads nor writes what the call on the other does, `requests`
lets the C function answer before the route takes its first gate (`FfiFirst`):
every behaviour of either is kept, and at most one thing changes beside the end
of the session.

#### What the comments say and the code does not do

| run | the comment | the behaviour |
|---|---|---|
| `cancel_undone` | cancelled is terminal (`runs.rs:74`) | a cancel written after the walk dropped its cell is answered Ok and overwritten by the walk's unconditional `finish` |
| `file_collision` | "the right move is to refuse first" (`rename.rs:181`) | two renames to one name pass both checks; the second move replaces the first file |
| `file_purge_active` | "already verified the row is `deleted` and past retention" (`repos.rs:1832`) | a restore let in on its last day writes between the purge's check and its delete: the active row is purged |
| `downtime` | "the time the process spent down is banked and not later reported as work" (`runs.rs:556`) | startup stamps the pause with the time of the start, so the time since the last process ended counts as work (`services.rs:401`) |

One comment more is not kept, and is a named exception of `SurfacesAgree` instead
of a run of its own: the routes of the two progress updates refuse a body
"matching the FFI surface's handling of the same payload" (`watchlists.rs:148`,
`reading_lists.rs:153`) and the C functions read "the same JSON" (`lib.rs:2764`),
but of `{"state": "watching", "currentEpisode": "5"}` the route makes a 400 and
the C function an update that clears the episode and answers Ok
(`lib.rs:2781`, `3366`). The five listings drop a filter of the wrong type in
the same way. Without `DropsWrongTypes` in `KnownDifference`, `requests` finds
this.

Three of the properties that pass are at their limit, and widening the instance
shows where:

* `RenamesAreAtomic` fails when `file_renames` has the fault `"reread"`: the row
  of a rename is committed, the SELECT after it fails, and the handler moves
  the file back under a row that has the new path (`rename.rs:203` says the
  transaction has rolled back).
* `HashDescribesBytes` fails with two callers that edit different contents: the
  second writes between the first one's verification and its stat
  (`edit_content.rs:128`). `VerifiedTheorem` says that this window is the only
  one.
* `OwnerEditsStand` fails when the file is being indexed for the first time:
  the row is visible before its tags are written, and an edit in between is
  replaced by them (`extraction.rs:36`).

And some things the models allow that no property forbids, since nothing else
in the system depends on them:

* a pause and a resume before the first step of a walk leave two walks of one
  run (`index.rs:361` names a narrower window);
* a walk whose closing gap held a pause and a resume completes the row of the
  next segment;
* a signal raised after the walk's last look is acknowledged and ignored;
* two soft deletes re-stamp `deleted_at`;
* a purge on disk whose file a rename has moved removes the row and leaves the
  file;
* a re-index between the halves of a rename marks the row missing and the mark
  moves with it, until the next re-index;
* a resume that read a pause which another resume has ended since, and which has
  been followed by a new one, writes its sum over the banked time
  (`run_control.rs:217`): the time a run reports is off by the pauses of others
  (`measured` of `RunClock`).

### Fairness

`FairSpec` adds weak fairness of `WalkStep(w)` for each walk. Tokio polls every
spawned task until it completes, the listing is finite and every await in the
walk returns (or fails, which is a step), so a walk that can step does. Nothing
is assumed of callers, panics, restarts or the interval flush. The liveness
properties leave out the faults that lose a walk or its last write, since those
strand a row until the next start, as the code says itself.

`FairWalkSpec` adds weak fairness of `RefreshEntry(e)` and `IndexEntry(e)`.
For the steps of an entry that is under way this is the scheduler, as above.
For `ListRow` and `ListFile` it is the premise that somebody keeps re-indexing
and indexing: the code has no schedule of its own, so `CatalogConverges` says
what further runs achieve and not that they happen. Its instance has no
failures: an entry that fails for ever heals nothing. Nothing is assumed of
requests; the property is conditional on their coming to rest.

`KeysFairness` adds strong fairness of `Serve(r)`, the steps of a request that
can take the mutex or has it: tokio's mutex is fair and hands itself to waiting
requests in turn, and a fetch ends by `FETCH_TIMEOUT` at the latest. Weak
fairness of `KeysTick` and `Leave(r)` says that time passes and answered
requests go. Nothing is assumed of Heimdall or of callers: `KeysAreLearnt` is
conditional on a key's staying published and reachable and on tokens that keep
naming it.

### The proofs

`RunControlProofs` proves, for every set of runs and callers, every bound on
segments, every set of verbs and of faults:

* `TypeCorrect`, one lemma per kind of step;
* `Invariance`: `IInv`, the conjunction of `TypeOK`, `GoodRows`, `GoodWalks`,
  `RegistryOwned` and `RunningIsOwed`. `RowShape`, `CompleteIsWhole` and
  `RunningIsOwed` are not inductive alone: whether a walk's closing write keeps
  a row whole depends on what the walk remembers (a walk with a halted entry
  has a stop to record, and holds its segment or has waived it), and whether a
  running row is owed depends on which segments have been spawned. `GoodWalks`
  states the first, `GoodRows` the second together with the shape of each row;
* the safety theorems `RegistryTheorem`, `RowShapeTheorem`, `CompleteTheorem`,
  `OwedTheorem` and the action theorems `ClosedTheorem` and
  `OwnerClosesTheorem`, from `IInv`;
* `ViewTheorem`: `ViewConsistent`, under every fault. Its invariant `ViewIInv`
  follows a run on its first segment that nobody cancelled: once its row is
  closed, its one walk is over and its row has no phase (`QuietWhenClosed`), so
  that a status that read it closed meets no cell afterwards (`Seen`). `AckedMoves`
  says once for all steps that stops are forgotten by resumes only;
* `HaltsTheorem`: `HaltsAreAsked`, for faults without a failed read of a row.
  Its invariant `HaltIInv` follows each stop from the cell to the closing write:
  what a walk has been told is in force for as long as its run is on the segment
  the walk knows, or the walk has yet to read it (`Told`). A resume supersedes
  the others, since no walk knows the new segment yet.

It ends with `RefinementTheorem`: `Spec => Lifecycle!Spec`, one lemma per kind of
step: it maps to a step of the lifecycle or to a stutter.

Assumptions used: `SegmentAssumption` (`MaxSegment \in Nat`),
`VerbsAssumption` and `FaultsAssumption` (both sets are subsets of the known
ones). `Runs` and `Callers` may be any sets.

`RunClockProofs` proves, for any set of writes under way, any number of requests
and ticks, and a clock that may be set back:

* `ClockInvariance`: `ClockIInv`. The bounds on what a status answers are not
  inductive: a write moves the clock of a run by as much as its stamp is older
  than its landing, so that every stamp must be known not to be ahead of the
  clock (`Behind`), and a resume writes a sum it worked out from a row that may
  have changed (`HandsReady`). `Account` is the reported time before it is cut
  off at zero; `WriteKeeps` says once for all writes that one which moves it by
  no more than its lateness keeps the invariant;
* `ActiveTheorem`: `ActiveIsTimeRun`;
* `ClockTypeCorrect`. The segments of a run are bounded because every resume is
  a request, and requests are counted when they are made: the segment and the
  resumes under way together never exceed the count (`Counted`).

Only the types use an assumption, `ClockAssumption`: `Hands` may be any set, and
the bound rests on no limit of time or of requests.

`FilesProofs` proves, for any files, paths, callers, targets, retention and
sets of entries:

* `TypeCorrect`, `WalkTypeCorrect`: the types of both modules;
* `RowsTheorem`: `RowsSound`, inductive with the types: each statement checks
  the uniqueness of paths itself, and each that moves a row in or out of
  deletion sets or clears the time with it;
* `WindowsTheorem`: `WindowsDisjoint`. What is inductive is that each request
  was let in while its own window was open (`AdmittedInWindow`), of the time of
  deletion it read and the time it read it at;
* `RefreshTheorem`: `RefreshHeals`. `Knows(e)` says what an entry that nobody
  disturbed knows at each of its steps: the path, the stamp and the mark of its
  row, then what the disk holds, then that the row agrees;
* `OwnerTheorem`: `OwnerEditsStand`, where nothing is indexed for the first time
  (`Indexes = {}`);
* `VerifiedTheorem`: `HashDescribesBytes`, for any callers, other programs,
  walks and crashes, of the behaviours in which nobody touches a file between
  the verification of an edit and its stat (`VerifiedStays`). A row's hash is of
  its stamp and not of its path (`Describes`): since a stamp is given to one
  content only (`StampsTellBytes`), the row may lose its file, get another or be
  renamed between any two steps. `HashTheorem` is its case of one caller
  (`OneCaller`) and no writes from outside, where the window stays shut;
* `KeptTheorem`: `NoFileLost`, for any callers, other programs, walks and
  crashes but no first indexing, of the behaviours in which nobody else touches
  the paths a rename or a purge on disk has looked at and not yet acted on
  (`PathsStay`). `PlaceIInv`: what lies at the path of a row is its own file or
  nobody's; a rename past its checks knows both paths to be its own
  (`RenameKnows`), and a row that is about to be moved is not on its way to a path
  of another rename (`Apart`). `FilesTheorem` is its case of one caller and no writes from outside;
* `FollowTheorem`: `RowsFollowFiles`, for the operations of `file_renames`, any
  number of callers and files, targets that no two callers share
  (`SeparateTargets`), and every fault but `stuck` and `reread`;
* `AtomicTheorem`: `RenamesAreAtomic`, that these operations implement
  `FileLibrary`, under the same hypotheses. `AtomicIInv` adds to the invariant of
  `FollowTheorem` that nothing lies in the folder but the files of its rows
  (`NoStrays`). `FolderListed` says that the folder of the mapping holds each
  file where its row lists it and nothing else, so that every step needs to be
  judged by its rows only.

`VerifiedStays` and `PathsStay` name what the code relies on between two of its
steps and holds no lock for. Without them the properties fail, as `file_collision`
and the wider instances described above show; the other hypotheses are those of
the instances, for the reasons given with the runs.

`LocalAuthProofs` proves, for any clients, passwords, sets of codes, sessions
and lifetimes: `AuthTypeCorrect`; `AuthInvariance`, whose `AuthIInv` adds to the
properties that a code that has been spent is of a set already issued, so that
no later set has it again (`SpentCodesStayOld`), that what is said of a session
holds of a login on its way to one (`JobsAreCurrent`), and that calls begin and
end in local mode (`JobsAreLocal`); and from it `CodeTheorem`, `AccountTheorem`,
`SessionsTheorem` and `PasswordTheorem`.

`HeimdallKeysProofs` proves, for any keys, tokens, requests and intervals:
`KeysTypeCorrect`; `KeysInvariance`, whose `KeysIInv` says that a request
fetches exactly while it holds the mutex, that a cached key has been withdrawn
for no longer than the cache is old, and that the cache is no older than the
last attempt unless that failed; and from it `AcceptanceTheorem` and
`RefusalTheorem`.

`StoresProofs` proves:

* of `Thumbnails`: `ThumbnailTheorem`, for any requests and versions. What is
  cached under a key is no older than the key, a request keeps to the key of the
  row it read, and a scratch file that is about to be published is its own
  request's and whole;
* of `ProgressLists`: `OrphansTheorem` and `ForwardTheorem`. A call knows of its
  entry only what cannot change (`CallsKnowTheirEntry`); what keeps rows from
  being orphaned is that the statements that insert look again. An update nobody
  raced still finds the state it was judged by (`UpdateStillHolds`);
* of `Collections`: `LinksTheorem` and `PurgeTheorem`. Calls know the kinds of
  what they name and not whether it still exists (`CallsAreSound`), a uuid is
  inserted once (`InsertsAlone`), and a purge nobody crossed still finds what it
  was judged by (`PurgesStillHold`);
* `StoresTypeCorrect`, the types of the composition, with those of the parts.

`LibrariesProofs` proves:

* of `ReInit`: `LookTheorem`. Services are built once each (`ServicesAreOwn`), a
  run goes by services that were in the slot (`RunsGoByTheSlot`), and one that is
  live through those in the slot opened its cell after every call that has looked
  and not built (`LookedBeforeItOpened`). Runs are a finite set;
* of `Libraries`, for any libraries, files, callers, roots and names of any
  depth: `LibrariesTypeCorrect`; `LibrariesInvariance`, whose `LibsIInv` says
  what each call knows between two statements: which libraries were written
  across its own root since it looked (`KnowsRivals`), that the path a rename is
  about to write is a sibling of its row's (`Follows`), that the uuid of a
  registration under way is its own (`Alone`); and that held files lie beneath
  their library (`HeldBeneath`). From it `OverlapsTheorem`, `UnclaimedTheorem`
  and `ListedTheorem`, which also needs that browsing reaches every path
  beneath a root level by level (`BrowsingReaches`), proved of sequences.

`RequestsProofs` proves, for any set of operations:

* of the tables of `Surfaces`, row by row: which gates each way has and in what
  order, and which errors each surface names (`FfiTable`, `HttpTable`,
  `RaisesTable`). Everything below rests on these facts and not on the tables;
* `SurfaceInvariance`: `SurfIInv`. A call past an authentication gate was
  admitted; while nothing has changed under it, the gates behind it would open
  again, and its answer is that of the gate it stopped at (`Along`). From it
  `SurfaceTypeCorrect` and `UnauthenticatedTheorem`;
* `AgreementTheorem`: `SurfacesAgree`, that is, up to `KnownDifference` and for
  every fault an argument may have. For the operations behind a gate, each
  surface's answer is worked out from the call and the state alone, and the two
  are compared (`GuardedVerdict`); for those that authenticate, the two ways have
  the same gates but for the first (`AccountVerdict`). An error a handler raises
  has a name on both surfaces (`RaisedIsNamed`), which is where the listed
  difference of the recovery operations comes from;
* `RequestsTypeCorrect`: `RequestsTypeOK`, the types of the composition, from
  those of the parts (`PartsImplement`).

Assumptions used, each named in its module: `NonemptyAssumption`,
`CatalogedAssumption`, `VerbsAssumption`, `TargetsAssumption`,
`RetentionAssumption`, `BoundsAssumption`, `FaultsAssumption` and
`IdsAssumption` (neither a stamp nor `Nobody` is a uuid) of `FileLifecycle`,
`RefreshesAssumption` and `IndexesAssumption`, `ClockAssumption`,
`AuthAssumption`, `SurfacesAssumption` (only operations there are get called),
`KeysAssumption`, `ListsAssumption`, `CollectionsAssumption`,
`ThumbnailsAssumption`, `LibrariesAssumption` (a path is a nonempty sequence of
names) and `ReInitAssumption`. They say what the constants are: bounds are
numbers, sets of faults and requests are of the known kinds, and the values that
stand for nothing are not among the others.

Only model-checked: liveness (`RunningIsTransient`, `CatalogConverges`,
`KeysAreLearnt`), which is out of reach of the prover. Every invariant and every
action property of a passing run is a theorem.

## Plan

Every component that decides something under concurrency or failure has its
module, and every safety property of the runs is a theorem. Left: pure
algorithms against reference definitions (scope parsing, byte ranges, file name
validation), which have no state and which induction over data keeps from the
prover.

## Not modelled

* Readers of media formats, the decoding of images and archives, byte ranges,
  MIME types: functions of bytes, without state. What they can fail with is
  among the outcomes of `Surfaces`.
* Hashes, signatures, random codes and tokens: a password's hash is of it alone,
  a code or a token is nobody else's, a signature is its signer's.
* The failure list of a run: each insert counts in its own statement, and
  nothing reads the list but its listing.
* The attempts and delays of `retry_on_busy`: a statement is written, or it
  failed after them.
* Filtering, ordering and paging of listings; the technical columns of a file.
* Settings, configuration and migrations: read once, before anything runs.
* The owner check of Windows accounts, a comparison of two identifiers by the
  operating system: one of the ways not to authenticate.
* C functions that take no token (`count_files`, `count_missing`, `files_json`),
  which read and answer for the process they are linked into.
* The wiring of services to repositories, and shutdown beyond the end of a
  process at any step.

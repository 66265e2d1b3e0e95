# Formal models of VaultDrift

TLA+ specifications of the server's own logic (`src/internal`), checked with TLC
on small instances, with proofs checked by TLAPS. `PROJECT.json` lists every
component, run, mutant, hazard and theorem and maps every definition to the lines
it translates.

Run a check with `tlc -config UploadFaults.cfg MCUpload`, a proof with
`tlapm SyncProofs.tla`.

## 1. The system

VaultDrift is a self-hosted file server: one Go process with an HTTP API, a
SQLite database, a blob store for content-addressed chunks, and background
goroutines. Files are rows of a tree (`files`); the content of a file is a list
of chunk hashes (`manifests`); a chunk is a row with a reference count (`chunks`)
and a blob in the storage backend.

| Component | State | Operations | Talks to |
|---|---|---|---|
| Chunked uploads (`server/handlers_upload.go`) | map of sessions in memory, under `sessionsMutex`; per session the recorded chunks under `ChunksMutex` | create, upload chunk, complete, status, cancel; sweep of expired sessions every 5 min | chunk table, storage, VFS, manifests |
| Chunk table, manifests (`db/chunks.go`, `db/manifests.go`) | `ref_count` per hash; chunk list per file and version | insert, increment, decrement (not below 0), delete | every producer and deleter of content |
| Garbage collector (`worker/gc.go`) | none of its own | collect trash, old versions, orphaned chunks | chunk table, storage, files; run by the pool |
| Worker pool, queue, scheduler (`worker/pool.go`, `manager.go`) | priority queue with a condition variable, retry counters, results channel (100), recurring tasks | submit, pop, process, retry, report, tick, stop | GC and thumbnail handlers |
| VFS tree (`vfs/`, `db/files.go`, file and folder handlers) | rows with parent, name, trash flag, manifest id | create, move, rename, copy, soft delete, restore, delete, list, walk | uploads, WebDAV, sync, shares |
| Trash (`handlers_trash.go`) | the rows with `is_trashed` | list, restore, delete, empty page by page; daily cleanup | VFS, GC |
| WebDAV (`webdav/handler.go`) | lock table with timeouts | PUT, MKCOL, DELETE, MOVE, COPY, PROPFIND, LOCK, UNLOCK | VFS, chunk table, storage |
| Chunker (`chunk/`) | none | content-defined chunk boundaries | uploads, WebDAV, mount |
| Storage (`storage/`) and circuit breaker (`circuit/`) | files below a prefix directory; S3 objects behind a breaker; IPFS blocks and pins | put, get, delete, exists, list | uploads, downloads, GC |
| FUSE mount (`fuse/fuse.go`) | buffers of open files | create, open, write, truncate, release | VFS, chunk table, storage |
| Sync engine (`sync/`) | vector clock per device | register, negotiate, push, pull, commit | VFS, chunk table |
| Sync daemon (`cli/sync_daemon.go`) | watched directories, debounce timers | watch, upload, stop | HTTP API |
| Authentication (`auth/`) | login sessions, failed attempts and TOTP sessions in memory, permission cache | login, TOTP, refresh, logout, authorise | every handler |
| Shares and downloads (`db/shares.go`, share, public and download handlers) | share rows with expiry, password, download limit and count | create, update, revoke, open, download, ranges | VFS, storage |
| WebSocket hub, event stream (`websocket.go`, `events.go`) | client tables, subscriptions, bounded channels (256, 64) | register, subscribe, broadcast (drops when full), close | file handlers |
| Rate limiter (`middleware.go`) | request stamps per client, one lock | limit, clean up | every request |
| Federation (`federation/manager.go`) | peers in memory and in a table, invites, health | add, remove, invite, join, health checks, discovery | other servers |

What is hard here:

* **Nothing is a transaction.** A request is a sequence of single SQL statements
  and storage calls; requests, the sweep and the collector interleave between
  any two of them, and each statement may fail by itself.
* **Memory and database disagree after a crash, or between two writes.** Upload
  sessions are in memory, their chunk references are persistent; peers are in both.
* **A cancelled context fails the clean-up too.** Handlers undo with the context
  of the request that has just been cancelled.
* **Check, then act.** Reference counts, expiry, locks, limits, names, versions and
  the breaker's state are read in one step and acted on in a later one.
* **SQLite pragmas are per connection.** `foreign_keys` and `busy_timeout` are set
  on one connection of the pool: cascades may or may not happen.
* **Bounded channels drop or block**, and goroutines wait for each other to close
  them.

What makes each part right: a chunk that something refers to keeps its data and a
sufficient count; a visible file has a complete, unchanging manifest; names are
distinct and copies and walks exact; no modification overwrites one it has not
seen; every job is run and reported once; the breaker opens at its limit; a
subscriber gets its own events, once, in order; a session, a token, a download and a
peer are what their owner granted.

## 2. Modules

Parts that share state are composed on one state (`FileTree` and `WebDAV`;
`UploadService` with `ChunkTable`, sweep and collector). Parts that share none are
put side by side in one module whose Init picks the part that a behaviour follows,
so that one run answers for all of them without multiplying their states.

| Module | Models | Composed in | Checked as |
|---|---|---|---|
| `ChunkTable` | the statements of `db/chunks.go` as operators on a table `hash -> ref_count` | `UploadService` | |
| `UploadService` | uploads, completion, cancellation, the sweep, trash collection, failures, crashes | | `MCUpload` |
| `UploadProofs` | inductive invariant and theorems of `UploadService` | | |
| `WorkerPool` | queue, workers, retries, results, scheduler, shutdown | `Background` | `MCBackground` |
| `TrashBin` | the trash as an ordered list, paged emptying, retention and restarts | `Background` | |
| `SyncDaemon` | watcher, debounce timers and uploads of the client's daemon | `Background` | |
| `BackgroundProofs` | inductive invariant and theorems of `Background` | | |
| `CircuitBreaker` | `Execute`/`ExecuteWithResult` around S3 calls | `Storage` | `MCStorage` |
| `LocalBackend` | local storage, one action per system call | `Storage` | |
| `IPFSBackend` | blocks, pins and the node's collection | `Storage` | |
| `Chunker` | Rabin fingerprint, window, boundaries, the three loops | `Storage` | |
| `FuseMount` | handles of the mount and the save on release | `Storage` | |
| `StorageProofs` | inductive invariants and theorems of `Storage` | | |
| `FileTree` | the `files` table, VFS and REST handlers | extended by `WebDAV` | `MCTree` |
| `WebDAV` | path resolution, WebDAV methods, lock table | | |
| `TreeProofs` | inductive invariant and theorems of `WebDAV` with `FileTree` | | |
| `VectorClock`, `MerkleTree` | pure operators with their reference definitions | extended by `SyncEngine` | `MCSync` |
| `SyncEngine` | devices, push, negotiation and commits | | |
| `SyncProofs` | inductive invariant and theorems of `SyncEngine`, laws of the clocks | | |
| `EventLog` | events and connections, common to the next three | | `MCHub` |
| `Broadcast` | **abstract**: what an event service promises | refined by `EventHub` | |
| `EventNotifier`, `WebSocketServer` | the two event services | `EventHub` | |
| `RateLimiter` | the limiter with its lock | `EventHub` | |
| `HubProofs` | inductive invariant of `EventHub`, its refinement of `Broadcast` | | |
| `AuthService` | logins, second factor, sessions, user administration | `AccessControl` | `MCAccess` |
| `Permissions`, `RBAC` | permission matching; the permission cache | `AccessControl` | |
| `Federation` | peers, invites, health, discovery | `AccessControl` | |
| `AccessProofs` | inductive invariant and theorems of `AccessControl` | | |
| `Ranges`, `Shares` | byte ranges; links and downloads | | `MCSharing` |
| `SharingProofs` | exactness of ranges, inductive invariant and theorems of `Shares` | | |

### UploadService

State: `chunks` and `blobs` (database and storage), `sessions`, `created`,
`expired`, `uploaded` (the session map and each session's `ChunkHashes`; a
session's map outlives its entry because goroutines hold the pointer), `status`,
`origin`, `linked`, `manifests` (the `files` and `manifests` rows). Each actor
(HTTP workers, the sweep `Janitor`, the trash job `Collector`) has a program
counter `pc` naming its next statement and the local variables of its function:
`req`, `todo` (hashes the inner loop has left), `snap` and `rest` (the chunk list
being walked and its indexes left), `batch` (sessions or files left).

| Handler | Actions, in the order of the code |
|---|---|
| `createUpload` | `CreateUpload`; time: `Expire` |
| `uploadChunk` | `StartUpload`, then per CDC chunk `ChunkExists`, `IncrementRefCount` or `Put`, `CreateChunk`; `RecordChunk` |
| `completeUpload` | `StartComplete`, `StatPath`, `InsertFile`, `InsertManifest`, `LinkManifest`, `ForgetSession`; on errors `UndoManifest`, `UndoFile` |
| `cancelUpload` | `StartCancel`, `RemoveSession`, per hash `ReadChunk`, `DecrementRefCount`, `Unlink`, `DeleteChunk` |
| `cleanupExpiredSessions` | `StartSweep`, `SweepSession`, per hash `Drop`, `Reread`, `Unlink`, `DeleteChunk`; `EndLoop`, `EndSweep` |
| `collectTrash`, `deleteFile` | `StartCollect`, `CollectFile`, per hash as above, `DeleteFileRow`, `EndCollect` |
| file and trash handlers | `SoftDelete`, `Restore`, `DeletePermanent` |
| environment | `Disconnect` (cancels an actor's context), `Fail` (a statement fails), `Crash` |

Details that are kept because they decide outcomes: the sweep holds the session
lock through all its I/O (`SessionsFree`); the sweep reads `ChunkHashes` without
its mutex, so `RecordChunk` may or may not be seen (`SweepSees`); the lookup of a
name sees live rows only while the UNIQUE constraint counts trashed rows and not
rows with a NULL parent; foreign keys are on or off per statement; local storage
calls ignore the context, database statements do not.

Abstracted: users and ownership checks (a request by the wrong user changes
nothing), the bytes of a chunk (a body is a name for its list of hashes, fixed by
the constant `HashesOf`), sizes, timestamps and responses. Which trashed files are
old enough is left open in `StartCollect`. The error return of
`generateRandomString` inside `completeUpload` is left out: `crypto/rand` does not
fail on the supported platforms.

### Background: WorkerPool, TrashBin, SyncDaemon

*WorkerPool.* A job is its id with a priority and a retry limit (`Submit` replaces
0 by `DefaultRetries`). `"waiting"` is inside `cond.Wait`, `"woken"` has been
signalled but has still to take the lock, so that another worker may empty the
queue first. `Push` and its `Signal` are one step under the lock. Manager.Stop is
the sequence `StopScheduler`, `StopPool`, `CloseResults`.

*TrashBin.* `bin` is the result of `ORDER BY trashed_at DESC`; `Page` is
LIMIT/OFFSET on it. `overdue` is the set with `trashed_at < OlderThan`, which is
fixed by `Restart` (Manager.Start). Items are rows without children.

*SyncDaemon.* `Change`, `RemoveFile` and `MakeDirectory` are the user's; `watch` is
the loop over the watcher's events with `handleEvent` and `debounceUpload`; a timer
goes through `Fire`, `uploadFile` and `Forget` (its function's delete from the map,
which may hit the entry of a newer timer); Stop is `StopWatching`, `StopTimers`.
A file put into a new directory before the directory is watched raises no event
(`unseen`); such changes are exempt from `ChangesUploaded`. An upload that fails is
tried, and not tried again, as in the code.

### Storage: CircuitBreaker, LocalBackend, IPFSBackend, Chunker, FuseMount

*CircuitBreaker.* The counters are `uint32`: arithmetic is modulo `Modulus`. `Cool`
is the passing of `config.Timeout` since the last failure, whatever calls are in
flight: with `MaxRetries` 2 and an attempt timeout equal to `Timeout` in
`storage/s3.go` one call may last three times as long.

*LocalBackend.* A Put is mkdir, open, write, rename; the file it writes may be
renamed by another Put meanwhile, which `fd` records. Delete removes the file and
then tries the directory. `Stop` ends the process between any two calls. A blob is
`"part"` while it is written; `spoiled` are the keys of which a write broke off
while another Put of the same key was under way, the one case in which a partial
blob stays under the final name.

*IPFSBackend.* The node computes the CID; `NodeCollects` removes unpinned blocks at
any time. The node is external and modelled from the calls.

*Chunker.* A word of the code is the set of exponents of a polynomial over GF(2), so
xor is the symmetric difference; the tables, `pushByte`, `slideFingerprint` and the
boundary test are computed, not assumed, over all inputs up to `MaxInput` bytes.

*FuseMount.* A byte of a buffer is a chunk. Release is one action per statement:
`Release`, per chunk `ChunkExists`, `IncrementRefCount` or `PutChunk`, `InsertRow`,
then `InsertVersion`, `LinkManifest`, or on failure `WipeData`, `WipeRow`. The
clean-up deletes chunks by hash, also those other files use; `wiped` records them
and `MountKept` exempts them.

### FileTree and WebDAV

`file` is the table; every request of a worker is a record `job[w]` with its
program counter and what it has read. The REST handlers (create, rename, move,
copy, trash, restore, delete, list) and the WebDAV methods are sequences of single
statements; `FKModes` chooses per statement whether foreign keys cascade. Ids are
increasing numbers, so a copy's manifest is the id of the file it came from.
WebDAV resolves a path one query per name (`getFileByPath`), looks at the lock,
then acts. `touched[w]` and `held[w]` are history variables: the rows others changed
and the locks held throughout since the request of `w` began; the properties about
copies, walks and locks speak of requests nobody interfered with. A copy lists at
most `CopyLimit` entries of a folder (1000 in the code) and a walk at most `WalkLimit`
(10000); neither asks for a second page. `cut` in a job is history too: the folders of
which the request has read only the first entries. `CopyComplete` and `WalkExact` speak
of requests with no such folder.

### SyncEngine, VectorClock, MerkleTree

A commit applies its changes one by one, each a sequence of statements, any of
which may fail (`StatementFails`: the change is skipped). A change has a list of chunk
hashes, which may repeat one; `ensureChunkRefs` counts them one by one (`at`).

The server makes its engine without a VFS (`server.go:200-202`), so that the first use
of it panics and `RecoveryMiddleware` answers 500: `Negotiate` changes nothing, and
`CommitEnds` is reached after everything has been written. The comparison of trees is
therefore modelled as operators: `Build` and `Diff` are the code's recursion as
recursive functions bounded by `MaxDepth`, for relative paths, as the engine's own tests
have them. `sort.Slice` is not stable; the set `late` says of which folders the own
entry comes after the group. The hash of a folder has no names in it. A clock is a
function on the devices it has entries for; `Causality` and `Seen` are the reference
definitions.

### EventHub: Broadcast, EventNotifier, WebSocketServer, RateLimiter

`Broadcast` is the abstract specification: events are published, and a connection
that is served may get any later event of its user in a folder it asked for.
`EventHub` INSTANCEs it WITH a mapping that takes the served connections from
`subscribers` or `clients`. In `EventNotifier`, looking at `closed` and sending are
two steps, so the send can hit a closed channel, which ends the process (`up`). In
`WebSocketServer` the reader and the writer of a connection and `run` are goroutines
of their own; a reader that answers into a full channel whose writer has gone is
`Stuck`. A connection whose ResponseWriter is no Flusher or no Hijacker is refused
(`StreamingUnsupported`, `upgradeFails`); both handlers are modelled for the writers
they accept as well, as a server without the logging middleware gives them.
`RateLimiter` holds its lock while the handler runs.

### AccessControl: AuthService, RBAC, Permissions, Federation

A login is lookup, delay check, password check, recording or clearing of attempts,
TOTP session or session row, tokens. Passwords are model values, and a TOTP code is
right or wrong. The delay is `1 << Count` seconds; above `ShiftLimit` the shift has
overflowed and there is no delay. An administrator may store any status (`Statuses`), and
`Login` refuses those in `Barred`. `RBAC` follows a permission check through cache,
user row, role and cache fill. `Federation` keeps `table` and `peers` with every
call writing one after the other. Rows are written and never read back: their times are
TEXT, which `Scan` does not put into a `time.Time`, so `GetFederationInvite` never
succeeds and `loadPeers` loads nothing. `unlike` are ids for which two calls overlapped,
a status could not be written, or the process has restarted since the row was written:
there the two may differ.

### Shares and Ranges

A request by link reads share, file, counter, manifest and then chunks, one step
each; `NewVersion`, `PermanentDelete`, the collector and the owner's changes come
in between. `SizeBytes` is the size the row declares, which the client said and nothing
checks; Content-Length and ranges are computed from it, and net/http refuses a write
beyond it (`Length`). Trashing and restoring change nothing a download looks at.
`PermanentDelete` takes manifests and shares along or, without foreign keys, leaves them
(`kept`). The bytes of a chunk are pairs of chunk and position, so that `SentExact`
compares what was written with the requested part of one version.

## 3. Runs

| Run | Instance | Shows |
|---|---|---|
| `upload_serial` | 2 sessions to one path, 2 upload chunks each, 2 bodies sharing a CDC chunk, 2 files, one actor at a time, no faults | `TypeOK`; `RefCountCovers`: increments and decrements balance over complete requests |
| `upload_faults` | 1 session, 2 chunks, 2 workers plus sweep and collector, two of them at a time, 2 faults of any kind | `ManifestComplete`, `LinkedHasManifest`, `ContentStable`, and `NoOrphanFile` until the first fault |
| `upload_liveness` | 1 worker, sweep and collector together, 1 fault, fairness | `ExpiredRemoved`, `RequestsReturn` |
| `background` | 2 workers, a scheduled task and two jobs (one without handler), results channel of 1; 2 trash items, pages of 1; 2 files, one in a new directory, 3 changes; fairness | `BackgroundInv` (types, `JobsConserved`, `QueueOrdered`, `TimersKnown`), `NoLostWakeup`, `NoTaskAfterStop`, `JobReported`, `WorkEnds` (`EmptyReturns`, `ChangesUploaded`) |
| `storage` | 3 callers, counters modulo 4; 3 calls on 2 keys; all inputs of up to 6 bytes of 2 bits, window 2, sizes 2 to 3; 2 handles, 2 files, 2 saves of up to 2 chunks | `BreakerInv`, `BlobsInv` (`LocalInv`, `IPFSInv`, `FuseInv`), `ChunksExact` |
| `tree` | a folder with a folder and a file; 2 workers, 2 requests of any kind, 2 names, 7 ids, 1 lock token, listings of 2 | `TreeInv` (types, locks, names), `ContentReachable`, `RefsCover`, `FolderPages`, `CopyComplete`, `WalkExact`, `LockRespected` |
| `sync` | 2 commits at a time, 3 changes, 2 paths, lists of up to 2 hashes, failures; all clocks of 2 devices with values 0 to 2, all pairs of small trees | `SyncInv` (types, manifests, `NeverOvercounted`), `NoLostModify`, `ClocksExact`, `DiffsExact` |
| `hub` | 2 connections, 2 users, 2 events, channels of 1; 4 requests of 2 clients; fairness | `HubInv` (types, `IndexMatches`, `NoSendOnClosed`, `WithinLimit`), `DeliversInOrder` (**refinement** of `Broadcast`), `Settles` |
| `access` | 2 users with one name one after the other, 2 passwords, 3 statuses, 2 requests at a time; 2 checks, 2 role updates; 2 peers, 1 invite, 2 calls; all pairs of role and token permissions | `AccessInv`, `GuessesDelayed`, `TokenWithinRole`, `FederationInv` |
| `sharing` | 1 link, 2 clients, 2 versions that share a chunk, one with too small a declared size, limit 1, every form of range | `SharingInv`, `ServedJustified`, `SentExact` |
| `breaker_test` (violation) | the instance of `storage` | `OneTester` fails |
| `chunk_window` (violation) | the instance of `storage` | `WindowFingerprint` fails |

**Why the bounds are enough.** Two sessions, two files and two hashes give every
sharing pattern of a chunk: within a body, between chunks of a session, between
sessions, between files. Every race found takes two actors. Two upload chunks make
"some but not all recorded" reachable; two faults allow a failure of a clean-up
after a failure. `MaxRef` bounds how often a chunk can be referenced and is never
the reason a needed step is disabled: it exceeds the number of places that can hold
a chunk. In the pool two workers are the least with a lost wake-up, and a results
channel of one makes blocking common; every channel of the hub has one place, so
that full channels and dropped events are ordinary. A page size of one makes every
page full. Modulus 4 makes wrap-around visible while 0, 1 and the limits stay
distinct. Three calls on a key allow two writers and a deletion of local storage.
Six bytes with sizes 2 to 3 give inputs of three chunks, of which the last may be
short. Two saves suffice for the failing second save of the mount; three saves
were also explored (3.1 million states) and change nothing. Three changes of a file
make a change during an upload, and a newer timer whose entry is deleted, reachable.
Seven ids are enough for two concurrent copies of the folder and two creations.
`CopyLimit` and `WalkLimit` are 2 in `tree`, as many entries as its folders get, so that
copies and walks are whole there; with 1, where the folder with two entries is always
cut, `tree` passes as well.

**Deadlock** checking is off in all runs: ids and requests are bounded, so that an
idle server with all of them used has no step left, as an idle server does.

**Symmetry** is used over interchangeable workers, callers, slots, keys and ids, in
safety runs only. Where two parts of a composition never meet, their constants may
have the same names and are permuted together.

**Fairness.** Goroutines are scheduled, statements and handlers return (possibly
with an error), tickers and timers fire, and a Stop that has begun goes on; the loop
of each event service goes on, a request whose client has gone ends, and the holder
of the limiter's lock lets it go. All of it is weak fairness. No user has to send a
request, no session has to expire, nobody has to restart the server, no peer has to
answer, and a failure never has to happen. For the limiter it is fairness of the
requests together (a Go mutex lets someone in), which is why `RequestsAnswered` says
that the queue comes to rest, given finitely many requests.

**Mutants.** Every property of a passing run has a mutant: a definition of the model
with a plausible bug (a dropped guard, a swapped order, a missing reset), kept beside
the definition and marked "Mutant", under which TLC finds the property violated.

## 4. Findings

Two runs show a disagreement between the code and its comments; `PROJECT.json`
quotes both sides.

1. The breaker can have two test requests at a time (`OneTester`): a call from before
   the circuit opened reports its failure during a test, the circuit opens again, and
   after `Timeout` the slot counter is set to 0 although the first test still runs. If the
   first test ends with success just before that reset and releases just after it, the
   counter goes below 0, to the largest uint32, and the half-open breaker rejects
   everybody for ever.
2. `slideFingerprint` does not remove the byte that leaves the window: it has been
   shifted once less than `outTable` assumes. Cut points depend on all bytes since
   the last cut, so an insertion changes the chunks after it more often than
   "Only changed chunks transferred" (README) suggests.

The following showed in runs of earlier versions of the models, or from reading the
code while modelling it. The models still have the behaviour; the properties are
stated so that they hold in its presence.

3. `cancelUpload` deletes a blob on a count read before the decrement; an upload
   of the same content in between keeps a reference to nothing.
4. A client that disconnects in `completeUpload` leaves a visible file without
   content: the clean-up uses the cancelled context.
5. `WorkerPool.Stop` waits for workers asleep in `Pop`, which nobody wakes.
6. `emptyTrash` advances the offset over rows it has deleted and skips the rest.
7. The 30-day cut-off is a constant of the process: a server that keeps running
   never purges what was trashed after its start or less than 30 days before it.
8. `Login` refuses "disabled" and "locked" only (`auth.go:139-144`): a user whom the
   administration page sets to "suspended" (`Admin.tsx:534`, stored by
   `handlers_admin.go:382`) logs in; WebDAV's login (`server.go:221`) refuses him.
9. `Move` makes cycles; a copy into the own subtree finds its own copies and
   never ends.
10. WebDAV PUT on an existing file, and a second save of a file of the mount, fail on
    the unique (file, version) after counting references; the mount's clean-up then
    deletes chunks that other files share.
11. A WebDAV LOCK replaces another owner's lock; REST requests ignore locks.
12. The rate limiter serves one request at a time, because it unlocks when the
    handler has returned, and counts by address and port.
13. A send on a channel closed by a leaving subscriber ends the process.
14. Refresh tokens never match what `Refresh` looks up; an access token outlives its
    logout; `IPFSBackend.Put` never finds the CID equal to the key of a chunk.
15. `ListAllFiles`, which by its comment "returns every file and folder", reads the first
    10000 entries of each folder and does not look whether there are more; the rest, with
    everything below it, is missing from what `Negotiate` compares. `Copy` leaves out what
    comes after the first 1000 entries of a folder in the same way.
16. The engine of the assembled server has no VFS: every negotiation, and every commit
    after its changes were applied, is answered 500; a client that tries a commit again
    applies it again. With a VFS, `Build` would not end on the paths of `ListAllFiles`,
    which start with a slash (`vfs.go:226`).
17. The hash of a folder has no names (`merkle.go:174-180`): for lists in which the same
    content is at different paths, as after a rename, the roots may be equal and `Diff`
    reports nothing, although by `merkle.go:27` it gives the paths that one side lacks.
18. The times of federation rows are TEXT columns scanned into `time.Time`
    (`db/federation.go:76`, `:92`, `:129`), which database/sql refuses: no invite can be
    accepted, and the peers are gone after a restart. The main program does not call
    `Start` anyway.
19. The ResponseWriter of `LoggingMiddleware` is neither Flusher nor Hijacker: behind it
    every event stream and every WebSocket is refused.
20. A download declares the size the client gave when it uploaded: too small, and the
    content is cut off; too large, and the answer ends early. Links go on serving
    trashed files, and a deletion without foreign keys leaves manifests and shares.

Further hazards, and which property is about each, are under "hazards".

## 5. Proofs

Eight modules hold proofs, one per group of components. Every theorem holds for
**every** value of the constants that satisfies the ASSUMEs of the modules: any
number of sessions, chunks, callers, connections, workers, users, commits, links, rows,
and any bound. TLC evaluates those ASSUMEs on the runs.

| Module | Theorem | Statement |
|---|---|---|
| `UploadProofs` | `TypeCorrect` | `Spec => []TypeOK` |
| | `ManifestsComplete` | `Spec => []ManifestComplete` |
| | `ManifestIdsValid` | `Spec => []LinkedHasManifest` |
| | `ContentIsStable` | `Spec => ContentStable` |
| | `NoOrphanFiles` | `Spec => []NoOrphanFile` |
| `StorageProofs` | `BreakerCorrect` | `StorageSpec => []BreakerInv` |
| | `BlobsCorrect` | `StorageSpec => []BlobsInv` |
| | `ChunksCorrect` | `StorageSpec => []ChunksExact` |
| `HubProofs` | `HubCorrect` | `Spec => []HubInv` |
| | `FeedImplemented` | `Spec => DeliversInOrder`: both event services implement `Broadcast` |
| `BackgroundProofs` | `BackgroundCorrect` | `BackgroundSpec => []BackgroundInv` |
| | `WakeupsKept` | `BackgroundSpec => []NoLostWakeup` |
| | `TasksEndBeforePool` | `BackgroundSpec => NoTaskAfterStop` |
| `AccessProofs` | `AccessCorrect` | `Spec => []AccessInv` |
| | `GuessingDelayed` | `Spec => []GuessesDelayed` |
| | `TokensWithinRole` | `Spec => []TokenWithinRole` |
| | `PeersCorrect` | `Spec => []FederationInv` |
| `SharingProofs` | `SharesWithinLimit` | `Spec => []SharingInv` |
| | `OnlyAllowedServed` | `Spec => []ServedJustified` |
| | `SentCorrect` | `Spec => []SentExact` |
| | `OwnerRangeExact`, `PublicRangeExact`, `SliceExact` | the range functions, for every header, size and chunk |
| `SyncProofs` | `SyncCorrect` | `Spec => []SyncInv` |
| | `ModifyNotLost` | `Spec => NoLostModify` |
| | `ClocksCorrect` | `Spec => []ClocksExact`; `CompareIsCausality` and `MergeIsLeast` for clocks with any counters |
| `TreeProofs` | `TreeCorrect` | `Spec => []TreeInv` |
| | `ContentKept` | `Spec => []ContentReachable` |
| | `RefsAlwaysCover` | `Spec => []RefsCover` |
| | `LocksRespected` | `Spec => LockRespected` |
| | `FoldersPaged` | `Spec => []FolderPages` |
| | `WalksExact` | `Spec => []WalkExact` |
| | `CopiesComplete` | `Spec => []CopyComplete` |
| | `ListingExact` | a listing has each live entry of the folder once, in order, for every table |
| | `FolderPagesExact` | the loop of `listFolders` keeps the folders of a page, for every table, limit and offset |

What the assumptions say: a distinguished value (`None`, `Nil`, `NoJob`, `Unknown`,
`Self`) is not an ordinary one; numbers are naturals and capacities are what the
code's `make(chan ...)` allows; sets whose members are counted (workers, slots,
nodes, handles) are finite. No theorem has a hypothesis
beyond these.

Inductions are over numbers only: a set of naturals with a member has a least one
(`Least` in `TreeProofs`, from the well-founded order of the naturals). That is
enough for recursive functions on `0 .. n` and for sequences by their length.

### The inductive invariants

None of the properties is inductive as it stands: what a step relies on was
established some statements earlier, and other actors have moved since. Each proof
therefore ties the program counter of every actor to what it has established, shows
that nobody else can take that away, and derives the property. TLC checked every
property on the runs' instances before it was proved.

**Upload** (`IInv`). A manifest is a copy of `snap`, read earlier, of a session whose
completeness was checked earlier still.

* `SharedTypes`, `ActorTypes`: types of the shared and the local variables;
* `ControlOK`: which actor can be at which label;
* `LocalsOK`: the fields an actor holds fit its label: a release loop has a hash to
  release, and the indexes still to be walked are recorded in `snap`;
* `CollectionOK`: the session a request found complete is still complete when it
  inserts the file, and its `snap` is complete when it inserts the manifest;
* `OwnershipOK`: the file id of a completing request is its own: no other request
  has it, and its manifest and link are set only by that request's steps;
* `ManifestComplete` and `LinkedHasManifest` themselves.

Recorded chunks are never removed from a session's map, so completeness is stable
under every other actor's steps. `LinkedHasManifest` rests on ownership: the only
statement that deletes a manifest without its row is `UndoManifest`, and its own
request has then not linked it. `ContentIsStable` is an action property derived
from the same invariant. For `NoOrphanFile` the strengthening is `Calm`, as long
as `faults = 0`: no context is cancelled, every row without manifest id belongs to
a request on its way to `LinkManifest` (`RowsOwned`), and a rollback is entered
only when the row is gone (`UndoneGone`). `FaultsCounted` shows that a failure is
never uncounted.

**Storage**. `BreakerIInv` adds to the types which calls carry which state, so that
the failure counter, a uint32 with its wrap-around, is below the limit whenever the
circuit is closed. For the local backend `OpenFiles` and `Parts` relate every open file and partial blob to
the call that writes it, and a crash leaves parts behind but no blob; `IPFSInv` does
the same for pins. `FuseIInv` counts, per hash, the references that manifests and
handles on their way to a manifest need (`Cover`), which is at most what the chunk
table has unless a failed cleanup deleted the chunk. `ChunkerIInv` says for every state
of the three loops that the chunks so far followed by the buffer are the input read so
far, that every chunk starts where the one before ends, and that the buffer is shorter
than `MaxSize`; the fingerprint stays below the polynomial's degree (`Below`), which
needs the same of every entry of the table (`TableBelow`).

**Hub** (`HubIInv`). The order of delivery follows a chain: what a connection has
received comes before what its channel holds (`EventsOK`), that before the event at
hand (`LoopOK`), and that before what waits to be distributed (`ChanOK`). For the
WebSocket hub `IndexMatches` and `SendOK` say that a client in a table has an open
Send channel. Refinement: the initial states are those of `Broadcast`, and every step
is a `Broadcast` step or leaves log and deliveries as they are.

**Background** (`BackgroundIInv`). `NoLostWakeup` is preserved because Push signals
under the queue's lock: each queued job is matched with a worker that is awake,
counted with `AwakeIn`. `OnePlace` and `NoneLost` say where a job is; `LatestInMap`
and `TimersCounted` which timer of a file is in the daemon's map.

**Access** (`AccessIInv`). `Established` says, per statement of a login, which of the
user's properties the request has seen; sessions are justified by what their request
had established. `GuessesCounted` bounds the undelayed guesses of a name by the
recorded attempts and the requests between check and count. `had` bounds the
permission cache. For federation, `AloneOK` and `HalfWritten` describe a peer between
the write of the table and that of the map.

**Sharing** (`SharingIInv`). `LimitKept` ties the limit a request read to the largest
limit the share ever had, and `Justified` what it has established of the share to a
moment within the request. That a deletion may leave the rows does not matter to either:
they rest on the share row the request has read. `SentIInv` says of a request that is sending that what it has
written is the requested part of the chunks before the next one, of the manifest it
read; `SliceExact` gives the step. The declared size enters only through the range,
which `OwnerRangeExact` and `PublicRangeExact` compute for every size; the chunks may
have fewer or more bytes. A manifest without chunks skips the loop (`Loop`).

**Sync** (`SyncIInv`). Why no modification is lost: the versions of a file from 2 on
have no gap (`Dense`); a commit between its manifest and its link made the latest
manifest and is alone with it (`LinkersOK`), so that two commits that modify one file
cannot both be there; and a commit that has read version n either finds the row
unmoved or will fail on the unique manifest of n + 1 (`ReadersOK`). `Counted` adds to a
chunk's count the places in its list that each commit between its manifest and its last
hash has not yet counted; the sum is at most the number of places in manifests that name
the chunk. The clock laws need no
invariant: `NotSeen` shows that the two loops of Compare find exactly the devices at
which one clock is ahead.

**Tree** (`TreeIInv`). `JobOK` ties the program counter of a request to what it has:
a put about to link has the manifest of its file, and the rows a copy has read and not
yet inserted have links that can be reached. Both rest on `Here`: the manifest of an id
is there or the row of that id is gone, and stays so, because a manifest goes only with
its row and ids are not given out twice. `RefsEnough` adds the puts between their chunk
and their manifest to the manifests. `ChecksOK` says that what a DELETE or MOVE has
checked is not among the resources locked since its request began; later locks do not
enter `held`. Names need no strengthening: every INSERT and every UPDATE of parent or
name asks NameFree, and the other statements change neither. Listings are exact because
`Before` is a strict total order, so the number of entries before an entry is a
bijection onto the places of the listing (`RankOnto`). A table to start from
(`SeedAssumption`) has distinct names, no link but a file's to its own manifest, and no
parent that is not there; `RowAssumption` says that "no row" is not a row.

`FolderPages` needs no strengthening: the order puts folders first, so the folders of a
listing are a prefix of it, and filtering a page of the listing gives the page of the
filtered listing. `WalkExact` rests on `WalkIInv`. An entry that no other request has
moved, with the folders above it, is at every moment of the walk in one of two states
(`Covered`): listed once, under its path, with no folder above it still to be read; or
not listed, and exactly one folder above it is waiting, under that folder's own path.
Reading a folder moves an entry in it to the first state, and an entry further down from
this folder to the next one on its way (`RootedWay`: there is one in each folder). Other
requests change only rows that they thereby mark as touched, and two tables that agree
elsewhere agree about every entry that stayed put (`WalkedStays`).

`CopyComplete` rests on `CopyIInv`. As long as nobody has changed a row the copy has
read or made, there is a function `o` from the rows made so far to the rows they were
copied from (`CopyOf`): a copy has the name, kind and content of its original and lies
in the copy of the original's folder, and no other row is below a copy. What the copy
has listed and not yet inserted (`ToCopy`), with what is inserted, is all that is in
the folders it has been to. That leaves the entry that appears in a folder after it has
been listed. Others mark what they change, so it could only be a row this copy makes,
in a folder that is both copied and a copy; then some row has its copy somewhere below
itself. But the way down from a row to its copy leads on to the copy of the next folder
on it, which has a larger id and is again below what it was copied from (`WayGoesOn`):
ids would never end (`NeverBelow`). A copy into the own subtree therefore does not end,
and in one that has ended the two subtrees correspond level by level (`Mirrors`), so
that their shapes are equal.

### Only model-checked

* Liveness and fairness: `ExpiredRemoved`, `RequestsReturn`, `JobReported`, `WorkEnds`,
  `Settles`. Out of the prover's reach.
* `DiffsExact`: the diff of two trees of hashes is a recursion over infinite domains
  that filters and sorts with built-in operators the provers know nothing about, and its
  correctness is an induction over trees.
* `RefCountCovers`, for one request or job at a time and without faults. Otherwise it is
  false of the code: see the hazards.

## 6. Not modelled

* **Cryptography** (`crypto/`, JWT signatures, password hashes, TOTP codes): nothing a
  model checker can say; results are "right" or "wrong" where control depends on them.
* **Versions, backup, thumbnails** (`vfs/versioning.go`, `handlers_versions.go`,
  `handlers_backup.go`, `thumbnail/`): single statements of kinds the tree and sync
  modules already have, copies of files on disk, calls of an image library.
* **Media and previews** (`media/`, `preview/`): external tools and rendering. The
  media handler reads the user id under the plain key `"user_id"` while the middleware
  sets a key of its own type, so that it refuses every request before its own logic.
* **Configuration, tracing, metrics, utilities**: no state that changes.
* **Wire protocols** (S3 client, IPFS client, HTTP, XML): I/O.
* **Command-line commands, desktop shell, web and mobile front ends**: callers of the
  HTTP API, except the sync daemon, which has a protocol of its own and is modelled.
* **Left out of modelled parts**: what only reads (status, search, recent files,
  statistics), ownership checks that refuse without a change, CSRF and header
  middleware, `collectOldVersions` and run-time scheduling (no caller in the server),
  shares between users beyond their rows.

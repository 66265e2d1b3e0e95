---------------------------- MODULE UploadService ----------------------------
(***************************************************************************)
(* The path of a file's content through the server: chunked uploads        *)
(* (server/handlers_upload.go), the reference-counted chunk table and the  *)
(* blob store behind it, the file and manifest rows a finished upload      *)
(* leaves, and the two background deleters of chunks: the sweep of expired *)
(* sessions and the trash collector (worker/gc.go).                        *)
(*                                                                         *)
(* Every SQL statement, storage call and critical section is one step of   *)
(* the actor that executes it, because nothing in the code makes a request *)
(* atomic: no handler opens a transaction.  The actors are Workers (one    *)
(* HTTP request goroutine each), the Janitor (cleanupExpiredSessions) and  *)
(* the Collector (a trash job of the worker pool).  pc[a] names the        *)
(* statement actor a executes next; req, todo, snap, rest and batch hold   *)
(* the local variables of its function.                                    *)
(***************************************************************************)
EXTENDS ChunkTable, Sequences, FiniteSets

CONSTANTS
  Sessions,      \* upload session ids generateSessionID can return
  TotalChunks,   \* upload chunks of a session (the size is abstracted away)
  Bodies,        \* distinct bodies of PUT chunk requests
  HashesOf,      \* HashesOf[b]: the CDC chunk hashes of body b, in order
  FileIds,       \* file ids generateID can return
  PathOf,        \* PathOf[s]: the (user, parent, name) session s uploads to
  RootPaths,     \* the paths whose parent is the root (parent_id NULL)
  Workers, Janitor, Collector,
  ForeignKeys,   \* PRAGMA foreign_keys of the pooled connections in use
  MaxActive,     \* how many requests and jobs may be in progress together
  FaultKinds,    \* what may go wrong: "error", "disconnect", "crash"
  MaxFaults,     \* bound on how often
  MaxRef,        \* bound on ref_count, in the guard of StartUpload
  NoBody, NoManifest, NoSession, NoFile

ASSUME BodiesAssumption ==
  /\ HashesOf \in [Bodies -> Seq(Hashes) \ {<<>>}]
  /\ NoBody \notin Bodies
  /\ NoManifest \notin [0 .. (TotalChunks - 1) -> Bodies \cup {NoBody}]
  /\ NoFile \notin FileIds

ASSUME ActorsAssumption ==
  /\ Janitor \notin Workers
  /\ Collector \notin Workers
  /\ Janitor # Collector

ASSUME PathsAssumption == DOMAIN PathOf = Sessions

ASSUME NumbersAssumption ==
  /\ TotalChunks \in Nat \ {0}
  /\ MaxActive \in Nat
  /\ MaxFaults \in Nat
  /\ MaxRef \in Nat
  /\ ForeignKeys \subseteq BOOLEAN

VARIABLES
  chunks,     \* the chunks table: ref_count per hash
  blobs,      \* hashes whose data is in the storage backend
  sessions,   \* keys of UploadHandler.sessions (memory)
  created,    \* session ids handed out so far
  expired,    \* sessions past ExpiresAt
  uploaded,   \* Chunks/ChunkHashes of each session: the body recorded per index
  status,     \* the files row: "none" (not yet created), "live", "trashed", "gone"
  origin,     \* the session a files row was created for (its path)
  linked,     \* files.manifest_id is set
  manifests,  \* the manifests row of a file: its chunk list, by index
  pc,         \* the statement each actor executes next
  req,        \* what its function works on: session, index, body, file
  todo,       \* hashes its inner loop has still to go through
  snap,       \* the chunk list of a session or manifest, as it has read it
  rest,       \* indexes of snap its outer loop has still to visit
  batch,      \* sessions or files a background job has still to visit
  cut,        \* actors whose context is cancelled
  faults      \* failures so far

dbVars   == <<status, origin, linked, manifests>>
sessVars == <<sessions, created, expired, uploaded>>
locals   == <<req, todo, snap, rest, batch>>
vars == <<chunks, blobs, sessions, created, expired, uploaded, status, origin,
          linked, manifests, pc, req, todo, snap, rest, batch, cut, faults>>

Actors  == Workers \cup {Janitor, Collector}
Indexes == 0 .. (TotalChunks - 1)

(* ChunkHashes of a session: a hash list per index, or no entry.            *)
Maps     == [Indexes -> Bodies \cup {NoBody}]
EmptyMap == [i \in Indexes |-> NoBody]
Recorded(m) == {i \in Indexes : m[i] # NoBody}

Labels == {"idle",
           "exists", "increment", "put", "insertChunk", "record",
           "stat", "insertFile", "insertManifest", "link", "forget",
           "undoManifest", "undoFile",
           "remove", "read", "decrement", "decrementLast",
           "sweep", "collect", "drop", "reread", "deleteRow",
           "loop", "unlink", "unrow"}

Works(s, i, b, f) == [sess |-> s, idx |-> i, body |-> b, file |-> f]

Nothing == Works(NoSession, 0, NoBody, NoFile)

TypeOK ==
  /\ chunks \in Tables
  /\ blobs \subseteq Hashes
  /\ sessions \subseteq Sessions
  /\ created \subseteq Sessions
  /\ expired \subseteq Sessions
  /\ uploaded \in [Sessions -> Maps]
  /\ status \in [FileIds -> {"none", "live", "trashed", "gone"}]
  /\ origin \in [FileIds -> Sessions \cup {NoSession}]
  /\ linked \in [FileIds -> BOOLEAN]
  /\ manifests \in [FileIds -> Maps \cup {NoManifest}]
  /\ pc \in [Actors -> Labels]
  /\ req \in [Actors -> [sess : Sessions \cup {NoSession}, idx : Indexes,
                        body : Bodies \cup {NoBody}, file : FileIds \cup {NoFile}]]
  /\ todo \in [Actors -> Seq(Hashes)]
  /\ snap \in [Actors -> Maps]
  /\ rest \in [Actors -> SUBSET Indexes]
  /\ batch \in [Actors -> SUBSET (Sessions \cup FileIds)]
  /\ cut \subseteq Actors \ {Janitor}
  /\ faults \in 0 .. MaxFaults

Init ==
  /\ chunks = EmptyTable
  /\ blobs = {}
  /\ sessions = {}
  /\ created = {}
  /\ expired = {}
  /\ uploaded = [s \in Sessions |-> EmptyMap]
  /\ status = [f \in FileIds |-> "none"]
  /\ origin = [f \in FileIds |-> NoSession]
  /\ linked = [f \in FileIds |-> FALSE]
  /\ manifests = [f \in FileIds |-> NoManifest]
  /\ pc = [a \in Actors |-> "idle"]
  /\ req = [a \in Actors |-> Nothing]
  /\ todo = [a \in Actors |-> <<>>]
  /\ snap = [a \in Actors |-> EmptyMap]
  /\ rest = [a \in Actors |-> {}]
  /\ batch = [a \in Actors |-> {}]
  /\ cut = {}
  /\ faults = 0

-----------------------------------------------------------------------------
(* Control.                                                                *)

Idle(a) == pc[a] = "idle"

Slot == Cardinality({a \in Actors : ~Idle(a)}) < MaxActive

(* A statement on the database runs only under a context that is not       *)
(* cancelled; Fail is what happens otherwise.                              *)
At(a, label) == pc[a] = label
Query(a, label) == pc[a] = label /\ a \notin cut

(* sessionsMutex: every other critical section on the map is a single step; *)
(* the Janitor holds the lock through its whole sweep.                     *)
SessionsFree == Idle(Janitor)

Goto(a, label) == pc' = [pc EXCEPT ![a] = label]

(* The handler returns: its locals are gone and so is its context.          *)
Finish(a) ==
  /\ Goto(a, "idle")
  /\ req' = [req EXCEPT ![a] = Nothing]
  /\ todo' = [todo EXCEPT ![a] = <<>>]
  /\ snap' = [snap EXCEPT ![a] = EmptyMap]
  /\ rest' = [rest EXCEPT ![a] = {}]
  /\ batch' = [batch EXCEPT ![a] = {}]
  /\ cut' = cut \ {a}

Hash(a) == Head(todo[a])

(* A row of files exists.                                                   *)
Row(f) == status[f] \in {"live", "trashed"}

(* A file id no row has had and no request in progress has generated.       *)
FreshFile(f) == status[f] = "none" /\ \A a \in Actors : req[a].file # f

-----------------------------------------------------------------------------
(* createUpload, and the passing of SessionTTL.                             *)

CreateUpload(s) ==
  /\ Slot /\ SessionsFree
  /\ s \notin created
  /\ sessions' = sessions \cup {s}
  /\ created' = created \cup {s}
  /\ UNCHANGED <<chunks, blobs, expired, uploaded, dbVars, pc, locals, cut, faults>>

Expire(s) ==
  /\ s \in sessions \ expired
  /\ expired' = expired \cup {s}
  /\ UNCHANGED <<chunks, blobs, sessions, created, uploaded, dbVars, pc, locals, cut, faults>>

-----------------------------------------------------------------------------
(* uploadChunk.                                                             *)

StartUpload(w, s, i, b) ==
  /\ Idle(w) /\ Slot /\ SessionsFree
  /\ s \in sessions \ expired
  /\ uploaded[s][i] = NoBody
  /\ \A k \in DOMAIN HashesOf[b] : chunks[HashesOf[b][k]] < MaxRef
  /\ req' = [req EXCEPT ![w] = Works(s, i, b, NoFile)]
  /\ todo' = [todo EXCEPT ![w] = HashesOf[b]]
  /\ Goto(w, "exists")
  /\ UNCHANGED <<chunks, blobs, sessVars, dbVars, snap, rest, batch, cut, faults>>

(* The loop over the CDC chunks of the body: on to the next, or record.      *)
NextHash(w) ==
  /\ todo' = [todo EXCEPT ![w] = Tail(@)]
  /\ Goto(w, IF Tail(todo[w]) = <<>> THEN "record" ELSE "exists")
  /\ UNCHANGED <<req, snap, rest, batch, cut>>

ChunkExists(w) ==
  /\ Query(w, "exists")
  /\ Goto(w, IF HasRow(chunks, Hash(w)) THEN "increment" ELSE "put")
  /\ UNCHANGED <<chunks, blobs, sessVars, dbVars, locals, cut, faults>>

IncrementRefCount(w) ==
  /\ Query(w, "increment")
  /\ \/ /\ HasRow(chunks, Hash(w))
        /\ chunks' = RowIncremented(chunks, Hash(w))
        /\ NextHash(w)
     \/ /\ ~HasRow(chunks, Hash(w))
        /\ Finish(w)
        /\ UNCHANGED chunks
  /\ UNCHANGED <<blobs, sessVars, dbVars, faults>>

Put(w) ==
  /\ At(w, "put")
  /\ blobs' = blobs \cup {Hash(w)}
  /\ Goto(w, "insertChunk")
  /\ UNCHANGED <<chunks, sessVars, dbVars, locals, cut, faults>>

CreateChunk(w) ==
  /\ Query(w, "insertChunk")
  /\ \/ /\ ~HasRow(chunks, Hash(w))
        /\ chunks' = RowInserted(chunks, Hash(w))
        /\ NextHash(w)
     \/ /\ HasRow(chunks, Hash(w))
        /\ Finish(w)
        /\ UNCHANGED chunks
  /\ UNCHANGED <<blobs, sessVars, dbVars, faults>>

(* The sweep ranges over the live ChunkHashes map without ChunksMutex: it   *)
(* may or may not produce an entry added meanwhile, and reads the new value *)
(* of one it has still to visit.  (The Go runtime may also abort on the     *)
(* race: that outcome is Crash.)                                            *)
SweepSees(s, i) ==
  /\ At(Janitor, "loop") \/ At(Janitor, "drop") \/ At(Janitor, "reread")
     \/ At(Janitor, "unlink") \/ At(Janitor, "unrow")
  /\ req[Janitor].sess = s
  /\ i \in rest[Janitor] \/ snap[Janitor][i] = NoBody

RecordChunk(w) ==
  LET s == req[w].sess
      i == req[w].idx
      b == req[w].body
  IN /\ At(w, "record")
     /\ uploaded' = [uploaded EXCEPT ![s][i] = b]
     /\ Goto(w, "idle")
     /\ req' = [req EXCEPT ![w] = Nothing]
     /\ \/ UNCHANGED <<snap, rest>>
        \/ /\ SweepSees(s, i)
           /\ snap' = [snap EXCEPT ![Janitor][i] = b]
           /\ rest' = [rest EXCEPT ![Janitor] = @ \cup {i}]
     /\ cut' = cut \ {w}
     /\ UNCHANGED <<chunks, blobs, sessions, created, expired, dbVars, todo, batch, faults>>

-----------------------------------------------------------------------------
(* completeUpload; it does not look at the expiry of the session.           *)

(* Mutant: the check for missing chunks is dropped.                         *)
StartCompleteUnchecked(w, s, f) ==
  /\ Idle(w) /\ Slot /\ SessionsFree
  /\ s \in sessions
  /\ FreshFile(f)
  /\ req' = [req EXCEPT ![w] = Works(s, 0, NoBody, f)]
  /\ Goto(w, "stat")
  /\ UNCHANGED <<chunks, blobs, sessVars, dbVars, todo, snap, rest, batch, cut, faults>>

StartComplete(w, s, f) ==
  /\ Idle(w) /\ Slot /\ SessionsFree
  /\ s \in sessions
  /\ Recorded(uploaded[s]) = Indexes
  /\ FreshFile(f)
  /\ req' = [req EXCEPT ![w] = Works(s, 0, NoBody, f)]
  /\ Goto(w, "stat")
  /\ UNCHANGED <<chunks, blobs, sessVars, dbVars, todo, snap, rest, batch, cut, faults>>

SamePath(f, s) == Row(f) /\ PathOf[origin[f]] = PathOf[s]

(* vfs.CreateFile, first half: GetFileByPath sees live rows only.           *)
StatPath(w) ==
  /\ Query(w, "stat")
  /\ \/ /\ \E f \in FileIds : SamePath(f, req[w].sess) /\ status[f] = "live"
        /\ Finish(w)
     \/ /\ ~ \E f \in FileIds : SamePath(f, req[w].sess) /\ status[f] = "live"
        /\ Goto(w, "insertFile")
        /\ UNCHANGED <<locals, cut>>
  /\ UNCHANGED <<chunks, blobs, sessVars, dbVars, faults>>

(* UNIQUE(user_id, parent_id, name) counts trashed rows too, and does not    *)
(* bind rows whose parent_id is NULL.                                       *)
UniqueViolation(s) ==
  /\ PathOf[s] \notin RootPaths
  /\ \E f \in FileIds : SamePath(f, s)

(* vfs.CreateFile, second half, then the chunk lists are collected in index  *)
(* order from the session.                                                  *)
InsertFile(w) ==
  LET s == req[w].sess
      f == req[w].file
  IN /\ Query(w, "insertFile")
     /\ \/ /\ UniqueViolation(s)
           /\ Finish(w)
           /\ UNCHANGED <<status, origin>>
        \/ /\ ~UniqueViolation(s)
           /\ status' = [status EXCEPT ![f] = "live"]
           /\ origin' = [origin EXCEPT ![f] = s]
           /\ snap' = [snap EXCEPT ![w] = uploaded[s]]
           /\ Goto(w, "insertManifest")
           /\ UNCHANGED <<req, todo, rest, batch, cut>>
     /\ UNCHANGED <<chunks, blobs, sessVars, linked, manifests, faults>>

(* Mutant: UpdateFile with the manifest id is forgotten.                    *)
InsertManifestUnlinked(w) ==
  /\ Query(w, "insertManifest")
  /\ manifests' = [manifests EXCEPT ![req[w].file] = snap[w]]
  /\ Goto(w, "forget")
  /\ UNCHANGED <<chunks, blobs, sessVars, status, origin, linked, locals, cut, faults>>

(* manifests.file_id REFERENCES files(id), where the pragma is on.          *)
InsertManifest(w) ==
  LET f == req[w].file
  IN /\ Query(w, "insertManifest")
     /\ \E fk \in ForeignKeys :
          \/ /\ fk /\ ~Row(f)
             /\ Goto(w, "undoFile")
             /\ UNCHANGED manifests
          \/ /\ ~(fk /\ ~Row(f))
             /\ manifests' = [manifests EXCEPT ![f] = snap[w]]
             /\ Goto(w, "link")
     /\ UNCHANGED <<chunks, blobs, sessVars, status, origin, linked, locals, cut, faults>>

LinkManifest(w) ==
  LET f == req[w].file
  IN /\ Query(w, "link")
     /\ \/ /\ Row(f)
           /\ linked' = [linked EXCEPT ![f] = TRUE]
           /\ Goto(w, "forget")
        \/ /\ ~Row(f)
           /\ Goto(w, "undoManifest")
           /\ UNCHANGED linked
     /\ UNCHANGED <<chunks, blobs, sessVars, status, origin, manifests, locals, cut, faults>>

ForgetSession(w) ==
  /\ At(w, "forget") /\ SessionsFree
  /\ sessions' = sessions \ {req[w].sess}
  /\ Finish(w)
  /\ UNCHANGED <<chunks, blobs, created, expired, uploaded, dbVars, faults>>

UndoManifest(w) ==
  /\ Query(w, "undoManifest")
  /\ manifests' = [manifests EXCEPT ![req[w].file] = NoManifest]
  /\ Goto(w, "undoFile")
  /\ UNCHANGED <<chunks, blobs, sessVars, status, origin, linked, locals, cut, faults>>

(* vfs.Delete is the soft delete.                                           *)
UndoFile(w) ==
  LET f == req[w].file
  IN /\ Query(w, "undoFile")
     /\ status' = [status EXCEPT ![f] = IF Row(f) THEN "trashed" ELSE @]
     /\ Finish(w)
     /\ UNCHANGED <<chunks, blobs, sessVars, origin, linked, manifests, faults>>

-----------------------------------------------------------------------------
(* The release loops.  cancelUpload reads the count before it decrements;   *)
(* the Janitor and the Collector decrement and then read.                   *)

First(a) == IF a \in Workers THEN "read" ELSE "drop"

NextRelease(a) ==
  /\ todo' = [todo EXCEPT ![a] = Tail(@)]
  /\ Goto(a, IF Tail(todo[a]) = <<>> THEN "loop" ELSE First(a))
  /\ UNCHANGED <<req, snap, rest, batch>>

StartCancel(w, s) ==
  /\ Idle(w) /\ Slot /\ SessionsFree
  /\ s \in sessions
  /\ req' = [req EXCEPT ![w] = Works(s, 0, NoBody, NoFile)]
  /\ Goto(w, "remove")
  /\ UNCHANGED <<chunks, blobs, sessVars, dbVars, todo, snap, rest, batch, cut, faults>>

(* Mutant: the indexes to release are 0..TotalChunks instead of the keys.    *)
RemoveSessionOffByOne(w) ==
  /\ At(w, "remove") /\ SessionsFree
  /\ sessions' = sessions \ {req[w].sess}
  /\ snap' = [snap EXCEPT ![w] = uploaded[req[w].sess]]
  /\ rest' = [rest EXCEPT ![w] = 0 .. TotalChunks]
  /\ Goto(w, "loop")
  /\ UNCHANGED <<chunks, blobs, created, expired, uploaded, dbVars, req, todo, batch, cut, faults>>

RemoveSession(w) ==
  LET s == req[w].sess
  IN /\ At(w, "remove") /\ SessionsFree
     /\ sessions' = sessions \ {s}
     /\ snap' = [snap EXCEPT ![w] = uploaded[s]]
     /\ rest' = [rest EXCEPT ![w] = Recorded(uploaded[s])]
     /\ Goto(w, "loop")
     /\ UNCHANGED <<chunks, blobs, created, expired, uploaded, dbVars, req, todo, batch, cut, faults>>

(* Ranging over a Go map visits the indexes in any order; a manifest keeps   *)
(* them in order.                                                           *)
BeginIndex(a) ==
  /\ At(a, "loop")
  /\ \E i \in rest[a] :
       /\ a = Collector => \A j \in rest[a] : i <= j
       /\ rest' = [rest EXCEPT ![a] = @ \ {i}]
       /\ todo' = [todo EXCEPT ![a] = HashesOf[snap[a][i]]]
  /\ Goto(a, First(a))
  /\ UNCHANGED <<chunks, blobs, sessVars, dbVars, req, snap, batch, cut, faults>>

(* Mutant: the sweep releases the chunks and leaves the session in the map.  *)
EndLoopKeepsSession(a) ==
  /\ At(a, "loop")
  /\ rest[a] = {}
  /\ \/ a \in Workers /\ Finish(a)
     \/ a = Janitor /\ Goto(a, "sweep") /\ UNCHANGED <<locals, cut>>
     \/ a = Collector /\ Goto(a, "deleteRow") /\ UNCHANGED <<locals, cut>>
  /\ UNCHANGED <<chunks, blobs, sessVars, dbVars, faults>>

EndLoop(a) ==
  /\ At(a, "loop")
  /\ rest[a] = {}
  /\ \/ /\ a \in Workers
        /\ Finish(a)
        /\ UNCHANGED sessions
     \/ /\ a = Janitor
        /\ sessions' = sessions \ {req[a].sess}
        /\ Goto(a, "sweep")
        /\ UNCHANGED <<locals, cut>>
     \/ /\ a = Collector
        /\ Goto(a, "deleteRow")
        /\ UNCHANGED <<sessions, locals, cut>>
  /\ UNCHANGED <<chunks, blobs, created, expired, uploaded, dbVars, faults>>

ReadChunk(w) ==
  /\ Query(w, "read")
  /\ \/ /\ HasRow(chunks, Hash(w))
        /\ Goto(w, IF chunks[Hash(w)] <= 1 THEN "decrementLast" ELSE "decrement")
        /\ UNCHANGED locals
     \/ /\ ~HasRow(chunks, Hash(w))
        /\ NextRelease(w)
  /\ UNCHANGED <<chunks, blobs, sessVars, dbVars, cut, faults>>

(* "decrementLast": the count read before was 0 or 1.                       *)
DecrementRefCount(w) ==
  /\ Query(w, "decrement") \/ Query(w, "decrementLast")
  /\ \/ /\ CanDecrement(chunks, Hash(w))
        /\ chunks' = RowDecremented(chunks, Hash(w))
        /\ \/ At(w, "decrementLast") /\ Goto(w, "unlink") /\ UNCHANGED locals
           \/ At(w, "decrement") /\ NextRelease(w)
     \/ /\ ~CanDecrement(chunks, Hash(w))
        /\ NextRelease(w)
        /\ UNCHANGED chunks
  /\ UNCHANGED <<blobs, sessVars, dbVars, cut, faults>>

Drop(a) ==
  /\ Query(a, "drop")
  /\ \/ /\ CanDecrement(chunks, Hash(a))
        /\ chunks' = RowDecremented(chunks, Hash(a))
        /\ Goto(a, "reread")
        /\ UNCHANGED locals
     \/ /\ ~CanDecrement(chunks, Hash(a))
        /\ NextRelease(a)
        /\ UNCHANGED chunks
  /\ UNCHANGED <<blobs, sessVars, dbVars, cut, faults>>

Reread(a) ==
  /\ Query(a, "reread")
  /\ \/ /\ HasRow(chunks, Hash(a)) /\ chunks[Hash(a)] <= 0
        /\ Goto(a, "unlink")
        /\ UNCHANGED locals
     \/ /\ ~(HasRow(chunks, Hash(a)) /\ chunks[Hash(a)] <= 0)
        /\ NextRelease(a)
  /\ UNCHANGED <<chunks, blobs, sessVars, dbVars, cut, faults>>

Unlink(a) ==
  /\ At(a, "unlink")
  /\ blobs' = blobs \ {Hash(a)}
  /\ Goto(a, "unrow")
  /\ UNCHANGED <<chunks, sessVars, dbVars, locals, cut, faults>>

DeleteChunk(a) ==
  /\ Query(a, "unrow")
  /\ chunks' = RowRemoved(chunks, Hash(a))
  /\ NextRelease(a)
  /\ UNCHANGED <<blobs, sessVars, dbVars, cut, faults>>

-----------------------------------------------------------------------------
(* cleanupExpiredSessions: one tick with something to do.  The session stays *)
(* in the map until its chunks are released, under the lock.                *)

StartSweep ==
  /\ Idle(Janitor) /\ Slot
  /\ sessions \cap expired # {}
  /\ batch' = [batch EXCEPT ![Janitor] = sessions \cap expired]
  /\ Goto(Janitor, "sweep")
  /\ UNCHANGED <<chunks, blobs, sessVars, dbVars, req, todo, snap, rest, cut, faults>>

SweepSession ==
  /\ At(Janitor, "sweep")
  /\ \E s \in batch[Janitor] :
       /\ batch' = [batch EXCEPT ![Janitor] = @ \ {s}]
       /\ req' = [req EXCEPT ![Janitor] = Works(s, 0, NoBody, NoFile)]
       /\ snap' = [snap EXCEPT ![Janitor] = uploaded[s]]
       /\ rest' = [rest EXCEPT ![Janitor] = Recorded(uploaded[s])]
  /\ Goto(Janitor, "loop")
  /\ UNCHANGED <<chunks, blobs, sessVars, dbVars, todo, cut, faults>>

(* Mutant: sessionsMutex is not unlocked at the end of a tick.               *)
EndSweepStaysLocked ==
  /\ At(Janitor, "sweep")
  /\ batch[Janitor] = {}
  /\ UNCHANGED vars

EndSweep ==
  /\ At(Janitor, "sweep")
  /\ batch[Janitor] = {}
  /\ Finish(Janitor)
  /\ UNCHANGED <<chunks, blobs, sessVars, dbVars, faults>>

-----------------------------------------------------------------------------
(* GCWorker.collectTrash and deleteFile.  The rows are those of the query's *)
(* snapshot: a file restored meanwhile is still deleted.  Which trashed      *)
(* files are old enough is left open.                                       *)

StartCollect ==
  /\ Idle(Collector) /\ Slot
  /\ \E S \in SUBSET {f \in FileIds : status[f] = "trashed"} :
       /\ S # {}
       /\ batch' = [batch EXCEPT ![Collector] = S]
  /\ Goto(Collector, "collect")
  /\ UNCHANGED <<chunks, blobs, sessVars, dbVars, req, todo, snap, rest, cut, faults>>

CollectFile ==
  /\ Query(Collector, "collect")
  /\ \E f \in batch[Collector] :
       /\ batch' = [batch EXCEPT ![Collector] = @ \ {f}]
       /\ req' = [req EXCEPT ![Collector] = Works(NoSession, 0, NoBody, f)]
       /\ \/ /\ manifests[f] = NoManifest
             /\ Goto(Collector, "deleteRow")
             /\ UNCHANGED <<snap, rest>>
          \/ /\ manifests[f] # NoManifest
             /\ snap' = [snap EXCEPT ![Collector] = manifests[f]]
             /\ rest' = [rest EXCEPT ![Collector] = Recorded(manifests[f])]
             /\ Goto(Collector, "loop")
  /\ UNCHANGED <<chunks, blobs, sessVars, dbVars, todo, cut, faults>>

(* DELETE FROM files; the manifests row goes with it where foreign keys are  *)
(* enforced.                                                                *)
RowDeleted(f) ==
  /\ status' = [status EXCEPT ![f] = IF Row(f) THEN "gone" ELSE @]
  /\ \E fk \in ForeignKeys :
       manifests' = IF fk /\ Row(f) THEN [manifests EXCEPT ![f] = NoManifest]
                    ELSE manifests

DeleteFileRow ==
  /\ Query(Collector, "deleteRow")
  /\ RowDeleted(req[Collector].file)
  /\ Goto(Collector, "collect")
  /\ UNCHANGED <<chunks, blobs, sessVars, origin, linked, locals, cut, faults>>

(* No row left, or rows.Next() false because the job's context is done.      *)
EndCollect ==
  /\ At(Collector, "collect")
  /\ batch[Collector] = {} \/ Collector \in cut
  /\ Finish(Collector)
  /\ UNCHANGED <<chunks, blobs, sessVars, dbVars, faults>>

-----------------------------------------------------------------------------
(* The user's requests on a file row, one statement each.  None of the       *)
(* handlers asks whether the row is in the trash.                           *)

SoftDelete(f) ==
  /\ Slot /\ status[f] = "live"
  /\ status' = [status EXCEPT ![f] = "trashed"]
  /\ UNCHANGED <<chunks, blobs, sessVars, origin, linked, manifests, pc, locals, cut, faults>>

(* Mutant: restoring rewrites the row without its manifest id.               *)
RestoreUnlinks(f) ==
  /\ Slot /\ status[f] = "trashed"
  /\ status' = [status EXCEPT ![f] = "live"]
  /\ linked' = [linked EXCEPT ![f] = FALSE]
  /\ UNCHANGED <<chunks, blobs, sessVars, origin, manifests, pc, locals, cut, faults>>

Restore(f) ==
  /\ Slot /\ status[f] = "trashed"
  /\ status' = [status EXCEPT ![f] = "live"]
  /\ UNCHANGED <<chunks, blobs, sessVars, origin, linked, manifests, pc, locals, cut, faults>>

DeletePermanent(f) ==
  /\ Slot /\ Row(f)
  /\ RowDeleted(f)
  /\ UNCHANGED <<chunks, blobs, sessVars, origin, linked, pc, locals, cut, faults>>

-----------------------------------------------------------------------------
(* Failures.  A client that disconnects, or a job that runs into its five   *)
(* minutes, leaves the actor with a cancelled context: each of its later    *)
(* statements fails, the clean-up after an error included.  A statement may *)
(* also fail by itself: busy_timeout is set on one pooled connection only.  *)

Disconnect(a) ==
  /\ a \in Workers \cup {Collector}
  /\ ~Idle(a) /\ a \notin cut
  /\ "disconnect" \in FaultKinds /\ faults < MaxFaults
  /\ faults' = faults + 1
  /\ cut' = cut \cup {a}
  /\ UNCHANGED <<chunks, blobs, sessVars, dbVars, pc, locals>>

(* Where the handler goes on after an error at a label: a response, the next *)
(* chunk of a release loop, or another statement.                           *)
ErrorReturns  == {"exists", "increment", "put", "insertChunk", "insertFile", "undoFile"}
ErrorContinues == {"read", "decrement", "decrementLast", "drop", "reread", "unrow"}

(* Mutant: completeUpload does not return when CreateManifest fails.         *)
ErrorGoesOn == [stat |-> "insertFile", insertManifest |-> "link",
                link |-> "undoManifest", undoManifest |-> "undoFile",
                unlink |-> "unrow", deleteRow |-> "collect"]

ErrorGoes == [stat |-> "insertFile", insertManifest |-> "undoFile",
              link |-> "undoManifest", undoManifest |-> "undoFile",
              unlink |-> "unrow", deleteRow |-> "collect"]

(* GetLatestManifest fails: the chunks are skipped, the row is deleted.      *)
CollectFileFails ==
  /\ At(Collector, "collect") /\ Collector \notin cut
  /\ \E f \in batch[Collector] :
       /\ batch' = [batch EXCEPT ![Collector] = @ \ {f}]
       /\ req' = [req EXCEPT ![Collector] = Works(NoSession, 0, NoBody, f)]
  /\ Goto(Collector, "deleteRow")
  /\ UNCHANGED <<todo, snap, rest, cut>>

Fail(a) ==
  /\ \/ a \in cut /\ UNCHANGED faults
     \/ a \notin cut /\ "error" \in FaultKinds /\ faults < MaxFaults /\ faults' = faults + 1
  /\ \/ pc[a] \in ErrorReturns /\ Finish(a)
     \/ pc[a] \in ErrorContinues /\ NextRelease(a) /\ UNCHANGED cut
     \/ /\ pc[a] \in DOMAIN ErrorGoes
        /\ Goto(a, ErrorGoes[pc[a]])
        /\ UNCHANGED <<locals, cut>>
     \/ a = Collector /\ CollectFileFails
  /\ UNCHANGED <<chunks, blobs, sessVars, dbVars>>

(* The process dies and restarts: the session map is memory.                *)
Crash ==
  /\ "crash" \in FaultKinds /\ faults < MaxFaults
  /\ faults' = faults + 1
  /\ sessions' = {}
  /\ pc' = [a \in Actors |-> "idle"]
  /\ req' = [a \in Actors |-> Nothing]
  /\ todo' = [a \in Actors |-> <<>>]
  /\ snap' = [a \in Actors |-> EmptyMap]
  /\ rest' = [a \in Actors |-> {}]
  /\ batch' = [a \in Actors |-> {}]
  /\ cut' = {}
  /\ UNCHANGED <<chunks, blobs, created, expired, uploaded, dbVars>>

-----------------------------------------------------------------------------
StepUpload(w) ==
  \/ ChunkExists(w) \/ IncrementRefCount(w) \/ Put(w) \/ CreateChunk(w) \/ RecordChunk(w)

StepComplete(w) ==
  \/ StatPath(w) \/ InsertFile(w) \/ InsertManifest(w) \/ LinkManifest(w)
  \/ ForgetSession(w) \/ UndoManifest(w) \/ UndoFile(w)

StepCancel(w) == RemoveSession(w) \/ ReadChunk(w) \/ DecrementRefCount(w)

StepRelease(a) == BeginIndex(a) \/ EndLoop(a) \/ Unlink(a) \/ DeleteChunk(a)

StepWorker(w) == StepUpload(w) \/ StepComplete(w) \/ StepCancel(w) \/ StepRelease(w)

StepJanitor ==
  \/ SweepSession \/ EndSweep \/ Drop(Janitor) \/ Reread(Janitor) \/ StepRelease(Janitor)

StepCollector ==
  \/ CollectFile \/ DeleteFileRow \/ EndCollect
  \/ Drop(Collector) \/ Reread(Collector) \/ StepRelease(Collector)

Request(w) ==
  \E s \in Sessions :
    \/ StartCancel(w, s)
    \/ \E f \in FileIds : StartComplete(w, s, f)
    \/ \E i \in Indexes, b \in Bodies : StartUpload(w, s, i, b)

Next ==
  \/ \E s \in Sessions : CreateUpload(s) \/ Expire(s)
  \/ \E f \in FileIds : SoftDelete(f) \/ Restore(f) \/ DeletePermanent(f)
  \/ \E w \in Workers : Request(w) \/ StepWorker(w)
  \/ StartSweep \/ StepJanitor
  \/ StartCollect \/ StepCollector
  \/ \E a \in Actors : Disconnect(a) \/ Fail(a)
  \/ Crash

Spec == Init /\ [][Next]_vars

(* Goroutines are scheduled, statements return (possibly with an error), and *)
(* the ticker of the sweep fires; nothing obliges a user to send a request. *)
Fairness ==
  /\ \A w \in Workers : WF_vars(StepWorker(w) \/ Fail(w))
  /\ WF_vars(StartSweep)
  /\ WF_vars(StepJanitor \/ Fail(Janitor))
  /\ WF_vars(StepCollector \/ Fail(Collector))

FairSpec == Spec /\ Fairness
-----------------------------------------------------------------------------
(* Properties.                                                              *)

Quiet == \A a \in Actors : Idle(a)

Positions == UNION {DOMAIN HashesOf[b] : b \in Bodies}

(* The places of a chunk list that hold hash h.                             *)
Occurrences(m, h) ==
  {p \in Indexes \X Positions :
     /\ m[p[1]] # NoBody
     /\ p[2] \in DOMAIN HashesOf[m[p[1]]]
     /\ HashesOf[m[p[1]]][p[2]] = h}

(* A file the user can still open or restore, with its content.              *)
HasContent(f) == Row(f) /\ linked[f] /\ manifests[f] # NoManifest

(* Everything that relies on the data of h: chunks recorded by sessions that *)
(* can still be completed, and the manifests of files.                      *)
References(h) ==
  (UNION {{<<"session", s>>} \X Occurrences(uploaded[s], h) : s \in sessions})
  \cup (UNION {{<<"file", f>>} \X Occurrences(manifests[f], h) : f \in {g \in FileIds : HasContent(g)}})

(* Reference counting is right as long as requests and jobs do not overlap:  *)
(* whenever nothing is in progress, every hash a session or a file relies on *)
(* has its data in storage and a ref_count of at least the number of places *)
(* that hold it, so that no release can delete it under them.  About the    *)
(* increments of uploadChunk against the decrements of cancelUpload,        *)
(* cleanupExpiredSessions and GCWorker.deleteFile.                          *)
RefCountCovers ==
  Quiet => \A h \in Hashes :
             References(h) # {} => /\ h \in blobs
                                  /\ chunks[h] >= Cardinality(References(h))

(* A file visible to its user has content, except while the request that     *)
(* creates it is between CreateFile and UpdateFile, or on its way to the     *)
(* clean-up of the orphaned record (completeUpload).  A client that leaves   *)
(* breaks it: the clean-up runs under the request's cancelled context.       *)
OrphansOwned ==
  \A f \in FileIds :
    status[f] = "live" /\ ~linked[f] =>
      \E w \in Workers : /\ req[w].file = f
                         /\ pc[w] \in {"insertManifest", "link",
                                        "undoManifest", "undoFile"}

(* As long as nothing fails, whatever the other requests, sweeps and         *)
(* collections do meanwhile, completeUpload leaves no file without content.  *)
NoOrphanFile == faults = 0 => OrphansOwned

(* completeUpload never stores a truncated file: a manifest lists a chunk    *)
(* list for every index of the upload, whatever other requests do to the    *)
(* session between its check and the collection of the hashes.              *)
ManifestComplete ==
  \A f \in FileIds : manifests[f] # NoManifest => Recorded(manifests[f]) = Indexes

(* files.manifest_id never dangles: a row that names a manifest has it,      *)
(* through failures, rollbacks, cascades and crashes.                       *)
LinkedHasManifest ==
  \A f \in FileIds : Row(f) /\ linked[f] => manifests[f] # NoManifest

(* The content of a file is fixed once it is linked: no other upload, late   *)
(* chunk, rollback or sweep changes its manifest while the row exists.       *)
ContentStable ==
  [][\A f \in FileIds : HasContent(f) /\ Row(f)' =>
        manifests'[f] = manifests[f] /\ linked'[f]]_vars

(* An expired session does not keep its chunks for ever: the sweep of       *)
(* cleanupExpiredSessions, or a request that ends the session, removes it.  *)
ExpiredRemoved ==
  \A s \in Sessions : (s \in sessions \cap expired) ~> (s \notin sessions)

(* Every request comes to its response, although completeUpload and          *)
(* cancelUpload need sessionsMutex, which the sweep holds while it talks to  *)
(* the database and the storage.                                            *)
RequestsReturn == \A w \in Workers : ~Idle(w) ~> Idle(w)

(* cancelUpload deletes the blob of a chunk only when its reference was the  *)
(* last one ("will be 0 after decrement").  It may delete another's: the     *)
(* count is read before the decrement.                                       *)
CancelDeletesLast ==
  \A w \in Workers : At(w, "unlink") => chunks[Hash(w)] <= 0
=============================================================================

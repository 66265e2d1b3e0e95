------------------------------ MODULE FuseMount ------------------------------
(***************************************************************************)
(* Files of the FUSE mount (fuse/fuse.go): handles buffer what is written, *)
(* and Release stores it.  A byte of a buffer is a chunk here; how content *)
(* is cut is in Chunker.  Every manifest has version 1, and (file_id,      *)
(* version) is unique, so a file gets one manifest.                        *)
(***************************************************************************)
EXTENDS ChunkTable, Sequences, FiniteSets

CONSTANTS
  Nodes,     \* ids of the files
  Handles,   \* open files
  Zeros,     \* the chunk of the bytes a write leaves out
  MaxData,   \* bound on the length of a buffer
  MaxSaves,  \* bound on the releases that write back
  Nil        \* no buffer, no manifest

ASSUME FuseAssumption ==
  /\ Zeros \in Hashes /\ Nil \notin Seq(Hashes)
  /\ IsFiniteSet(Nodes) /\ IsFiniteSet(Handles)
  /\ MaxData \in Nat /\ MaxSaves \in Nat

VARIABLES
  table,      \* the chunks table
  held,       \* hashes in the storage
  entry,      \* each file: no row yet, "new", or "linked" to its manifest
  manifest,   \* each file: its manifest
  handle,     \* each handle: where it is, its node and its buffer
  saves,      \* releases that write back, so far
  wiped       \* history: hashes the cleanup of a release has deleted

fuseVars == <<table, held, entry, manifest, handle, saves, wiped>>

Buffers == UNION {[1..n -> Hashes] : n \in 0..MaxData}
Closed == [pc |-> "closed", node |-> Nil, data |-> Nil, dirty |-> FALSE, i |-> 1]
Steps == {"closed", "open", "exists", "count", "put", "row", "manifest", "link",
          "wipeData", "wipeRow"}

NewVaultDriftFS ==
  /\ table = EmptyTable /\ held = {} /\ wiped = {} /\ saves = 0
  /\ entry = [f \in Nodes |-> "none"]
  /\ manifest = [f \in Nodes |-> Nil]
  /\ handle = [h \in Handles |-> Closed]

FuseTypeOK ==
  /\ saves \in 0..MaxSaves /\ table \in Tables /\ held \subseteq Hashes /\ wiped \subseteq Hashes
  /\ entry \in [Nodes -> {"none", "new", "linked"}]
  /\ manifest \in [Nodes -> Buffers \cup {Nil}]
  /\ handle \in [Handles -> [pc : Steps, node : Nodes \cup {Nil}, data : Buffers \cup {Nil},
                             dirty : BOOLEAN, i : 1..(MaxData + 1)]]

-----------------------------------------------------------------------------
OpenAs(h, f, data) ==
  handle' = [handle EXCEPT ![h] = [Closed EXCEPT !.pc = "open", !.node = f, !.data = data]]

CreateNode(h) ==
  /\ handle[h].pc = "closed"
  /\ \E f \in Nodes : /\ entry[f] = "none"
                      /\ entry' = [entry EXCEPT ![f] = "new"]
                      /\ OpenAs(h, f, <<>>)
  /\ UNCHANGED <<table, held, manifest, saves, wiped>>

(* The buffer stays nil: Read looks up the rows of the chunks, adds none of  *)
(* them to it, and returns nothing.                                          *)
OpenNode(h) ==
  /\ handle[h].pc = "closed"
  /\ \E f \in Nodes : entry[f] # "none" /\ OpenAs(h, f, Nil)
  /\ UNCHANGED <<table, held, entry, manifest, saves, wiped>>

Length(data) == IF data = Nil THEN 0 ELSE Len(data)
Resized(data, n) == [i \in 1..n |-> IF i <= Length(data) THEN data[i] ELSE Zeros]

WriteNode(h) ==
  /\ handle[h].pc = "open"
  /\ \E off \in 0..(MaxData - 1), b \in Hashes :
       LET data == handle[h].data
           room == IF off + 1 > Length(data) THEN Resized(data, off + 1) ELSE data
       IN  handle' = [handle EXCEPT ![h].data = [room EXCEPT ![off + 1] = b], ![h].dirty = TRUE]
  /\ UNCHANGED <<table, held, entry, manifest, saves, wiped>>

Setattr(h) ==
  /\ handle[h].pc = "open"
  /\ \E size \in 0..MaxData :
       /\ size # Length(handle[h].data)
       /\ handle' = [handle EXCEPT ![h].data = Resized(@, size), ![h].dirty = TRUE]
  /\ UNCHANGED <<table, held, entry, manifest, saves, wiped>>

-----------------------------------------------------------------------------
(* Release, and createManifestAndStoreChunks.                                *)

InStep(h, pc) == handle[h].pc = pc
Current(h) == handle[h].data[handle[h].i]
MoveTo(h, pc) == handle' = [handle EXCEPT ![h].pc = pc]
NextChunk(h, pc) == handle' = [handle EXCEPT ![h].pc = pc, ![h].i = @ + 1]
CloseHandle(h) == handle' = [handle EXCEPT ![h] = Closed]

(* A buffer truncated to nothing is not written back.  The size of the row,  *)
(* which is set first, is read by no step.                                   *)
Release(h) ==
  /\ InStep(h, "open")
  /\ IF handle[h].dirty /\ Len(handle[h].data) > 0
     THEN saves < MaxSaves /\ saves' = saves + 1 /\ MoveTo(h, "exists")
     ELSE CloseHandle(h) /\ UNCHANGED saves
  /\ UNCHANGED <<table, held, entry, manifest, wiped>>

ChunkExists(h) ==
  /\ InStep(h, "exists")
  /\ IF handle[h].i > Len(handle[h].data) THEN MoveTo(h, "manifest")
     ELSE IF HasRow(table, Current(h)) THEN MoveTo(h, "count")
     ELSE MoveTo(h, "put")
  /\ UNCHANGED <<table, held, entry, manifest, saves, wiped>>

IncrementRefCount(h) ==
  /\ InStep(h, "count")
  /\ IF HasRow(table, Current(h))
     THEN table' = RowIncremented(table, Current(h)) /\ NextChunk(h, "exists")
     ELSE CloseHandle(h) /\ UNCHANGED table
  /\ UNCHANGED <<held, entry, manifest, saves, wiped>>

PutChunk(h) ==
  /\ InStep(h, "put") /\ MoveTo(h, "row")
  /\ held' = held \cup {Current(h)}
  /\ UNCHANGED <<table, entry, manifest, saves, wiped>>

(* Another release may have inserted the row: then this one fails.           *)
InsertRow(h) ==
  /\ InStep(h, "row")
  /\ IF HasRow(table, Current(h)) THEN CloseHandle(h) /\ UNCHANGED table
     ELSE table' = RowInserted(table, Current(h)) /\ NextChunk(h, "exists")
  /\ UNCHANGED <<held, entry, manifest, saves, wiped>>

StartWipe(h) == handle' = [handle EXCEPT ![h].pc = "wipeData", ![h].i = 1]

InsertVersion(h) ==
  /\ InStep(h, "manifest")
  /\ LET f == handle[h].node
     IN  IF manifest[f] = Nil
         THEN manifest' = [manifest EXCEPT ![f] = handle[h].data] /\ MoveTo(h, "link")
         ELSE StartWipe(h) /\ UNCHANGED manifest
  /\ UNCHANGED <<table, held, entry, saves, wiped>>

LinkManifest(h) ==
  /\ InStep(h, "link") /\ CloseHandle(h)
  /\ entry' = [entry EXCEPT ![handle[h].node] = "linked"]
  /\ UNCHANGED <<table, held, manifest, saves, wiped>>

(* The cleanup deletes the chunks of the buffer, those it only counted too.  *)
WipeData(h) ==
  /\ InStep(h, "wipeData") /\ MoveTo(h, "wipeRow")
  /\ held' = held \ {Current(h)} /\ wiped' = wiped \cup {Current(h)}
  /\ UNCHANGED <<table, entry, manifest, saves>>

WipeRow(h) ==
  /\ InStep(h, "wipeRow")
  /\ table' = RowRemoved(table, Current(h))
  /\ IF handle[h].i = Len(handle[h].data) THEN CloseHandle(h) ELSE NextChunk(h, "wipeData")
  /\ UNCHANGED <<held, entry, manifest, saves, wiped>>

(* A statement or a Put fails: the release gives up, from the manifest on    *)
(* with a cleanup.                                                           *)
ReleaseFails(h) ==
  /\ handle[h].pc \in {"exists", "count", "put", "row", "manifest", "link"}
  /\ IF handle[h].pc \in {"manifest", "link"} THEN StartWipe(h) ELSE CloseHandle(h)
  /\ manifest' = IF InStep(h, "link") THEN [manifest EXCEPT ![handle[h].node] = Nil] ELSE manifest
  /\ UNCHANGED <<table, held, entry, saves, wiped>>

(* The process that holds the mount ends.                                    *)
UnmountFS ==
  /\ handle' = [h \in Handles |-> Closed]
  /\ UNCHANGED <<table, held, entry, manifest, saves, wiped>>

FuseNext ==
  \/ \E h \in Handles :
       \/ CreateNode(h) \/ OpenNode(h) \/ WriteNode(h) \/ Setattr(h)
       \/ Release(h) \/ ChunkExists(h) \/ IncrementRefCount(h) \/ PutChunk(h)
       \/ InsertRow(h) \/ InsertVersion(h) \/ LinkManifest(h) \/ WipeData(h) \/ WipeRow(h)
       \/ ReleaseFails(h)
  \/ UnmountFS

-----------------------------------------------------------------------------
Uses(x) == Cardinality({p \in Nodes \X (1..MaxData) :
                          /\ manifest[p[1]] # Nil
                          /\ p[2] \in DOMAIN manifest[p[1]] /\ manifest[p[1]][p[2]] = x})

(* Whatever releases run at a time, and wherever one fails: a chunk is       *)
(* counted at least once for each place in a manifest, and is stored, unless *)
(* the cleanup of a failed release has deleted it, and linked files have a   *)
(* manifest.                                                                 *)
MountKept ==
  /\ \A x \in Hashes \ wiped : Uses(x) > 0 => x \in held /\ table[x] >= Uses(x)
  /\ \A f \in Nodes : entry[f] = "linked" => manifest[f] # Nil

(* The state is well typed, and what is mounted is kept.                     *)
FuseInv == FuseTypeOK /\ MountKept
=============================================================================

------------------------------ MODULE SyncEngine ------------------------------
(***************************************************************************)
(* The sync engine (sync/engine.go) and its handlers: devices register,    *)
(* negotiate what differs, push chunks and commit changes.  A commit is    *)
(* applied change by change, each a sequence of SQL statements, and a      *)
(* change that fails is logged and skipped.                                *)
(*                                                                         *)
(* Files have the paths of a fixed set; one segment is the top level, where*)
(* names are not unique, two are a folder that always exists.              *)
(*                                                                         *)
(* The server makes the engine without a PathResolver (server.go calls     *)
(* NewEngine and never SetVFS): the first call of e.vfs panics, and        *)
(* RecoveryMiddleware answers 500.                                         *)
(***************************************************************************)
EXTENDS VectorClock, MerkleTree, FiniteSets

CONSTANTS
  Clients,    \* devices that register
  Slots,      \* commits served at a time
  Paths,      \* paths of files, relative
  Chunks,     \* hashes of chunks
  None,       \* an absent value
  Faults,     \* may statements fail?
  ReqClocks,  \* vector clocks in requests
  Lists,      \* file lists the comparison of trees is checked for
  Batches,    \* lists of changes in commits
  MaxIds,     \* bound: rows ever created
  MaxChanges  \* bound: changes ever committed

Ids == 1 .. MaxIds
Actions == {"add", "modify", "delete"}
Change == [path : Paths, action : Actions, chunks : Seq(Chunks)]
Row == [path : Paths, live : BOOLEAN, version : Nat \ {0}, link : Nat]

ASSUME SyncAssumption ==
  /\ Clients \subseteq Devices /\ Faults \in BOOLEAN
  /\ Batches \subseteq Seq(Change) \ {<<>>}
  /\ \A list \in Lists : \A f \in list : Len(f.path) \in 1 .. MaxDepth
  /\ MaxIds \in Nat /\ MaxChanges \in Nat
  /\ None \notin Row

VARIABLES
  rows,      \* files: id -> [path, live, version, link], or None
  mans,      \* manifests: [file, version, chunks]
  count,     \* ref_count of each chunk, 0: no row
  blobs,     \* chunks in storage
  device,    \* vector_clock of each registered device, or None
  commit,    \* the commit of each slot
  changes    \* changes committed so far

vars == <<rows, mans, count, blobs, device, commit, changes>>

Free == [pc |-> "idle", dev |-> None, clock |-> NewVectorClock, todo |-> <<>>,
         id |-> None, version |-> 0, at |-> 0]

TypeOK ==
  /\ \A i \in Ids : rows[i] # None =>
       /\ rows[i].path \in Paths /\ rows[i].live \in BOOLEAN
       /\ rows[i].version \in Nat \ {0}
       /\ rows[i].link # 0 => \E m \in mans : m.file = i /\ m.version = rows[i].link
  /\ \A m, n \in mans : m.file = n.file /\ m.version = n.version => m = n
  /\ count \in [Chunks -> Nat] /\ blobs \subseteq Chunks
  /\ \A d \in Clients : device[d] = None \/ device[d] \in ReqClocks \cup {NewVectorClock}

Init ==
  /\ rows = [i \in Ids |-> None]
  /\ mans = {} /\ count = [c \in Chunks |-> 0] /\ blobs = {}
  /\ device = [d \in Clients |-> None]
  /\ commit = [s \in Slots |-> Free]
  /\ changes = 0

store == <<rows, mans, count, blobs>>

(* Rows GetFileByPath may answer; one query below resolveParentID's folder.  *)
resolveFileByPath(p) == {i \in Ids : rows[i] # None /\ rows[i].live /\ rows[i].path = p}

-----------------------------------------------------------------------------
(* Devices.                                                                 *)

(* The statements on the devices table.                                      *)
GetDeviceByID(d) == device[d] # None
CreateDevice(d) == device' = [device EXCEPT ![d] = NewVectorClock]
UpdateDevice(d, v) == device' = [device EXCEPT ![d] = IF GetDeviceByID(d) THEN v ELSE None]
DeleteDevice(d) == device' = [device EXCEPT ![d] = None]

(* All devices are the user's own.                                           *)
verifyDeviceOwnership(d) == GetDeviceByID(d)

(* A new device has an empty clock; of a known one only names are updated.   *)
(* An INSERT that lost a race against another one fails.                     *)
RegisterDevice(d) == ~GetDeviceByID(d) /\ CreateDevice(d)

registerDevice(d) ==
  /\ RegisterDevice(d)
  /\ UNCHANGED <<store, commit, changes>>

removeDevice(d) ==
  /\ verifyDeviceOwnership(d) /\ DeleteDevice(d)
  /\ UNCHANGED <<store, commit, changes>>

(* push: only the blob is stored, its row comes with the commit.             *)
push(c) ==
  /\ c \notin blobs
  /\ blobs' = blobs \cup {c}
  /\ UNCHANGED <<rows, mans, count, device, commit, changes>>

-----------------------------------------------------------------------------
(* Negotiate.                                                               *)

(* The diff of the answer; an empty client or server has its own case.       *)
NegotiatedDiff(client, server) ==
  CASE client # <<>> /\ server # <<>> -> Diff(client, server)
    [] client = <<>> /\ server # <<>> ->
         [added |-> collectAllPaths(server), modified |-> {}, deleted |-> {}]
    [] OTHER -> [added |-> {}, modified |-> {}, deleted |-> {}]

(* In the server the list of its files is where Negotiate panics; no answer  *)
(* of it would change anything.                                              *)
Negotiate == UNCHANGED vars

negotiate(d) == verifyDeviceOwnership(d) /\ Negotiate

-----------------------------------------------------------------------------
(* Commit.                                                                  *)

Commit(s) ==
  /\ commit[s] = Free
  /\ \E d \in Clients, v \in ReqClocks, list \in Batches :
       /\ verifyDeviceOwnership(d)
       /\ changes + Len(list) <= MaxChanges
       /\ changes' = changes + Len(list)
       /\ commit' = [commit EXCEPT ![s] =
            [Free EXCEPT !.pc = "next", !.dev = d, !.clock = v, !.todo = list]]
  /\ UNCHANGED <<store, device>>

(* On to the next change, or to the end of the commit.                       *)
Advance(s) ==
  commit' = [commit EXCEPT ![s].todo = Tail(@), ![s].id = None, ![s].version = 0, ![s].at = 0,
                           ![s].pc = IF Len(commit[s].todo) = 1 THEN "device" ELSE "next"]

Head1(s) == Head(commit[s].todo)
At1(s, pc) == commit[s].pc = pc

(* add: INSERT, without a lookup.  Without chunks that is all.               *)
applyAdd(s) ==
  /\ At1(s, "next") /\ Head1(s).action = "add"
  /\ LET c == Head1(s)
         free == Len(c.path) = 1 \/ \A i \in Ids : rows[i] # None => rows[i].path # c.path
     IN  \/ \E i \in Ids :
              /\ free /\ i = Cardinality({j \in Ids : rows[j] # None}) + 1
              /\ rows' = [rows EXCEPT ![i] = [path |-> c.path, live |-> TRUE, version |-> 1,
                                              link |-> 0]]
              /\ IF c.chunks = <<>> THEN Advance(s)
                 ELSE commit' = [commit EXCEPT ![s].pc = "manifest", ![s].id = i, ![s].version = 1]
         \/ ~free /\ Advance(s) /\ UNCHANGED rows
  /\ UNCHANGED <<mans, count, blobs, device, changes>>

(* modify: the row is read, its version plus one is the new one.             *)
applyModify(s) ==
  /\ At1(s, "next") /\ Head1(s).action = "modify"
  /\ LET Found == resolveFileByPath(Head1(s).path)
     IN  \/ \E i \in Found :
              commit' = [commit EXCEPT ![s].pc = "manifest", ![s].id = i,
                                       ![s].version = rows[i].version + 1]
         \/ Found = {} /\ Advance(s)
  /\ UNCHANGED <<store, device, changes>>

applyDelete(s) ==
  /\ At1(s, "next") /\ Head1(s).action = "delete"
  /\ LET Found == resolveFileByPath(Head1(s).path)
     IN  \/ \E i \in Found : commit' = [commit EXCEPT ![s].pc = "trash", ![s].id = i]
         \/ Found = {} /\ Advance(s)
  /\ UNCHANGED <<store, device, changes>>

SoftDelete(s) ==
  /\ At1(s, "trash")
  /\ rows' = [rows EXCEPT ![commit[s].id].live = FALSE]
  /\ Advance(s)
  /\ UNCHANGED <<mans, count, blobs, device, changes>>

(* Mutant: a second manifest of a version is accepted.                       *)
ManifestAlways(s) ==
  /\ At1(s, "manifest")
  /\ mans' = mans \cup {[file |-> commit[s].id, version |-> commit[s].version, chunks |-> Head1(s).chunks]}
  /\ commit' = [commit EXCEPT ![s].pc = "link"]
  /\ UNCHANGED <<rows, count, blobs, device, changes>>

(* UNIQUE (file_id, version).                                                *)
CreateManifest(s) ==
  /\ At1(s, "manifest")
  /\ LET c == commit[s]
         taken == \E m \in mans : m.file = c.id /\ m.version = c.version
     IN  \/ /\ ~taken
            /\ mans' = mans \cup {[file |-> c.id, version |-> c.version, chunks |-> Head1(s).chunks]}
            /\ commit' = [commit EXCEPT ![s].pc = "link"]
         \/ taken /\ Advance(s) /\ UNCHANGED mans
  /\ UNCHANGED <<rows, count, blobs, device, changes>>

(* UpdateFile: manifest_id and version.                                      *)
LinkManifest(s) ==
  /\ At1(s, "link")
  /\ rows' = [rows EXCEPT ![commit[s].id].link = commit[s].version,
                          ![commit[s].id].version = commit[s].version]
  /\ IF Head1(s).chunks = <<>> THEN Advance(s)
     ELSE commit' = [commit EXCEPT ![s].pc = "refs", ![s].at = 1]
  /\ UNCHANGED <<mans, count, blobs, device, changes>>

(* The hash ensureChunkRefs is at, and the step on to the next one.          *)
Hash(s) == Head1(s).chunks[commit[s].at]

NextHash(s) ==
  IF commit[s].at = Len(Head1(s).chunks) THEN Advance(s)
  ELSE commit' = [commit EXCEPT ![s].pc = "refs", ![s].at = @ + 1]

(* ensureChunkRefs, for each hash: ChunkExists, then one of two statements.  *)
ensureChunkRefs(s) ==
  /\ At1(s, "refs")
  /\ commit' = [commit EXCEPT ![s].pc = IF count[Hash(s)] > 0 THEN "increment" ELSE "create"]
  /\ UNCHANGED <<store, device, changes>>

IncrementRefCount(s) ==
  /\ At1(s, "increment")
  /\ count' = [count EXCEPT ![Hash(s)] = @ + 1]
  /\ NextHash(s)
  /\ UNCHANGED <<rows, mans, blobs, device, changes>>

(* Mutant: the row is created with its reference, and counted up as well.    *)
CreateAndCount(s) ==
  /\ At1(s, "create")
  /\ count' = [count EXCEPT ![Hash(s)] = IF @ = 0 THEN 2 ELSE @]
  /\ IF count[Hash(s)] = 0 THEN NextHash(s) ELSE Advance(s)
  /\ UNCHANGED <<rows, mans, blobs, device, changes>>

(* The INSERT fails if another commit has created the row meanwhile, and the *)
(* hashes after it are not counted.                                          *)
CreateChunk(s) ==
  /\ At1(s, "create")
  /\ count' = [count EXCEPT ![Hash(s)] = IF @ = 0 THEN 1 ELSE @]
  /\ IF count[Hash(s)] = 0 THEN NextHash(s) ELSE Advance(s)
  /\ UNCHANGED <<rows, mans, blobs, device, changes>>

(* Any statement of a change may fail.                                       *)
StatementFails(s) ==
  /\ Faults
  /\ \E pc \in {"next", "manifest", "link", "refs", "increment", "create", "trash"} : At1(s, pc)
  /\ Advance(s)
  /\ UNCHANGED <<store, device, changes>>

(* The clock of the request is stored, whatever was there; the device may    *)
(* have been removed.                                                        *)
updateDeviceState(s) ==
  /\ At1(s, "device")
  /\ UpdateDevice(commit[s].dev, commit[s].clock)
  /\ commit' = [commit EXCEPT ![s].pc = "tree"]
  /\ UNCHANGED <<store, changes>>

(* The list of files for the new root: the panic, after everything has been  *)
(* written, and the client is told 500.                                      *)
CommitEnds(s) ==
  /\ At1(s, "tree")
  /\ commit' = [commit EXCEPT ![s] = Free]
  /\ UNCHANGED <<store, device, changes>>

Next ==
  \/ \E d \in Clients : registerDevice(d) \/ removeDevice(d) \/ negotiate(d)
  \/ \E c \in Chunks : push(c)
  \/ \E s \in Slots :
       \/ Commit(s) \/ applyAdd(s) \/ applyModify(s) \/ applyDelete(s) \/ SoftDelete(s)
       \/ CreateManifest(s) \/ LinkManifest(s) \/ ensureChunkRefs(s) \/ IncrementRefCount(s)
       \/ CreateChunk(s) \/ StatementFails(s) \/ updateDeviceState(s) \/ CommitEnds(s)

Spec == Init /\ [][Next]_vars

-----------------------------------------------------------------------------
(* Properties.                                                              *)

(* Commits do not overwrite each other's modifications: when a modify writes *)
(* version n + 1 the row still has the version n it read, however many       *)
(* commits raced for it (the unique manifest of a version lets one pass).    *)
(* The one exception is the late link of an add, which puts version 1 back.  *)
NoLostModify ==
  [][\A s \in Slots :
       LinkManifest(s) /\ Head1(s).action = "modify"
       => rows[commit[s].id].version \in {commit[s].version - 1, 1}]_vars

(* Where manifests name a chunk: a hash may be in one manifest many times.   *)
Places(c) == UNION {{<<m, i>> : i \in {j \in DOMAIN m.chunks : m.chunks[j] = c}} : m \in mans}

(* A chunk never counts more references than there are places in manifests   *)
(* that name it, in any interleaving and with any statement failing: what    *)
(* decrements once for every place can bring the count to zero, and nothing  *)
(* keeps the chunk from being collected for ever.                            *)
NeverOvercounted == \A c \in Chunks : count[c] <= Cardinality(Places(c))

(* The state is well typed, no manifest_id dangles, a version has one        *)
(* manifest, and no chunk is overcounted.                                    *)
SyncInv == TypeOK /\ NeverOvercounted

(* What the operators compute does not depend on the state: it is enough to  *)
(* look at the first one.                                                    *)
Fresh == changes = 0 /\ blobs = {}

(* Compare is the causal order of the clocks, and Merge the least clock that *)
(* has seen both: negotiating forgets nothing and invents nothing.           *)
ClocksExact ==
  Fresh => \A v, w \in Clocks(0 .. 2) :
    /\ Compare(v, w) = Causality(v, w)
    /\ Seen(v, Merge(v, w)) /\ Seen(w, Merge(v, w))
    /\ \A u \in Clocks(0 .. 2) : Seen(v, u) /\ Seen(w, u) => Seen(Merge(v, w), u)

(* The diff Negotiate computes of two lists.  Whatever the order in which    *)
(* sort.Slice leaves a folder and its group, what it calls modified is, and  *)
(* what it calls added or deleted is in the list it says.  If the entry of a *)
(* folder is before its group, what is called added or deleted is missing on *)
(* the other side; and if besides no content is at two paths, every file     *)
(* that differs is reported.  (With content at two paths it need not be: the *)
(* hash of a folder has no names.)                                           *)
DiffsExact ==
  Fresh => \A a, b \in Lists :
    /\ \A s \in Orders(a), t \in Orders(b) :
         DiffWithin(NegotiatedDiff(Build(a, s), Build(b, t)), a, b)
    /\ LET d == NegotiatedDiff(Build(a, {}), Build(b, {}))
       IN  DiffSound(d, a, b) /\ DiffFinds(d, a, b)
=============================================================================

---------------------------- MODULE UploadProofs ----------------------------
(***************************************************************************)
(* Proofs about UploadService for every value of its constants: any number *)
(* of workers, sessions, files and bodies, any degree of concurrency and   *)
(* any number of failures, disconnects and crashes.                        *)
(***************************************************************************)
EXTENDS UploadService, TLAPS

UploadLabels   == {"exists", "increment", "put", "insertChunk", "record"}
CompleteLabels == {"stat", "insertFile", "insertManifest", "link", "forget",
                   "undoManifest", "undoFile"}
CancelLabels   == {"remove", "loop", "read", "decrement", "decrementLast", "unlink", "unrow"}
SweepLabels    == {"sweep", "loop", "drop", "reread", "unlink", "unrow"}
CollectLabels  == {"collect", "deleteRow", "loop", "drop", "reread", "unlink", "unrow"}

(* Labels at which the first hash of todo is used.                          *)
HashLabels == {"exists", "increment", "put", "insertChunk",
               "read", "decrement", "decrementLast", "drop", "reread", "unlink", "unrow"}

(* Each actor runs its own code.                                            *)
ControlOK ==
  /\ \A w \in Workers : pc[w] \in {"idle"} \cup UploadLabels \cup CompleteLabels \cup CancelLabels
  /\ pc[Janitor] \in {"idle"} \cup SweepLabels
  /\ pc[Collector] \in {"idle"} \cup CollectLabels

(* What the locals hold where they are used.                                *)
LocalsOK ==
  /\ \A a \in Actors : /\ pc[a] \in HashLabels => todo[a] # <<>>
                       /\ rest[a] \subseteq Recorded(snap[a])
  /\ \A w \in Workers :
       /\ pc[w] \in UploadLabels => req[w].sess \in Sessions /\ req[w].body \in Bodies
       /\ pc[w] \in CompleteLabels => req[w].sess \in Sessions /\ req[w].file \in FileIds
       /\ pc[w] = "remove" => req[w].sess \in Sessions
       /\ pc[w] \notin CompleteLabels => req[w].file = NoFile
  /\ batch[Janitor] \subseteq Sessions
  /\ batch[Collector] \subseteq FileIds

(* The upload a completing worker found complete stays complete, and so is   *)
(* the snapshot it takes of it.                                             *)
CollectionOK ==
  \A w \in Workers :
    /\ pc[w] \in {"stat", "insertFile"} => Recorded(uploaded[req[w].sess]) = Indexes
    /\ pc[w] = "insertManifest" => Recorded(snap[w]) = Indexes

Before == {"stat", "insertFile"}
Unlinked == {"stat", "insertFile", "insertManifest", "link", "undoManifest", "undoFile"}

(* A file id belongs to one worker until its row is linked.                  *)
OwnershipOK ==
  /\ \A v, w \in Workers : v # w /\ req[v].file # NoFile => req[v].file # req[w].file
  /\ \A w \in Workers :
       /\ pc[w] \in Before => status[req[w].file] = "none"
       /\ pc[w] \in Unlinked => ~linked[req[w].file]
       /\ pc[w] \in CompleteLabels \ Before => status[req[w].file] # "none"
       /\ pc[w] = "link" /\ Row(req[w].file) => manifests[req[w].file] # NoManifest
  /\ \A f \in FileIds : linked[f] => status[f] # "none"

(* The typing of TypeOK, apart for shared state and for the actors.          *)
SharedTypes ==
  /\ chunks \in Tables
  /\ blobs \subseteq Hashes
  /\ sessions \subseteq Sessions
  /\ created \subseteq Sessions
  /\ expired \subseteq Sessions
  /\ uploaded \in [Sessions -> Maps]
  /\ status \in [FileIds -> {"none", "live", "trashed", "gone"}]
  /\ origin \in [FileIds -> Sessions \cup {NoSession}]
  /\ linked \in [FileIds -> BOOLEAN]
  /\ manifests \in [FileIds -> Maps \cup {NoManifest}]
  /\ faults \in 0 .. MaxFaults

ActorTypes ==
  /\ pc \in [Actors -> Labels]
  /\ req \in [Actors -> [sess : Sessions \cup {NoSession}, idx : Indexes,
                        body : Bodies \cup {NoBody}, file : FileIds \cup {NoFile}]]
  /\ todo \in [Actors -> Seq(Hashes)]
  /\ snap \in [Actors -> Maps]
  /\ rest \in [Actors -> SUBSET Indexes]
  /\ batch \in [Actors -> SUBSET (Sessions \cup FileIds)]
  /\ cut \subseteq Actors \ {Janitor}

ActorInv == ActorTypes /\ ControlOK /\ LocalsOK

FileInv == CollectionOK /\ OwnershipOK /\ ManifestComplete /\ LinkedHasManifest

(* The inductive invariant.                                                 *)
IInv == SharedTypes /\ ActorInv /\ FileInv

-----------------------------------------------------------------------------
(* Sequences and constants.                                                 *)

(* A nonempty hash list has a first hash, and a rest.                        *)
LEMMA HeadTail ==
  ASSUME NEW S, NEW s \in Seq(S), s # <<>>
  PROVE  Head(s) \in S /\ Tail(s) \in Seq(S)
OBVIOUS

(* The values Finish and the start of a request give to the locals.          *)
LEMMA LocalValues ==
  /\ 0 \in Indexes
  /\ EmptyMap \in Maps
  /\ Recorded(EmptyMap) = {}
  /\ NoFile \notin FileIds
  /\ NoManifest \notin Maps
<1>1. 0 \in Indexes BY NumbersAssumption DEF Indexes
<1>2. EmptyMap \in Maps BY DEF EmptyMap, Maps
<1>3. Recorded(EmptyMap) = {} BY DEF EmptyMap, Recorded
<1> QED BY <1>1, <1>2, <1>3, BodiesAssumption DEF Maps, Indexes

(* IInv is a strengthening of the type invariant.                           *)
LEMMA Types == (SharedTypes /\ ActorTypes) <=> TypeOK
BY DEF SharedTypes, ActorTypes, TypeOK

-----------------------------------------------------------------------------
(* The parts of actions.                                                    *)

LEMMA FinishKeeps ==
  ASSUME ActorInv, NEW a \in Actors, Finish(a)
  PROVE  ActorInv'
<1> USE DEF Finish, Goto
<1>1. ActorTypes'
  BY LocalValues DEF ActorInv, ActorTypes, Labels, Nothing, Works
<1>2. ControlOK'
  BY ActorsAssumption DEF ActorInv, ActorTypes, ControlOK, Actors
<1>3. LocalsOK'
  BY LocalValues, ActorsAssumption
     DEF ActorInv, ActorTypes, LocalsOK, Actors, HashLabels, UploadLabels, CompleteLabels,
         Nothing, Works
<1> QED BY <1>1, <1>2, <1>3 DEF ActorInv

LEMMA NextHashKeeps ==
  ASSUME ActorInv, NEW w \in Workers, pc[w] \in UploadLabels \cap HashLabels, NextHash(w)
  PROVE  ActorInv'
<1> USE DEF NextHash, Goto
<1>1. w \in Actors /\ Tail(todo[w]) \in Seq(Hashes)
  BY HeadTail DEF Actors, ActorInv, ActorTypes, LocalsOK
<1>2. ActorTypes'
  BY <1>1 DEF ActorInv, ActorTypes, Labels
<1>3. ControlOK'
  BY <1>1, ActorsAssumption DEF ActorInv, ActorTypes, ControlOK, Actors, UploadLabels
<1>4. LocalsOK'
  BY <1>1, ActorsAssumption
     DEF ActorInv, ActorTypes, LocalsOK, Actors, HashLabels, UploadLabels, CompleteLabels
<1> QED BY <1>2, <1>3, <1>4 DEF ActorInv

ReleaseLabels == {"read", "decrement", "decrementLast", "drop", "reread", "unlink", "unrow"}

LEMMA NextReleaseKeeps ==
  ASSUME ActorInv, NEW a \in Actors, pc[a] \in ReleaseLabels, NextRelease(a), cut' = cut
  PROVE  ActorInv'
<1> USE DEF NextRelease, Goto, First
<1>1. Tail(todo[a]) \in Seq(Hashes)
  BY HeadTail DEF Actors, ActorInv, ActorTypes, LocalsOK, ReleaseLabels, HashLabels
<1>2. ActorTypes'
  BY <1>1 DEF ActorInv, ActorTypes, Labels
<1>3. ControlOK'
  BY <1>1, ActorsAssumption
     DEF ActorInv, ActorTypes, ControlOK, Actors, CancelLabels, SweepLabels, CollectLabels
<1>4. LocalsOK'
  BY <1>1, ActorsAssumption
     DEF ActorInv, ActorTypes, LocalsOK, ControlOK, Actors, HashLabels, UploadLabels,
         CompleteLabels, ReleaseLabels, CancelLabels
<1> QED BY <1>2, <1>3, <1>4 DEF ActorInv

(* A step that moves no worker into or through completeUpload and leaves the  *)
(* tables of files alone.                                                   *)
LEMMA FilesKept ==
  ASSUME IInv, ActorInv', UNCHANGED <<uploaded, dbVars>>,
         \A w \in Workers : pc'[w] \in CompleteLabels =>
                               pc'[w] = pc[w] /\ req'[w] = req[w] /\ snap'[w] = snap[w]
  PROVE  FileInv'
<1> USE DEF dbVars
<1>1. CollectionOK'
  BY DEF IInv, FileInv, CollectionOK, CompleteLabels
<1>2. OwnershipOK'
  BY DEF IInv, FileInv, OwnershipOK, ActorInv, LocalsOK, CompleteLabels, Before, Unlinked, Row
<1>3. ManifestComplete' /\ LinkedHasManifest'
  BY DEF IInv, FileInv, ManifestComplete, LinkedHasManifest, Row, Recorded
<1> QED BY <1>1, <1>2, <1>3 DEF FileInv
-----------------------------------------------------------------------------
(* uploadChunk.                                                             *)

LEMMA StartUploadKeeps ==
  ASSUME IInv, NEW w \in Workers, NEW s \in Sessions, NEW i \in Indexes, NEW b \in Bodies,
         StartUpload(w, s, i, b)
  PROVE  IInv'
<1> USE DEF StartUpload, Goto, sessVars, dbVars
<1>1. w \in Actors /\ HashesOf[b] \in Seq(Hashes) /\ HashesOf[b] # <<>>
  BY BodiesAssumption DEF Actors
<1>2. SharedTypes' BY DEF IInv, SharedTypes
<1>3. ActorTypes'
  BY <1>1 DEF IInv, ActorInv, ActorTypes, Labels, Works
<1>4. ControlOK'
  BY <1>1, ActorsAssumption DEF IInv, ActorInv, ActorTypes, ControlOK, Actors, UploadLabels
<1>5. LocalsOK'
  BY <1>1, ActorsAssumption
     DEF IInv, ActorInv, ActorTypes, LocalsOK, Actors, HashLabels, UploadLabels,
         CompleteLabels, Works
<1>6. ActorInv' BY <1>3, <1>4, <1>5 DEF ActorInv
<1>7. FileInv'
  BY <1>1, <1>6, FilesKept DEF IInv, ActorInv, ActorTypes, CompleteLabels
<1> QED BY <1>2, <1>6, <1>7 DEF IInv

LEMMA StepUploadKeeps ==
  ASSUME IInv, NEW w \in Workers, StepUpload(w)
  PROVE  IInv'
<1> USE DEF Goto, Query, At, sessVars, dbVars, locals
<1>a. w \in Actors BY DEF Actors
<1>b. pc[w] \in HashLabels => Hash(w) \in Hashes
  BY <1>a, HeadTail DEF IInv, ActorInv, ActorTypes, LocalsOK, Hash
<1>c. ASSUME ActorInv', Finish(w) \/ NextHash(w), UNCHANGED <<uploaded, dbVars>>
      PROVE  FileInv'
  <2>1. ASSUME NEW v \in Workers, pc'[v] \in CompleteLabels
        PROVE  pc'[v] = pc[v] /\ req'[v] = req[v] /\ snap'[v] = snap[v]
    <3>1. v # w /\ v \in Actors
      BY <1>a, <1>c, <2>1 DEF Finish, NextHash, CompleteLabels, IInv, ActorInv, ActorTypes, Actors
    <3> QED BY <1>c, <3>1 DEF Finish, NextHash, IInv, ActorInv, ActorTypes
  <2> QED BY <2>1, <1>c, FilesKept
<1>1. CASE ChunkExists(w)
  <2> USE <1>1 DEF ChunkExists
  <2>1. SharedTypes' BY DEF IInv, SharedTypes
  <2>2. ActorTypes' BY <1>a DEF IInv, ActorInv, ActorTypes, Labels
  <2>3. ControlOK'
    BY <1>a, ActorsAssumption DEF IInv, ActorInv, ActorTypes, ControlOK, Actors, UploadLabels
  <2>4. LocalsOK'
    BY <1>a, ActorsAssumption
       DEF IInv, ActorInv, ActorTypes, LocalsOK, Actors, HashLabels, UploadLabels, CompleteLabels
  <2>5. ActorInv' BY <2>2, <2>3, <2>4 DEF ActorInv
  <2>6. FileInv'
    BY <1>a, <2>5, FilesKept DEF IInv, ActorInv, ActorTypes, CompleteLabels
  <2> QED BY <2>1, <2>5, <2>6 DEF IInv
<1>2. CASE IncrementRefCount(w)
  <2> USE <1>2 DEF IncrementRefCount
  <2>1. ActorInv'
    BY <1>a, FinishKeeps, NextHashKeeps DEF IInv, UploadLabels, HashLabels
  <2>2. chunks' \in Tables
    BY <1>b DEF IInv, SharedTypes, Tables, HasRow, RowIncremented, NoRow, HashLabels
  <2>3. SharedTypes' BY <2>2 DEF IInv, SharedTypes
  <2> QED BY <2>1, <2>3, <1>c DEF IInv
<1>3. CASE Put(w)
  <2> USE <1>3 DEF Put
  <2>1. SharedTypes' BY <1>b DEF IInv, SharedTypes, HashLabels
  <2>2. ActorTypes' BY <1>a DEF IInv, ActorInv, ActorTypes, Labels
  <2>3. ControlOK'
    BY <1>a, ActorsAssumption DEF IInv, ActorInv, ActorTypes, ControlOK, Actors, UploadLabels
  <2>4. LocalsOK'
    BY <1>a, ActorsAssumption
       DEF IInv, ActorInv, ActorTypes, LocalsOK, Actors, HashLabels, UploadLabels, CompleteLabels
  <2>5. ActorInv' BY <2>2, <2>3, <2>4 DEF ActorInv
  <2>6. FileInv'
    BY <1>a, <2>5, FilesKept DEF IInv, ActorInv, ActorTypes, CompleteLabels
  <2> QED BY <2>1, <2>5, <2>6 DEF IInv
<1>4. CASE CreateChunk(w)
  <2> USE <1>4 DEF CreateChunk
  <2>1. ActorInv'
    BY <1>a, FinishKeeps, NextHashKeeps DEF IInv, UploadLabels, HashLabels
  <2>2. chunks' \in Tables
    BY <1>b DEF IInv, SharedTypes, Tables, RowInserted, NoRow, HashLabels
  <2>3. SharedTypes' BY <2>2 DEF IInv, SharedTypes
  <2> QED BY <2>1, <2>3, <1>c DEF IInv
<1>5. CASE RecordChunk(w)
  <2> USE <1>5 DEF RecordChunk
  <2> DEFINE s == req[w].sess
             i == req[w].idx
             b == req[w].body
  <2>1. s \in Sessions /\ i \in Indexes /\ b \in Bodies /\ b # NoBody
    BY <1>a, BodiesAssumption DEF IInv, ActorInv, ActorTypes, LocalsOK, UploadLabels
  <2>2. uploaded' = [uploaded EXCEPT ![s] = [uploaded[s] EXCEPT ![i] = b]]
    OBVIOUS
  <2>3. uploaded' \in [Sessions -> Maps]
    BY <2>1, <2>2 DEF IInv, SharedTypes, Maps
  <2>4. SharedTypes' BY <2>3 DEF IInv, SharedTypes
  <2>5. ActorTypes' /\ LocalsOK'
    <3>1. CASE UNCHANGED <<snap, rest>>
      <4>1. ActorTypes'
        BY <1>a, <3>1, LocalValues DEF IInv, ActorInv, ActorTypes, Labels, Nothing, Works
      <4>2. LocalsOK'
        BY <1>a, <3>1, ActorsAssumption, LocalValues
           DEF IInv, ActorInv, ActorTypes, LocalsOK, Actors, HashLabels, UploadLabels,
               CompleteLabels, Nothing, Works
      <4> QED BY <4>1, <4>2
    <3>2. CASE /\ snap' = [snap EXCEPT ![Janitor][i] = b]
               /\ rest' = [rest EXCEPT ![Janitor] = @ \cup {i}]
      <4>0. Janitor \in Actors BY DEF Actors
      <4>1. snap' = [snap EXCEPT ![Janitor] = [snap[Janitor] EXCEPT ![i] = b]]
        BY <3>2
      <4>2. ActorTypes'
        BY <1>a, <2>1, <3>2, <4>0, <4>1, LocalValues
           DEF IInv, ActorInv, ActorTypes, Labels, Nothing, Works, Maps
      <4>3. ASSUME NEW a \in Actors PROVE rest'[a] \subseteq Recorded(snap'[a])
        BY <2>1, <3>2, <4>0, <4>1 DEF IInv, ActorInv, ActorTypes, LocalsOK, Recorded, Maps
      <4>4. LocalsOK'
        BY <1>a, <4>3, <3>2, ActorsAssumption, LocalValues
           DEF IInv, ActorInv, ActorTypes, LocalsOK, Actors, HashLabels, UploadLabels,
               CompleteLabels, Nothing, Works, Recorded
      <4> QED BY <4>2, <4>4
    <3> QED BY <3>1, <3>2
  <2>6. ControlOK'
    BY <1>a, ActorsAssumption DEF IInv, ActorInv, ActorTypes, ControlOK, Actors
  <2>7. ActorInv' BY <2>5, <2>6 DEF ActorInv
  <2>8. ASSUME NEW v \in Workers, pc'[v] \in CompleteLabels
        PROVE  pc'[v] = pc[v] /\ req'[v] = req[v] /\ snap'[v] = snap[v]
    BY <1>a, <2>8, ActorsAssumption DEF IInv, ActorInv, ActorTypes, CompleteLabels, Actors
  <2>9. ASSUME NEW t \in Sessions, Recorded(uploaded[t]) = Indexes
        PROVE  Recorded(uploaded'[t]) = Indexes
    BY <2>1, <2>2, <2>9 DEF IInv, SharedTypes, Recorded, Maps
  <2>10. CollectionOK'
    BY <2>8, <2>9, <2>7
       DEF IInv, FileInv, CollectionOK, CompleteLabels, ActorInv, LocalsOK, Recorded
  <2>11. OwnershipOK'
    BY <2>7, <2>8
       DEF IInv, FileInv, OwnershipOK, ActorInv, LocalsOK, CompleteLabels, Before, Unlinked, Row
  <2>12. ManifestComplete' /\ LinkedHasManifest'
    BY DEF IInv, FileInv, ManifestComplete, LinkedHasManifest, Row, Recorded
  <2> QED BY <2>4, <2>7, <2>10, <2>11, <2>12 DEF IInv, FileInv
<1> QED BY <1>1, <1>2, <1>3, <1>4, <1>5 DEF StepUpload
-----------------------------------------------------------------------------
(* completeUpload.                                                          *)

(* The moves of a completing worker within its function.                    *)
LEMMA CompleteGoto ==
  ASSUME IInv, NEW w \in Workers, pc[w] \in CompleteLabels,
         NEW l \in CompleteLabels, Goto(w, l), UNCHANGED <<locals, cut>>
  PROVE  ActorInv'
<1> USE DEF Goto, locals
<1>1. w \in Actors BY DEF Actors
<1>2. ActorTypes'
  BY <1>1 DEF IInv, ActorInv, ActorTypes, Labels, CompleteLabels
<1>3. ControlOK'
  BY <1>1, ActorsAssumption DEF IInv, ActorInv, ActorTypes, ControlOK, Actors
<1>4. LocalsOK'
  BY <1>1, ActorsAssumption
     DEF IInv, ActorInv, ActorTypes, LocalsOK, Actors, HashLabels, UploadLabels, CompleteLabels,
         Recorded
<1> QED BY <1>2, <1>3, <1>4 DEF ActorInv

LEMMA StartCompleteKeeps ==
  ASSUME IInv, NEW w \in Workers, NEW s \in Sessions, NEW f \in FileIds, StartComplete(w, s, f)
  PROVE  IInv'
<1> USE DEF StartComplete, Goto, sessVars, dbVars
<1>1. w \in Actors BY DEF Actors
<1>2. SharedTypes' BY DEF IInv, SharedTypes
<1>3. ActorTypes'
  BY <1>1, LocalValues DEF IInv, ActorInv, ActorTypes, Labels, Works
<1>4. ControlOK'
  BY <1>1, ActorsAssumption DEF IInv, ActorInv, ActorTypes, ControlOK, Actors, CompleteLabels
<1>5. LocalsOK'
  BY <1>1, ActorsAssumption
     DEF IInv, ActorInv, ActorTypes, LocalsOK, Actors, HashLabels, UploadLabels,
         CompleteLabels, Works
<1>6. CollectionOK'
  BY <1>1 DEF IInv, FileInv, CollectionOK, ActorInv, ActorTypes, Actors, Works
<1>7. OwnershipOK'
  <2>1. /\ status[f] = "none" /\ ~linked[f]
        /\ \A v \in Workers : req[v].file # f
    BY DEF FreshFile, IInv, FileInv, OwnershipOK, Actors
  <2> QED
    BY <1>1, <2>1
       DEF IInv, FileInv, OwnershipOK, ActorInv, ActorTypes, Actors, Works, Row, Before, Unlinked,
           CompleteLabels
<1>8. ManifestComplete' /\ LinkedHasManifest'
  BY DEF IInv, FileInv, ManifestComplete, LinkedHasManifest, Row, Recorded
<1> QED BY <1>2, <1>3, <1>4, <1>5, <1>6, <1>7, <1>8 DEF IInv, ActorInv, FileInv

(* A handler that returns and leaves the tables of files alone.              *)
LEMMA FinishKeepsFiles ==
  ASSUME IInv, NEW a \in Actors, Finish(a), UNCHANGED <<uploaded, dbVars>>
  PROVE  ActorInv' /\ FileInv'
<1>1. ActorInv' BY FinishKeeps DEF IInv
<1>2. ASSUME NEW v \in Workers, pc'[v] \in CompleteLabels
      PROVE  pc'[v] = pc[v] /\ req'[v] = req[v] /\ snap'[v] = snap[v]
  <2>1. v # a /\ v \in Actors
    BY <1>2 DEF Finish, Goto, CompleteLabels, IInv, ActorInv, ActorTypes, Actors
  <2> QED BY <2>1 DEF Finish, Goto, IInv, ActorInv, ActorTypes
<1> QED BY <1>1, <1>2, FilesKept

(* The row of an existing file changes state, or goes, with its manifest     *)
(* where foreign keys are enforced.                                         *)
LEMMA RowChangeKeeps ==
  ASSUME IInv, ActorInv', UNCHANGED <<uploaded, linked>>,
         NEW f \in FileIds, Row(f),
         NEW v \in {"live", "trashed", "gone"}, status' = [status EXCEPT ![f] = v],
         \/ manifests' = manifests
         \/ v = "gone" /\ manifests' = [manifests EXCEPT ![f] = NoManifest],
         \A w \in Workers : pc'[w] \in CompleteLabels =>
                               pc'[w] = pc[w] /\ req'[w] = req[w] /\ snap'[w] = snap[w]
  PROVE  FileInv'
<1>1. CollectionOK'
  BY DEF IInv, FileInv, CollectionOK, CompleteLabels
<1>2. ASSUME NEW w \in Workers, pc'[w] \in CompleteLabels
      PROVE  /\ pc'[w] \in Before => status'[req'[w].file] = "none"
             /\ pc'[w] \in Unlinked => ~linked'[req'[w].file]
             /\ pc'[w] \in CompleteLabels \ Before => status'[req'[w].file] # "none"
             /\ pc'[w] = "link" /\ Row(req[w].file)' => manifests'[req'[w].file] # NoManifest
  <2>1. req[w].file \in FileIds /\ req'[w] = req[w] /\ pc'[w] = pc[w]
    BY <1>2 DEF IInv, ActorInv, LocalsOK
  <2> QED BY <2>1, <1>2 DEF IInv, SharedTypes, FileInv, OwnershipOK, Row, Before, Unlinked
<1>3. \A u, w \in Workers : u # w /\ req'[u].file # NoFile => req'[u].file # req'[w].file
  BY DEF IInv, FileInv, OwnershipOK, ActorInv, LocalsOK
<1>4. OwnershipOK'
  BY <1>2, <1>3
     DEF IInv, FileInv, OwnershipOK, SharedTypes, Row, Before, Unlinked, CompleteLabels
<1>5. ManifestComplete' /\ LinkedHasManifest'
  BY DEF IInv, SharedTypes, FileInv, ManifestComplete, LinkedHasManifest, Row, Recorded
<1> QED BY <1>1, <1>4, <1>5 DEF FileInv

LEMMA StepCompleteKeeps ==
  ASSUME IInv, NEW w \in Workers, StepComplete(w)
  PROVE  IInv'
<1> USE DEF Goto, Query, At, sessVars, dbVars, locals
<1>a. w \in Actors BY DEF Actors
<1>b. pc[w] \in CompleteLabels => req[w].sess \in Sessions /\ req[w].file \in FileIds
  BY DEF IInv, ActorInv, LocalsOK
<1> DEFINE f == req[w].file
           s == req[w].sess
<1>1. CASE StatPath(w)
  <2> USE <1>1 DEF StatPath
  <2>1. SharedTypes' BY DEF IInv, SharedTypes
  <2>2. CASE Finish(w)
    BY <1>a, <2>1, <2>2, FinishKeepsFiles DEF IInv
  <2>3. CASE Goto(w, "insertFile") /\ UNCHANGED <<locals, cut>>
    <3>1. ActorInv' BY <2>3, CompleteGoto DEF CompleteLabels
    <3>2. CollectionOK'
      BY <1>a, <2>3 DEF IInv, FileInv, CollectionOK, ActorInv, ActorTypes, Actors
    <3>3. OwnershipOK'
      BY <1>a, <2>3
         DEF IInv, FileInv, OwnershipOK, ActorInv, ActorTypes, Actors, Row, Before, Unlinked,
             CompleteLabels
    <3>4. ManifestComplete' /\ LinkedHasManifest'
      BY DEF IInv, FileInv, ManifestComplete, LinkedHasManifest, Row, Recorded
    <3> QED BY <2>1, <3>1, <3>2, <3>3, <3>4 DEF IInv, FileInv
  <2> QED BY <2>2, <2>3
<1>2. CASE InsertFile(w)
  <2> USE <1>2 DEF InsertFile
  <2>0. f \in FileIds /\ s \in Sessions BY <1>b DEF CompleteLabels
  <2>1. SharedTypes' BY <2>0 DEF IInv, SharedTypes
  <2>2. CASE Finish(w) /\ UNCHANGED <<status, origin>>
    BY <1>a, <2>1, <2>2, FinishKeepsFiles DEF IInv
  <2>3. CASE /\ status' = [status EXCEPT ![f] = "live"]
             /\ origin' = [origin EXCEPT ![f] = s]
             /\ snap' = [snap EXCEPT ![w] = uploaded[s]]
             /\ Goto(w, "insertManifest")
             /\ UNCHANGED <<req, todo, rest, batch, cut>>
    <3>0. /\ uploaded[s] \in Maps
          /\ Recorded(uploaded[s]) = Indexes
          /\ status[f] = "none"
      BY <2>0 DEF IInv, SharedTypes, FileInv, CollectionOK, OwnershipOK, Before
    <3>1. ActorTypes'
      BY <1>a, <2>3, <3>0 DEF IInv, ActorInv, ActorTypes, Labels
    <3>2. ControlOK'
      BY <1>a, <2>3, ActorsAssumption
         DEF IInv, ActorInv, ActorTypes, ControlOK, Actors, CompleteLabels
    <3>3. LocalsOK'
      BY <1>a, <2>3, <3>0, ActorsAssumption
         DEF IInv, ActorInv, ActorTypes, LocalsOK, Actors, HashLabels, UploadLabels, CompleteLabels
    <3>4. CollectionOK'
      BY <1>a, <2>3, <3>0 DEF IInv, FileInv, CollectionOK, ActorInv, ActorTypes, Actors
    <3>5. OwnershipOK'
      <4>1. \A v \in Workers \ {w} : req[v].file # f
        BY <2>0, LocalValues DEF IInv, FileInv, OwnershipOK
      <4> QED
        BY <1>a, <2>0, <2>3, <3>0, <4>1
           DEF IInv, FileInv, OwnershipOK, ActorInv, ActorTypes, Actors, SharedTypes,
               Row, Before, Unlinked, CompleteLabels, LocalsOK
    <3>6. ManifestComplete' /\ LinkedHasManifest'
      BY <2>0, <2>3, <3>0
         DEF IInv, SharedTypes, FileInv, ManifestComplete, LinkedHasManifest, OwnershipOK, Row, Recorded
    <3> QED BY <2>1, <3>1, <3>2, <3>3, <3>4, <3>5, <3>6 DEF IInv, ActorInv, FileInv
  <2> QED BY <2>2, <2>3
<1>3. CASE InsertManifest(w)
  <2> USE <1>3 DEF InsertManifest
  <2>0. /\ f \in FileIds /\ s \in Sessions /\ ~linked[f]
        /\ snap[w] \in Maps /\ snap[w] # NoManifest /\ Recorded(snap[w]) = Indexes
    BY <1>a, <1>b, LocalValues
       DEF CompleteLabels, IInv, ActorInv, ActorTypes, FileInv, CollectionOK, OwnershipOK, Unlinked
  <2>1. manifests' = manifests \/ manifests' = [manifests EXCEPT ![f] = snap[w]]
    OBVIOUS
  <2>2. SharedTypes' BY <2>0, <2>1 DEF IInv, SharedTypes
  <2>3. ActorInv' BY CompleteGoto DEF CompleteLabels
  <2>4. CollectionOK'
    BY <1>a DEF IInv, FileInv, CollectionOK, ActorInv, ActorTypes, Actors
  <2>5. OwnershipOK'
    <3>1. \A v \in Workers \ {w} : req[v].file # f
      BY <2>0, LocalValues DEF IInv, FileInv, OwnershipOK
    <3>2. CASE Goto(w, "undoFile") /\ UNCHANGED manifests
      BY <1>a, <2>0, <3>2
         DEF IInv, FileInv, OwnershipOK, ActorInv, ActorTypes, Actors, Row, Before, Unlinked,
             CompleteLabels
    <3>3. CASE Goto(w, "link") /\ manifests' = [manifests EXCEPT ![f] = snap[w]]
      BY <1>a, <2>0, <3>1, <3>3
         DEF IInv, FileInv, OwnershipOK, ActorInv, ActorTypes, Actors, SharedTypes, LocalsOK,
             Row, Before, Unlinked, CompleteLabels
    <3> QED BY <3>2, <3>3
  <2>6. ManifestComplete' /\ LinkedHasManifest'
    BY <2>0, <2>1
       DEF IInv, SharedTypes, FileInv, ManifestComplete, LinkedHasManifest, Row, Recorded
  <2> QED BY <2>2, <2>3, <2>4, <2>5, <2>6 DEF IInv, FileInv
<1>4. CASE LinkManifest(w)
  <2> USE <1>4 DEF LinkManifest
  <2>0. /\ f \in FileIds /\ s \in Sessions /\ ~linked[f]
        /\ Row(f) => manifests[f] # NoManifest
    BY <1>b DEF CompleteLabels, IInv, FileInv, OwnershipOK, Unlinked
  <2>1. SharedTypes' BY <2>0 DEF IInv, SharedTypes
  <2>2. ActorInv' BY CompleteGoto DEF CompleteLabels
  <2>3. CollectionOK'
    BY <1>a DEF IInv, FileInv, CollectionOK, ActorInv, ActorTypes, Actors
  <2>4. OwnershipOK'
    <3>1. \A v \in Workers \ {w} : req[v].file # f
      BY <2>0, LocalValues DEF IInv, FileInv, OwnershipOK
    <3>2. CASE Row(f) /\ linked' = [linked EXCEPT ![f] = TRUE] /\ Goto(w, "forget")
      BY <1>a, <2>0, <3>1, <3>2
         DEF IInv, FileInv, OwnershipOK, ActorInv, ActorTypes, Actors, SharedTypes, LocalsOK,
             Row, Before, Unlinked, CompleteLabels
    <3>3. CASE Goto(w, "undoManifest") /\ UNCHANGED linked
      BY <1>a, <2>0, <3>3
         DEF IInv, FileInv, OwnershipOK, ActorInv, ActorTypes, Actors, Row, Before, Unlinked,
             CompleteLabels
    <3> QED BY <3>2, <3>3
  <2>5. ManifestComplete' /\ LinkedHasManifest'
    BY <2>0
       DEF IInv, SharedTypes, FileInv, ManifestComplete, LinkedHasManifest, Row, Recorded
  <2> QED BY <2>1, <2>2, <2>3, <2>4, <2>5 DEF IInv, FileInv
<1>5. CASE ForgetSession(w)
  <2> USE <1>5 DEF ForgetSession
  <2>1. SharedTypes' BY DEF IInv, SharedTypes
  <2> QED BY <1>a, <2>1, FinishKeepsFiles DEF IInv
<1>6. CASE UndoManifest(w)
  <2> USE <1>6 DEF UndoManifest
  <2>0. f \in FileIds /\ s \in Sessions /\ ~linked[f]
    BY <1>b DEF CompleteLabels, IInv, FileInv, OwnershipOK, Unlinked
  <2>1. SharedTypes' BY <2>0 DEF IInv, SharedTypes
  <2>2. ActorInv' BY CompleteGoto DEF CompleteLabels
  <2>3. CollectionOK'
    BY <1>a DEF IInv, FileInv, CollectionOK, ActorInv, ActorTypes, Actors
  <2>4. OwnershipOK'
    <3>1. \A v \in Workers \ {w} : req[v].file # f
      BY <2>0, LocalValues DEF IInv, FileInv, OwnershipOK
    <3> QED
      BY <1>a, <2>0, <3>1
         DEF IInv, FileInv, OwnershipOK, ActorInv, ActorTypes, Actors, SharedTypes, LocalsOK,
             Row, Before, Unlinked, CompleteLabels
  <2>5. ManifestComplete' /\ LinkedHasManifest'
    BY <2>0
       DEF IInv, SharedTypes, FileInv, ManifestComplete, LinkedHasManifest, Row, Recorded
  <2> QED BY <2>1, <2>2, <2>3, <2>4, <2>5 DEF IInv, FileInv
<1>7. CASE UndoFile(w)
  <2> USE <1>7 DEF UndoFile
  <2>0. f \in FileIds BY <1>b DEF CompleteLabels
  <2>1. SharedTypes' BY <2>0 DEF IInv, SharedTypes
  <2>2. ActorInv' BY <1>a, FinishKeeps DEF IInv
  <2>3. CASE Row(f)
    <3>1. ASSUME NEW v \in Workers, pc'[v] \in CompleteLabels
          PROVE  pc'[v] = pc[v] /\ req'[v] = req[v] /\ snap'[v] = snap[v]
      <4>1. v # w /\ v \in Actors
        BY <1>a, <3>1 DEF Finish, CompleteLabels, IInv, ActorInv, ActorTypes, Actors
      <4> QED BY <4>1 DEF Finish, IInv, ActorInv, ActorTypes
    <3>2. status' = [status EXCEPT ![f] = "trashed"] BY <2>3
    <3> QED BY <2>0, <2>1, <2>2, <2>3, <3>1, <3>2, RowChangeKeeps DEF IInv
  <2>4. CASE ~Row(f)
    <3>1. status' = status BY <2>0, <2>4 DEF IInv, SharedTypes
    <3> QED BY <1>a, <2>1, <3>1, FinishKeepsFiles DEF IInv
  <2> QED BY <2>3, <2>4
<1> QED BY <1>1, <1>2, <1>3, <1>4, <1>5, <1>6, <1>7 DEF StepComplete
-----------------------------------------------------------------------------
(* cancelUpload and the release loops.                                      *)

(* A step of actor a outside completeUpload that leaves the tables of files  *)
(* alone changes no file.                                                   *)
LEMMA OutsideComplete ==
  ASSUME IInv, ActorInv', NEW a \in Actors, UNCHANGED <<uploaded, dbVars>>,
         a \in Workers => pc'[a] \notin CompleteLabels,
         \A b \in Actors \ {a} : pc'[b] = pc[b] /\ req'[b] = req[b] /\ snap'[b] = snap[b]
  PROVE  FileInv'
<1>1. ASSUME NEW w \in Workers, pc'[w] \in CompleteLabels
      PROVE  pc'[w] = pc[w] /\ req'[w] = req[w] /\ snap'[w] = snap[w]
  BY <1>1 DEF Actors
<1> QED BY <1>1, FilesKept

LEMMA StartCancelKeeps ==
  ASSUME IInv, NEW w \in Workers, NEW s \in Sessions, StartCancel(w, s)
  PROVE  IInv'
<1> USE DEF StartCancel, Goto, sessVars, dbVars
<1>1. w \in Actors BY DEF Actors
<1>2. SharedTypes' BY DEF IInv, SharedTypes
<1>3. ActorTypes'
  BY <1>1, LocalValues DEF IInv, ActorInv, ActorTypes, Labels, Works
<1>4. ControlOK'
  BY <1>1, ActorsAssumption DEF IInv, ActorInv, ActorTypes, ControlOK, Actors, CancelLabels
<1>5. LocalsOK'
  BY <1>1, ActorsAssumption
     DEF IInv, ActorInv, ActorTypes, LocalsOK, Actors, HashLabels, UploadLabels,
         CompleteLabels, Works
<1>6. ActorInv' BY <1>3, <1>4, <1>5 DEF ActorInv
<1>7. FileInv'
  BY <1>1, <1>6, OutsideComplete DEF IInv, ActorInv, ActorTypes, CompleteLabels
<1> QED BY <1>2, <1>6, <1>7 DEF IInv

(* A move between two labels of a release loop that use the same hash.       *)
LEMMA ReleaseGoto ==
  ASSUME IInv, NEW a \in Actors, pc[a] \in ReleaseLabels,
         NEW l \in ReleaseLabels,
         a \in Workers => l \in CancelLabels,
         a \notin Workers => l \in SweepLabels,
         Goto(a, l), UNCHANGED <<locals, cut>>
  PROVE  ActorInv'
<1> USE DEF Goto, locals
<1>1. ActorTypes'
  BY DEF IInv, ActorInv, ActorTypes, Labels, ReleaseLabels
<1>2. ControlOK'
  <2>1. a \in Workers \/ a = Janitor \/ a = Collector BY DEF Actors
  <2> USE ActorsAssumption DEF IInv, ActorInv, ActorTypes, ControlOK, Actors
  <2>2. CASE a \in Workers BY <2>2
  <2>3. CASE a = Janitor BY <2>3
  <2>4. CASE a = Collector BY <2>4 DEF SweepLabels, CollectLabels, ReleaseLabels
  <2> QED BY <2>1, <2>2, <2>3, <2>4
<1>3. LocalsOK'
  BY ActorsAssumption
     DEF IInv, ActorInv, ActorTypes, LocalsOK, ControlOK, Actors, HashLabels, UploadLabels,
         CompleteLabels, ReleaseLabels, CancelLabels, SweepLabels, CollectLabels
<1> QED BY <1>1, <1>2, <1>3 DEF ActorInv

LEMMA StepCancelKeeps ==
  ASSUME IInv, NEW w \in Workers, StepCancel(w)
  PROVE  IInv'
<1> USE DEF Goto, Query, At, sessVars, dbVars, locals
<1>a. w \in Actors BY DEF Actors
<1>1. CASE RemoveSession(w)
  <2> USE <1>1 DEF RemoveSession
  <2>0. req[w].sess \in Sessions /\ uploaded[req[w].sess] \in Maps
    BY DEF IInv, ActorInv, LocalsOK, SharedTypes
  <2>1. SharedTypes' BY DEF IInv, SharedTypes
  <2>2. ActorTypes'
    BY <1>a, <2>0 DEF IInv, ActorInv, ActorTypes, Labels, Recorded
  <2>3. ControlOK'
    BY <1>a, ActorsAssumption DEF IInv, ActorInv, ActorTypes, ControlOK, Actors, CancelLabels
  <2>4. LocalsOK'
    BY <1>a, <2>0, ActorsAssumption
       DEF IInv, ActorInv, ActorTypes, LocalsOK, Actors, HashLabels, UploadLabels, CompleteLabels
  <2>5. ActorInv' BY <2>2, <2>3, <2>4 DEF ActorInv
  <2>6. FileInv'
    BY <1>a, <2>5, OutsideComplete DEF IInv, ActorInv, ActorTypes, CompleteLabels
  <2> QED BY <2>1, <2>5, <2>6 DEF IInv
<1>2. CASE ReadChunk(w)
  <2> USE <1>2 DEF ReadChunk
  <2>1. SharedTypes' BY DEF IInv, SharedTypes
  <2>2. ActorInv'
    BY <1>a, ReleaseGoto, NextReleaseKeeps DEF IInv, ReleaseLabels, CancelLabels
  <2>3. FileInv'
    BY <1>a, <2>2, OutsideComplete
       DEF IInv, ActorInv, ActorTypes, CompleteLabels, NextRelease, First
  <2> QED BY <2>1, <2>2, <2>3 DEF IInv
<1>3. CASE DecrementRefCount(w)
  <2> USE <1>3 DEF DecrementRefCount
  <2>1. SharedTypes'
    BY DEF IInv, SharedTypes, Tables, CanDecrement, RowDecremented, NoRow
  <2>2. ActorInv'
    BY <1>a, ReleaseGoto, NextReleaseKeeps DEF IInv, ReleaseLabels, CancelLabels
  <2>3. FileInv'
    BY <1>a, <2>2, OutsideComplete
       DEF IInv, ActorInv, ActorTypes, CompleteLabels, NextRelease, First
  <2> QED BY <2>1, <2>2, <2>3 DEF IInv
<1> QED BY <1>1, <1>2, <1>3 DEF StepCancel

LEMMA StepReleaseKeeps ==
  ASSUME IInv, NEW a \in Actors, StepRelease(a)
  PROVE  IInv'
<1> USE DEF Goto, Query, At, sessVars, dbVars, locals
<1>1. CASE BeginIndex(a)
  <2> USE <1>1 DEF BeginIndex
  <2>0. PICK i \in rest[a] :
          /\ rest' = [rest EXCEPT ![a] = @ \ {i}]
          /\ todo' = [todo EXCEPT ![a] = HashesOf[snap[a][i]]]
    OBVIOUS
  <2>a. HashesOf[snap[a][i]] \in Seq(Hashes) /\ HashesOf[snap[a][i]] # <<>>
    <3>1. i \in Indexes /\ snap[a][i] # NoBody
      BY <2>0 DEF IInv, ActorInv, ActorTypes, LocalsOK, Recorded
    <3>2. snap[a][i] \in Bodies
      BY <3>1 DEF IInv, ActorInv, ActorTypes, Maps
    <3> QED BY <3>2, BodiesAssumption
  <2>1. SharedTypes' BY DEF IInv, SharedTypes
  <2>2. ActorTypes'
    BY <2>0, <2>a DEF IInv, ActorInv, ActorTypes, Labels, First
  <2>3. ControlOK'
    BY ActorsAssumption
       DEF IInv, ActorInv, ActorTypes, ControlOK, Actors, First, CancelLabels, SweepLabels,
           CollectLabels
  <2>4. LocalsOK'
    BY <2>0, <2>a, ActorsAssumption
       DEF IInv, ActorInv, ActorTypes, LocalsOK, Actors, First, HashLabels, UploadLabels,
           CompleteLabels
  <2>5. ActorInv' BY <2>2, <2>3, <2>4 DEF ActorInv
  <2>6. FileInv'
    BY <2>5, OutsideComplete DEF IInv, ActorInv, ActorTypes, CompleteLabels, First
  <2> QED BY <2>1, <2>5, <2>6 DEF IInv
<1>2. CASE EndLoop(a)
  <2> USE <1>2 DEF EndLoop
  <2>1. SharedTypes' BY DEF IInv, SharedTypes
  <2>2. CASE Finish(a)
    BY <2>1, <2>2, FinishKeepsFiles DEF IInv
  <2>3. CASE \/ a = Janitor /\ Goto(a, "sweep") /\ UNCHANGED <<locals, cut>>
             \/ a = Collector /\ Goto(a, "deleteRow") /\ UNCHANGED <<locals, cut>>
    <3>1. ActorTypes'
      BY <2>3 DEF IInv, ActorInv, ActorTypes, Labels
    <3>2. ControlOK'
      <4> USE ActorsAssumption DEF IInv, ActorInv, ActorTypes, ControlOK, Actors
      <4>1. CASE a = Janitor BY <4>1, <2>3 DEF SweepLabels
      <4>2. CASE a = Collector BY <4>2, <2>3 DEF CollectLabels
      <4> QED BY <2>3, <4>1, <4>2
    <3>3. LocalsOK'
      BY <2>3, ActorsAssumption
         DEF IInv, ActorInv, ActorTypes, LocalsOK, Actors, HashLabels, UploadLabels, CompleteLabels
    <3>4. ActorInv' BY <3>1, <3>2, <3>3 DEF ActorInv
    <3>5. FileInv'
      BY <2>3, <3>4, ActorsAssumption, OutsideComplete
         DEF IInv, ActorInv, ActorTypes, CompleteLabels
    <3> QED BY <2>1, <3>4, <3>5 DEF IInv
  <2> QED BY <2>2, <2>3
<1>3. CASE Unlink(a)
  <2> USE <1>3 DEF Unlink
  <2>1. SharedTypes' BY DEF IInv, SharedTypes
  <2>2. ActorInv'
    BY ReleaseGoto DEF IInv, ReleaseLabels, CancelLabels, SweepLabels
  <2>3. FileInv'
    BY <2>2, OutsideComplete DEF IInv, ActorInv, ActorTypes, CompleteLabels
  <2> QED BY <2>1, <2>2, <2>3 DEF IInv
<1>4. CASE DeleteChunk(a)
  <2> USE <1>4 DEF DeleteChunk
  <2>1. SharedTypes' BY DEF IInv, SharedTypes, Tables, RowRemoved, NoRow
  <2>2. ActorInv' BY NextReleaseKeeps DEF IInv, ReleaseLabels
  <2>3. FileInv'
    BY <2>2, OutsideComplete
       DEF IInv, ActorInv, ActorTypes, CompleteLabels, NextRelease, First
  <2> QED BY <2>1, <2>2, <2>3 DEF IInv
<1> QED BY <1>1, <1>2, <1>3, <1>4 DEF StepRelease

LEMMA DropKeeps ==
  ASSUME IInv, NEW a \in {Janitor, Collector}, Drop(a) \/ Reread(a)
  PROVE  IInv'
<1> USE DEF Goto, Query, sessVars, dbVars, locals
<1>a. a \in Actors /\ a \notin Workers BY ActorsAssumption DEF Actors
<1>1. SharedTypes'
  BY DEF IInv, SharedTypes, Tables, CanDecrement, RowDecremented, NoRow, Drop, Reread
<1>2. ActorInv'
  BY <1>a, ReleaseGoto, NextReleaseKeeps DEF IInv, ReleaseLabels, SweepLabels, Drop, Reread
<1>3. FileInv'
  BY <1>a, <1>2, OutsideComplete
     DEF IInv, ActorInv, ActorTypes, NextRelease, Drop, Reread
<1> QED BY <1>1, <1>2, <1>3 DEF IInv
-----------------------------------------------------------------------------
(* cleanupExpiredSessions and collectTrash.                                 *)

LEMMA SweepKeeps ==
  ASSUME IInv, StartSweep \/ SweepSession \/ EndSweep
  PROVE  IInv'
<1> USE DEF Goto, At, sessVars, dbVars
<1>a. Janitor \in Actors /\ Janitor \notin Workers BY ActorsAssumption DEF Actors
<1>1. CASE StartSweep
  <2> USE <1>1 DEF StartSweep
  <2>1. SharedTypes' BY DEF IInv, SharedTypes
  <2>2. ActorTypes' BY <1>a DEF IInv, SharedTypes, ActorInv, ActorTypes, Labels
  <2>3. ControlOK'
    BY <1>a, ActorsAssumption DEF IInv, ActorInv, ActorTypes, ControlOK, Actors, SweepLabels
  <2>4. LocalsOK'
    BY <1>a, ActorsAssumption
       DEF IInv, SharedTypes, ActorInv, ActorTypes, LocalsOK, Actors, HashLabels
  <2>5. ActorInv' BY <2>2, <2>3, <2>4 DEF ActorInv
  <2>6. FileInv' BY <1>a, <2>5, OutsideComplete DEF IInv, ActorInv, ActorTypes
  <2> QED BY <2>1, <2>5, <2>6 DEF IInv
<1>2. CASE SweepSession
  <2> USE <1>2 DEF SweepSession
  <2>0. PICK s \in batch[Janitor] :
          /\ batch' = [batch EXCEPT ![Janitor] = @ \ {s}]
          /\ req' = [req EXCEPT ![Janitor] = Works(s, 0, NoBody, NoFile)]
          /\ snap' = [snap EXCEPT ![Janitor] = uploaded[s]]
          /\ rest' = [rest EXCEPT ![Janitor] = Recorded(uploaded[s])]
    OBVIOUS
  <2>a. s \in Sessions /\ uploaded[s] \in Maps
    BY DEF IInv, SharedTypes, ActorInv, LocalsOK
  <2>1. SharedTypes' BY DEF IInv, SharedTypes
  <2>2. ActorTypes'
    BY <1>a, <2>0, <2>a, LocalValues DEF IInv, ActorInv, ActorTypes, Labels, Works, Recorded
  <2>3. ControlOK'
    BY <1>a, ActorsAssumption DEF IInv, ActorInv, ActorTypes, ControlOK, Actors, SweepLabels
  <2>4. LocalsOK'
    BY <1>a, <2>0, ActorsAssumption
       DEF IInv, ActorInv, ActorTypes, LocalsOK, Actors, HashLabels
  <2>5. ActorInv' BY <2>2, <2>3, <2>4 DEF ActorInv
  <2>6. FileInv' BY <1>a, <2>0, <2>5, OutsideComplete DEF IInv, ActorInv, ActorTypes
  <2> QED BY <2>1, <2>5, <2>6 DEF IInv
<1>3. CASE EndSweep
  <2>1. SharedTypes' BY <1>3 DEF EndSweep, IInv, SharedTypes
  <2> QED BY <1>a, <1>3, <2>1, FinishKeepsFiles DEF EndSweep, IInv
<1> QED BY <1>1, <1>2, <1>3

(* A row goes, by deletePermanent or by the trash job.                       *)
LEMMA RowDeletedKeeps ==
  ASSUME IInv, ActorInv', NEW f, f \in FileIds \/ f = NoFile, RowDeleted(f),
         UNCHANGED <<uploaded, origin, linked>>,
         \A w \in Workers : pc'[w] \in CompleteLabels =>
                               pc'[w] = pc[w] /\ req'[w] = req[w] /\ snap'[w] = snap[w]
  PROVE  /\ FileInv'
         /\ status' \in [FileIds -> {"none", "live", "trashed", "gone"}]
         /\ manifests' \in [FileIds -> Maps \cup {NoManifest}]
<1> USE DEF RowDeleted
<1>1. CASE f \in FileIds /\ Row(f)
  <2>1. /\ status' = [status EXCEPT ![f] = "gone"]
        /\ \/ manifests' = manifests
           \/ manifests' = [manifests EXCEPT ![f] = NoManifest]
    BY <1>1
  <2>2. FileInv' BY <1>1, <2>1, RowChangeKeeps
  <2> QED BY <1>1, <2>1, <2>2 DEF IInv, SharedTypes
<1>2. CASE f \in FileIds /\ ~Row(f)
  <2>1. status' = status /\ manifests' = manifests
    BY <1>2 DEF IInv, SharedTypes
  <2> QED BY <2>1, FilesKept DEF IInv, SharedTypes, dbVars
<1>3. CASE f \notin FileIds
  <2>1. status' = status
    BY <1>3 DEF IInv, SharedTypes
  <2>2. manifests' = manifests
    BY <1>3 DEF IInv, SharedTypes
  <2> QED BY <2>1, <2>2, FilesKept DEF IInv, SharedTypes, dbVars
<1> QED BY <1>1, <1>2, <1>3

LEMMA CollectKeeps ==
  ASSUME IInv, StartCollect \/ CollectFile \/ DeleteFileRow \/ EndCollect
  PROVE  IInv'
<1> USE DEF Goto, At, Query, sessVars, dbVars, locals
<1>a. Collector \in Actors /\ Collector \notin Workers BY ActorsAssumption DEF Actors
<1>1. CASE StartCollect
  <2> USE <1>1 DEF StartCollect
  <2>0. PICK S \in SUBSET FileIds : batch' = [batch EXCEPT ![Collector] = S]
    OBVIOUS
  <2>1. SharedTypes' BY DEF IInv, SharedTypes
  <2>2. ActorTypes' BY <1>a, <2>0 DEF IInv, ActorInv, ActorTypes, Labels
  <2>3. ControlOK'
    BY <1>a, ActorsAssumption DEF IInv, ActorInv, ActorTypes, ControlOK, Actors, CollectLabels
  <2>4. LocalsOK'
    BY <1>a, <2>0, ActorsAssumption
       DEF IInv, ActorInv, ActorTypes, LocalsOK, Actors, HashLabels
  <2>5. ActorInv' BY <2>2, <2>3, <2>4 DEF ActorInv
  <2>6. FileInv' BY <1>a, <2>5, OutsideComplete DEF IInv, ActorInv, ActorTypes
  <2> QED BY <2>1, <2>5, <2>6 DEF IInv
<1>2. CASE CollectFile
  <2> USE <1>2 DEF CollectFile
  <2>0. PICK f \in batch[Collector] :
          /\ batch' = [batch EXCEPT ![Collector] = @ \ {f}]
          /\ req' = [req EXCEPT ![Collector] = Works(NoSession, 0, NoBody, f)]
          /\ \/ /\ manifests[f] = NoManifest
                /\ Goto(Collector, "deleteRow")
                /\ UNCHANGED <<snap, rest>>
             \/ /\ manifests[f] # NoManifest
                /\ snap' = [snap EXCEPT ![Collector] = manifests[f]]
                /\ rest' = [rest EXCEPT ![Collector] = Recorded(manifests[f])]
                /\ Goto(Collector, "loop")
    OBVIOUS
  <2>a. f \in FileIds /\ (manifests[f] # NoManifest => manifests[f] \in Maps)
    BY DEF IInv, SharedTypes, ActorInv, LocalsOK
  <2>1. SharedTypes' BY DEF IInv, SharedTypes
  <2>2. ActorTypes'
    <3>1. /\ req' \in [Actors -> [sess : Sessions \cup {NoSession}, idx : Indexes,
                                 body : Bodies \cup {NoBody}, file : FileIds \cup {NoFile}]]
          /\ batch' \in [Actors -> SUBSET (Sessions \cup FileIds)]
      BY <1>a, <2>0, <2>a, LocalValues DEF IInv, ActorInv, ActorTypes, Works
    <3>2. /\ snap' \in [Actors -> Maps] /\ rest' \in [Actors -> SUBSET Indexes]
          /\ pc' \in [Actors -> Labels]
      <4> USE <1>a, <2>a DEF IInv, ActorInv, ActorTypes, Recorded, Labels
      <4>1. CASE manifests[f] = NoManifest BY <2>0, <4>1
      <4>2. CASE manifests[f] # NoManifest
        <5> HIDE <1>2 DEF CollectFile, Recorded, Labels
        <5> DEFINE m == manifests[f]
        <5>1. m \in Maps BY <4>2
        <5>2. Recorded(m) \in SUBSET Indexes BY DEF Recorded
        <5>3. snap' \in [Actors -> Maps] BY <2>0, <4>2, <5>1
        <5>4. rest' \in [Actors -> SUBSET Indexes] BY <2>0, <4>2, <5>2
        <5>5. pc' \in [Actors -> Labels] BY <2>0, <4>2 DEF Labels
        <5> QED BY <5>3, <5>4, <5>5
      <4> QED BY <4>1, <4>2
    <3> QED BY <3>1, <3>2 DEF IInv, ActorInv, ActorTypes
  <2>3. ControlOK'
    BY <1>a, <2>0, ActorsAssumption
       DEF IInv, ActorInv, ActorTypes, ControlOK, Actors, CollectLabels
  <2>4. LocalsOK'
    BY <1>a, <2>0, ActorsAssumption
       DEF IInv, ActorInv, ActorTypes, LocalsOK, Actors, HashLabels
  <2>5. ActorInv' BY <2>2, <2>3, <2>4 DEF ActorInv
  <2>6. FileInv' BY <1>a, <2>0, <2>5, OutsideComplete DEF IInv, ActorInv, ActorTypes
  <2> QED BY <2>1, <2>5, <2>6 DEF IInv
<1>3. CASE DeleteFileRow
  <2> USE <1>3 DEF DeleteFileRow
  <2>1. ActorTypes' BY <1>a DEF IInv, ActorInv, ActorTypes, Labels
  <2>2. ControlOK'
    BY <1>a, ActorsAssumption DEF IInv, ActorInv, ActorTypes, ControlOK, Actors, CollectLabels
  <2>3. LocalsOK'
    BY <1>a, ActorsAssumption
       DEF IInv, ActorInv, ActorTypes, LocalsOK, Actors, HashLabels, Recorded
  <2>4. ActorInv' BY <2>1, <2>2, <2>3 DEF ActorInv
  <2>5. \A w \in Workers : pc'[w] = pc[w] /\ req'[w] = req[w] /\ snap'[w] = snap[w]
    BY <1>a DEF IInv, ActorInv, ActorTypes, Actors
  <2>6. req[Collector].file \in FileIds \/ req[Collector].file = NoFile
    BY <1>a DEF IInv, ActorInv, ActorTypes
  <2>7. /\ FileInv'
        /\ status' \in [FileIds -> {"none", "live", "trashed", "gone"}]
        /\ manifests' \in [FileIds -> Maps \cup {NoManifest}]
    BY <2>4, <2>5, <2>6, RowDeletedKeeps
  <2>8. SharedTypes' BY <2>7 DEF IInv, SharedTypes
  <2> QED BY <2>4, <2>7, <2>8 DEF IInv
<1>4. CASE EndCollect
  <2>1. SharedTypes' BY <1>4 DEF EndCollect, IInv, SharedTypes
  <2> QED BY <1>a, <1>4, <2>1, FinishKeepsFiles DEF EndCollect, IInv
<1> QED BY <1>1, <1>2, <1>3, <1>4
-----------------------------------------------------------------------------
(* Sessions and rows as the user changes them, and failures.                 *)

(* The actors stay where they are.                                          *)
LEMMA ActorsStay ==
  ASSUME ActorInv, UNCHANGED <<pc, locals>>, cut' \subseteq Actors \ {Janitor}
  PROVE  ActorInv'
BY DEF ActorInv, ActorTypes, ControlOK, LocalsOK, locals, Recorded

LEMMA SessionsKeep ==
  ASSUME IInv, NEW s \in Sessions, CreateUpload(s) \/ Expire(s)
  PROVE  IInv'
<1> USE DEF CreateUpload, Expire, locals, dbVars
<1>1. SharedTypes' BY DEF IInv, SharedTypes
<1>2. ActorInv' BY ActorsStay DEF IInv, ActorInv, ActorTypes
<1>3. FileInv' BY <1>2, FilesKept
<1> QED BY <1>1, <1>2, <1>3 DEF IInv

LEMMA RowsKeep ==
  ASSUME IInv, NEW f \in FileIds, SoftDelete(f) \/ Restore(f) \/ DeletePermanent(f)
  PROVE  IInv'
<1> USE DEF SoftDelete, Restore, DeletePermanent, locals, sessVars
<1>1. ActorInv' BY ActorsStay DEF IInv, ActorInv, ActorTypes
<1>2. \A w \in Workers : pc'[w] = pc[w] /\ req'[w] = req[w] /\ snap'[w] = snap[w]
  OBVIOUS
<1>3. CASE SoftDelete(f) \/ Restore(f)
  <2>1. SharedTypes' BY <1>3 DEF IInv, SharedTypes
  <2>2. FileInv' BY <1>1, <1>2, <1>3, RowChangeKeeps DEF Row
  <2> QED BY <1>1, <2>1, <2>2 DEF IInv
<1>4. CASE DeletePermanent(f)
  <2>1. /\ FileInv'
        /\ status' \in [FileIds -> {"none", "live", "trashed", "gone"}]
        /\ manifests' \in [FileIds -> Maps \cup {NoManifest}]
    BY <1>1, <1>2, <1>4, RowDeletedKeeps
  <2>2. SharedTypes' BY <1>4, <2>1 DEF IInv, SharedTypes
  <2> QED BY <1>1, <2>1, <2>2 DEF IInv
<1> QED BY <1>3, <1>4

LEMMA DisconnectKeeps ==
  ASSUME IInv, NEW a \in Actors, Disconnect(a)
  PROVE  IInv'
<1> USE DEF Disconnect, locals, sessVars, dbVars
<1>1. SharedTypes' BY NumbersAssumption DEF IInv, SharedTypes
<1>2. cut' \subseteq Actors \ {Janitor}
  BY ActorsAssumption DEF IInv, ActorInv, ActorTypes, Actors
<1>3. ActorInv' BY <1>2, ActorsStay DEF IInv
<1>4. FileInv' BY <1>3, FilesKept
<1> QED BY <1>1, <1>3, <1>4 DEF IInv

LEMMA CrashKeeps ==
  ASSUME IInv, Crash
  PROVE  IInv'
<1> USE DEF Crash, dbVars
<1>1. SharedTypes' BY NumbersAssumption DEF IInv, SharedTypes
<1>2. ActorTypes' BY LocalValues DEF ActorTypes, Labels, Nothing, Works
<1>3. ControlOK' BY DEF ControlOK, Actors
<1>4. LocalsOK'
  BY LocalValues
     DEF LocalsOK, HashLabels, UploadLabels, CompleteLabels, Nothing, Works, Actors
<1>5. ActorInv' BY <1>2, <1>3, <1>4 DEF ActorInv
<1>6. FileInv' BY <1>5, FilesKept DEF CompleteLabels, Actors
<1> QED BY <1>1, <1>5, <1>6 DEF IInv

LEMMA InitInv == Init => IInv
<1> SUFFICES ASSUME Init PROVE IInv OBVIOUS
<1> USE DEF Init
<1>1. SharedTypes
  BY LocalValues, NumbersAssumption DEF SharedTypes, Tables, EmptyTable, NoRow
<1>2. ActorTypes BY LocalValues DEF ActorTypes, Labels, Nothing, Works
<1>3. ControlOK BY DEF ControlOK, Actors
<1>4. LocalsOK
  BY LocalValues
     DEF LocalsOK, HashLabels, UploadLabels, CompleteLabels, Nothing, Works, Actors
<1>5. CollectionOK BY DEF CollectionOK, Actors
<1>6. OwnershipOK
  BY DEF OwnershipOK, Before, Unlinked, CompleteLabels, Nothing, Works, Actors
<1>7. ManifestComplete /\ LinkedHasManifest
  BY DEF ManifestComplete, LinkedHasManifest, Row
<1> QED BY <1>1, <1>2, <1>3, <1>4, <1>5, <1>6, <1>7 DEF IInv, ActorInv, FileInv

(* ErrorGoes, entry by entry.                                               *)
LEMMA ErrorGoesValues ==
  /\ DOMAIN ErrorGoes = {"stat", "insertManifest", "link", "undoManifest", "unlink", "deleteRow"}
  /\ ErrorGoes["stat"] = "insertFile"
  /\ ErrorGoes["insertManifest"] = "undoFile"
  /\ ErrorGoes["link"] = "undoManifest"
  /\ ErrorGoes["undoManifest"] = "undoFile"
  /\ ErrorGoes["unlink"] = "unrow"
  /\ ErrorGoes["deleteRow"] = "collect"
BY DEF ErrorGoes

LEMMA FailKeeps ==
  ASSUME IInv, NEW a \in Actors, Fail(a)
  PROVE  IInv'
<1> USE DEF Goto, At, sessVars, dbVars, locals
<1>0. UNCHANGED <<chunks, blobs, sessVars, dbVars>> /\ faults' \in 0 .. MaxFaults
  BY NumbersAssumption DEF Fail, IInv, SharedTypes
<1>1. SharedTypes' BY <1>0 DEF IInv, SharedTypes
<1>2. CASE Finish(a)
  BY <1>0, <1>1, <1>2, FinishKeepsFiles DEF IInv
<1>3. CASE pc[a] \in ErrorContinues /\ NextRelease(a) /\ UNCHANGED cut
  <2>1. ActorInv'
    BY <1>3, NextReleaseKeeps DEF IInv, ErrorContinues, ReleaseLabels
  <2>2. FileInv'
    BY <1>0, <1>3, <2>1, OutsideComplete
       DEF IInv, ActorInv, ActorTypes, CompleteLabels, NextRelease, First
  <2> QED BY <1>1, <2>1, <2>2 DEF IInv
<1>4. CASE /\ pc[a] \in DOMAIN ErrorGoes
           /\ Goto(a, ErrorGoes[pc[a]])
           /\ UNCHANGED <<locals, cut>>
  <2>1. CASE pc[a] \in {"stat", "insertManifest", "link", "undoManifest"}
    <3>1. a \in Workers
      BY <2>1 DEF IInv, ActorInv, ControlOK, Actors, SweepLabels, CollectLabels
    <3>2. PICK l \in CompleteLabels :
            /\ pc' = [pc EXCEPT ![a] = l]
            /\ pc[a] = "stat" => l = "insertFile"
            /\ pc[a] # "stat" => l \in {"undoManifest", "undoFile"}
      BY <1>4, <2>1, ErrorGoesValues DEF CompleteLabels
    <3>3. ActorInv' BY <1>4, <2>1, <3>1, <3>2, CompleteGoto DEF CompleteLabels
    <3>4. CollectionOK'
      BY <1>0, <1>4, <2>1, <3>1, <3>2
         DEF IInv, FileInv, CollectionOK, ActorInv, ActorTypes, Actors
    <3>5. OwnershipOK'
      BY <1>0, <1>4, <2>1, <3>1, <3>2
         DEF IInv, FileInv, OwnershipOK, ActorInv, ActorTypes, Actors, Row, Before, Unlinked,
             CompleteLabels
    <3>6. ManifestComplete' /\ LinkedHasManifest'
      BY <1>0 DEF IInv, FileInv, ManifestComplete, LinkedHasManifest, Row, Recorded
    <3> QED BY <1>1, <3>3, <3>4, <3>5, <3>6 DEF IInv, FileInv
  <2>2. CASE pc[a] = "unlink"
    <3>1. Goto(a, "unrow") BY <1>4, <2>2, ErrorGoesValues
    <3>2. ActorInv'
      BY <1>4, <2>2, <3>1, ReleaseGoto DEF ReleaseLabels, CancelLabels, SweepLabels
    <3>3. FileInv'
      BY <1>0, <1>4, <3>1, <3>2, OutsideComplete DEF IInv, ActorInv, ActorTypes, CompleteLabels
    <3> QED BY <1>1, <3>2, <3>3 DEF IInv
  <2>3. CASE pc[a] = "deleteRow"
    <3>1. Goto(a, "collect") BY <1>4, <2>3, ErrorGoesValues
    <3>2. a = Collector /\ a \notin Workers
      BY <2>3, ActorsAssumption
         DEF IInv, ActorInv, ControlOK, Actors, UploadLabels, CompleteLabels, CancelLabels,
             SweepLabels
    <3>3. ActorTypes' BY <1>4, <3>1 DEF IInv, ActorInv, ActorTypes, Labels
    <3>4. ControlOK'
      BY <3>1, <3>2, ActorsAssumption
         DEF IInv, ActorInv, ActorTypes, ControlOK, Actors, CollectLabels
    <3>5. LocalsOK'
      BY <1>4, <3>1, <3>2, ActorsAssumption
         DEF IInv, ActorInv, ActorTypes, LocalsOK, Actors, HashLabels, Recorded
    <3>6. ActorInv' BY <3>3, <3>4, <3>5 DEF ActorInv
    <3>7. FileInv'
      BY <1>0, <1>4, <3>1, <3>2, <3>6, OutsideComplete DEF IInv, ActorInv, ActorTypes
    <3> QED BY <1>1, <3>6, <3>7 DEF IInv
  <2> QED BY <1>4, <2>1, <2>2, <2>3, ErrorGoesValues
<1>5. CASE a = Collector /\ CollectFileFails
  <2> USE <1>5 DEF CollectFileFails
  <2>a. a \notin Workers BY ActorsAssumption
  <2>0. PICK f \in batch[a] :
          /\ batch' = [batch EXCEPT ![a] = @ \ {f}]
          /\ req' = [req EXCEPT ![a] = Works(NoSession, 0, NoBody, f)]
    OBVIOUS
  <2>b. f \in FileIds BY DEF IInv, ActorInv, LocalsOK
  <2>2. ActorTypes'
    BY <2>0, <2>b, LocalValues DEF IInv, ActorInv, ActorTypes, Labels, Works
  <2>3. ControlOK'
    BY <2>a, ActorsAssumption
       DEF IInv, ActorInv, ActorTypes, ControlOK, Actors, CollectLabels
  <2>4. LocalsOK'
    BY <2>0, <2>a, ActorsAssumption
       DEF IInv, ActorInv, ActorTypes, LocalsOK, Actors, HashLabels, Recorded
  <2>5. ActorInv' BY <2>2, <2>3, <2>4 DEF ActorInv
  <2>6. FileInv'
    BY <1>0, <2>0, <2>a, <2>5, OutsideComplete DEF IInv, ActorInv, ActorTypes
  <2> QED BY <1>1, <2>5, <2>6 DEF IInv
<1> QED BY <1>2, <1>3, <1>4, <1>5 DEF Fail
-----------------------------------------------------------------------------
(* Every step of every actor keeps the invariant.                           *)

LEMMA NextKeeps == IInv /\ [Next]_vars => IInv'
<1> SUFFICES ASSUME IInv, [Next]_vars PROVE IInv' OBVIOUS
<1>a. Janitor \in Actors /\ Collector \in Actors /\ Workers \subseteq Actors BY DEF Actors
<1>1. CASE UNCHANGED vars
  <2> USE <1>1 DEF vars
  <2>1. SharedTypes' BY DEF IInv, SharedTypes
  <2>2. ActorInv' BY ActorsStay DEF IInv, ActorInv, ActorTypes, locals
  <2>3. FileInv' BY <2>2, FilesKept DEF dbVars
  <2> QED BY <2>1, <2>2, <2>3 DEF IInv
<1>2. CASE \E s \in Sessions : CreateUpload(s) \/ Expire(s)
  BY <1>2, SessionsKeep
<1>3. CASE \E f \in FileIds : SoftDelete(f) \/ Restore(f) \/ DeletePermanent(f)
  BY <1>3, RowsKeep
<1>4. CASE \E w \in Workers : Request(w) \/ StepWorker(w)
  <2>1. PICK w \in Workers : Request(w) \/ StepWorker(w) BY <1>4
  <2>2. CASE Request(w)
    BY <2>2, StartCancelKeeps, StartCompleteKeeps, StartUploadKeeps DEF Request
  <2>3. CASE StepWorker(w)
    BY <1>a, <2>3, StepUploadKeeps, StepCompleteKeeps, StepCancelKeeps, StepReleaseKeeps
       DEF StepWorker
  <2> QED BY <2>1, <2>2, <2>3
<1>5. CASE StartSweep \/ StepJanitor
  BY <1>a, <1>5, SweepKeeps, DropKeeps, StepReleaseKeeps DEF StepJanitor
<1>6. CASE StartCollect \/ StepCollector
  BY <1>a, <1>6, CollectKeeps, DropKeeps, StepReleaseKeeps DEF StepCollector
<1>7. CASE \E a \in Actors : Disconnect(a) \/ Fail(a)
  BY <1>7, DisconnectKeeps, FailKeeps
<1>8. CASE Crash
  BY <1>8, CrashKeeps
<1> QED BY <1>1, <1>2, <1>3, <1>4, <1>5, <1>6, <1>7, <1>8 DEF Next

(* The strengthened invariant holds in every reachable state.                *)
THEOREM Invariance == Spec => []IInv
BY InitInv, NextKeeps, PTL DEF Spec

(* Type correctness of the upload service: tables, sessions and the locals   *)
(* of every handler stay within their types, for any number of concurrent   *)
(* requests, jobs and failures.                                             *)
THEOREM TypeCorrect == Spec => []TypeOK
<1>1. IInv => TypeOK BY Types DEF IInv, ActorInv
<1> QED BY <1>1, Invariance, PTL

(* completeUpload stores no truncated file, although it reads the session    *)
(* twice without holding its locks in between.                              *)
THEOREM ManifestsComplete == Spec => []ManifestComplete
<1>1. IInv => ManifestComplete BY DEF IInv, FileInv
<1> QED BY <1>1, Invariance, PTL

(* files.manifest_id never dangles, whatever fails and however often.        *)
THEOREM ManifestIdsValid == Spec => []LinkedHasManifest
<1>1. IInv => LinkedHasManifest BY DEF IInv, FileInv
<1> QED BY <1>1, Invariance, PTL
-----------------------------------------------------------------------------
(* Content is fixed once linked.                                            *)

(* The action of ContentStable.                                             *)
KeepsContent ==
  \A f \in FileIds : HasContent(f) /\ Row(f)' => manifests'[f] = manifests[f] /\ linked'[f]

LEMMA SameTables ==
  ASSUME UNCHANGED <<linked, manifests>>
  PROVE  KeepsContent
BY DEF KeepsContent, HasContent

LEMMA RowDeletedKeepsContent ==
  ASSUME SharedTypes, NEW f, RowDeleted(f), UNCHANGED linked
  PROVE  KeepsContent
<1> SUFFICES ASSUME NEW g \in FileIds, HasContent(g), Row(g)' PROVE manifests'[g] = manifests[g] /\ linked'[g]
  BY DEF KeepsContent
<1>1. CASE g = f /\ Row(f)
  BY <1>1 DEF RowDeleted, SharedTypes, Row
<1>2. CASE ~(g = f /\ Row(f))
  BY <1>2 DEF RowDeleted, SharedTypes, HasContent
<1> QED BY <1>1, <1>2

LEMMA NextKeepsContent ==
  ASSUME IInv, Next
  PROVE  KeepsContent
<1> USE DEF dbVars
<1>1. CASE \E s \in Sessions : CreateUpload(s) \/ Expire(s)
  BY <1>1, SameTables DEF CreateUpload, Expire
<1>2. CASE \E f \in FileIds : SoftDelete(f) \/ Restore(f) \/ DeletePermanent(f)
  BY <1>2, SameTables, RowDeletedKeepsContent DEF SoftDelete, Restore, DeletePermanent, IInv
<1>3. CASE \E w \in Workers : Request(w)
  BY <1>3, SameTables DEF Request, StartCancel, StartComplete, StartUpload
<1>4. CASE \E w \in Workers : StepWorker(w)
  <2>1. PICK w \in Workers : StepWorker(w) BY <1>4
  <2>2. CASE StepUpload(w)
    BY <2>2, SameTables
       DEF StepUpload, ChunkExists, IncrementRefCount, Put, CreateChunk, RecordChunk
  <2>3. CASE StepCancel(w)
    BY <2>3, SameTables DEF StepCancel, RemoveSession, ReadChunk, DecrementRefCount
  <2>4. CASE StepRelease(w)
    BY <2>4, SameTables DEF StepRelease, BeginIndex, EndLoop, Unlink, DeleteChunk
  <2>5. CASE StepComplete(w)
    <3>0. pc[w] \in Unlinked => req[w].file \in FileIds /\ ~linked[req[w].file]
      BY DEF IInv, ActorInv, LocalsOK, FileInv, OwnershipOK, CompleteLabels, Unlinked
    <3>1. CASE InsertManifest(w) \/ UndoManifest(w)
      <4>1. ~linked[req[w].file] /\ linked' = linked
        BY <3>0, <3>1 DEF InsertManifest, UndoManifest, Query, Unlinked
      <4>2. \A g \in FileIds \ {req[w].file} : manifests'[g] = manifests[g]
        BY <3>1 DEF InsertManifest, UndoManifest, IInv, SharedTypes
      <4> QED BY <4>1, <4>2 DEF KeepsContent, HasContent
    <3>2. CASE LinkManifest(w)
      BY <3>2 DEF LinkManifest, KeepsContent, HasContent, IInv, SharedTypes
    <3>3. CASE StatPath(w) \/ InsertFile(w) \/ ForgetSession(w) \/ UndoFile(w)
      BY <3>3, SameTables DEF StatPath, InsertFile, ForgetSession, UndoFile
    <3> QED BY <2>5, <3>1, <3>2, <3>3 DEF StepComplete
  <2> QED BY <2>1, <2>2, <2>3, <2>4, <2>5 DEF StepWorker
<1>5. CASE StartSweep \/ StepJanitor
  BY <1>5, SameTables
     DEF StartSweep, StepJanitor, SweepSession, EndSweep, Drop, Reread, StepRelease, BeginIndex,
         EndLoop, Unlink, DeleteChunk
<1>6. CASE StartCollect \/ StepCollector
  <2>1. CASE DeleteFileRow
    BY <2>1, RowDeletedKeepsContent DEF DeleteFileRow, IInv
  <2>2. CASE ~DeleteFileRow
    BY <1>6, <2>2, SameTables
       DEF StartCollect, StepCollector, CollectFile, EndCollect, Drop, Reread, StepRelease,
           BeginIndex, EndLoop, Unlink, DeleteChunk
  <2> QED BY <2>1, <2>2
<1>7. CASE \E a \in Actors : Disconnect(a) \/ Fail(a)
  BY <1>7, SameTables DEF Disconnect, Fail
<1>8. CASE Crash
  BY <1>8, SameTables DEF Crash
<1> QED BY <1>1, <1>2, <1>3, <1>4, <1>5, <1>6, <1>7, <1>8 DEF Next

(* The content of a file does not change while its row exists: the rollback  *)
(* of one completion never touches the manifest another one has linked.     *)
THEOREM ContentIsStable == Spec => ContentStable
<1>1. IInv /\ [Next]_vars => [KeepsContent]_vars BY NextKeepsContent
<1> QED BY <1>1, Invariance, PTL DEF Spec, ContentStable, KeepsContent
-----------------------------------------------------------------------------
(* Without failures, a completion always reaches the end of its work on a    *)
(* row: it is about to link it, or the row is gone.                         *)

Midway == {"insertManifest", "link", "undoManifest", "undoFile"}

(* An existing row without a manifest id is on its way to one.               *)
RowsOwned ==
  \A f \in FileIds : Row(f) /\ ~linked[f] =>
     \E w \in Workers : req[w].file = f /\ pc[w] \in {"insertManifest", "link"}

(* The rollback is entered only when the row is already gone.                *)
UndoneGone ==
  \A w \in Workers : pc[w] \in {"undoManifest", "undoFile"} => ~Row(req[w].file)

Calm == cut = {} /\ RowsOwned /\ UndoneGone

(* Steps that move no worker midway and bring no row into being.             *)
LEMMA CalmKept ==
  ASSUME Calm, cut' = {}, UNCHANGED linked, \A f \in FileIds : Row(f)' => Row(f),
         NEW a \in Actors, IInv,
         a \in Workers => pc[a] \notin Midway /\ pc'[a] \notin Midway,
         \A b \in Actors \ {a} : pc'[b] = pc[b] /\ req'[b] = req[b]
  PROVE  Calm'
<1>1. \A w \in Workers : pc[w] \in Midway \/ pc'[w] \in Midway => pc'[w] = pc[w] /\ req'[w] = req[w]
  BY DEF Actors
<1>2. RowsOwned' BY <1>1 DEF Calm, RowsOwned, Midway
<1>3. UndoneGone'
  BY <1>1 DEF Calm, UndoneGone, Midway, IInv, ActorInv, LocalsOK, CompleteLabels
<1> QED BY <1>2, <1>3 DEF Calm

LEMMA CalmComplete ==
  ASSUME IInv, Calm, NEW w \in Workers, StepComplete(w)
  PROVE  Calm'
<1> USE DEF Goto, Query, At, dbVars, locals
<1>a. w \in Actors BY DEF Actors
<1>b. pc[w] \in CompleteLabels => req[w].file \in FileIds
  BY DEF IInv, ActorInv, LocalsOK
<1>c. \A v \in Workers \ {w} : req[w].file \in FileIds => req[v].file # req[w].file
  BY LocalValues DEF IInv, FileInv, OwnershipOK
<1> DEFINE f == req[w].file
<1>1. CASE StatPath(w) \/ ForgetSession(w)
  BY <1>a, <1>1, CalmKept
     DEF StatPath, ForgetSession, Finish, Midway, IInv, ActorInv, ActorTypes, Calm, Row
<1>2. CASE InsertFile(w)
  <2>1. CASE Finish(w) /\ UNCHANGED <<status, linked>>
    BY <1>a, <1>2, <2>1, CalmKept
       DEF InsertFile, Finish, Midway, IInv, ActorInv, ActorTypes, Calm, Row
  <2>2. CASE /\ status' = [status EXCEPT ![f] = "live"]
             /\ Goto(w, "insertManifest")
             /\ UNCHANGED <<req, cut, linked>>
    <3>0. f \in FileIds BY <1>b, <1>2 DEF InsertFile, CompleteLabels
    <3>1. RowsOwned'
      <4> SUFFICES ASSUME NEW g \in FileIds, Row(g)', ~linked[g]
                   PROVE  \E v \in Workers : req[v].file = g /\ pc'[v] \in {"insertManifest", "link"}
        BY <2>2 DEF RowsOwned
      <4>1. CASE g = f
        BY <1>a, <2>2, <4>1 DEF IInv, ActorInv, ActorTypes
      <4>2. CASE g # f
        <5>1. Row(g) BY <2>2, <4>2 DEF Row, IInv, SharedTypes
        <5>2. PICK v \in Workers : req[v].file = g /\ pc[v] \in {"insertManifest", "link"}
          BY <5>1 DEF Calm, RowsOwned
        <5>3. v # w BY <4>2, <5>2
        <5> QED BY <2>2, <5>2, <5>3 DEF IInv, ActorInv, ActorTypes, Actors
      <4> QED BY <4>1, <4>2
    <3>2. UndoneGone'
      <4> SUFFICES ASSUME NEW v \in Workers, pc'[v] \in {"undoManifest", "undoFile"}
                   PROVE  ~Row(req[v].file)'
        BY <2>2 DEF UndoneGone
      <4>1. v # w /\ pc[v] = pc'[v]
        BY <1>a, <2>2 DEF IInv, ActorInv, ActorTypes, Actors
      <4>2. req[v].file # f /\ req[v].file \in FileIds
        BY <1>c, <3>0, <4>1 DEF IInv, ActorInv, LocalsOK, CompleteLabels
      <4> QED BY <2>2, <4>1, <4>2 DEF Calm, UndoneGone, Row, IInv, SharedTypes
    <3> QED BY <2>2, <3>1, <3>2 DEF Calm
  <2> QED BY <1>2, <2>1, <2>2 DEF InsertFile
<1>3. CASE InsertManifest(w) \/ LinkManifest(w)
  <2>0. f \in FileIds BY <1>b, <1>3 DEF InsertManifest, LinkManifest, CompleteLabels
  <2>1. /\ status' = status /\ req' = req /\ cut' = cut
        /\ \A g \in FileIds : linked[g] => linked'[g]
        /\ \A v \in Workers \ {w} : pc'[v] = pc[v]
    BY <1>3, <1>a DEF InsertManifest, LinkManifest, IInv, ActorInv, ActorTypes, SharedTypes, Actors
  <2>2. CASE Row(f)
    <3>1. \/ pc'[w] = "link"
          \/ pc'[w] = "forget" /\ linked'[f]
      BY <1>a, <1>3, <2>0, <2>2
         DEF InsertManifest, LinkManifest, IInv, ActorInv, ActorTypes, SharedTypes
    <3>2. RowsOwned'
      <4> SUFFICES ASSUME NEW g \in FileIds, Row(g), ~linked'[g]
                   PROVE  \E v \in Workers : req[v].file = g /\ pc'[v] \in {"insertManifest", "link"}
        BY <2>1 DEF RowsOwned, Row
      <4>1. PICK v \in Workers : req[v].file = g /\ pc[v] \in {"insertManifest", "link"}
        BY <2>1 DEF Calm, RowsOwned
      <4> QED BY <2>1, <3>1, <4>1
    <3>3. UndoneGone' BY <2>1, <3>1 DEF Calm, UndoneGone, Row
    <3> QED BY <2>1, <3>2, <3>3 DEF Calm
  <2>3. CASE ~Row(f)
    <3>1. RowsOwned' BY <2>1, <2>3 DEF Calm, RowsOwned, Row
    <3>2. UndoneGone' BY <2>1, <2>3 DEF Calm, UndoneGone, Row
    <3> QED BY <2>1, <3>1, <3>2 DEF Calm
  <2> QED BY <2>2, <2>3
<1>4. CASE UndoManifest(w) \/ UndoFile(w)
  <2>0. f \in FileIds /\ ~Row(f) /\ pc[w] \in {"undoManifest", "undoFile"}
    BY <1>b, <1>4 DEF UndoManifest, UndoFile, CompleteLabels, Calm, UndoneGone
  <2>1. /\ status' = status /\ linked' = linked
        /\ \A v \in Workers \ {w} : pc'[v] = pc[v] /\ req'[v] = req[v]
        /\ (pc'[w] = "undoFile" /\ req'[w] = req[w]) \/ pc'[w] = "idle"
        /\ cut' = {}
    BY <1>4, <1>a, <2>0
       DEF UndoManifest, UndoFile, Finish, IInv, ActorInv, ActorTypes, SharedTypes, Actors, Calm
  <2>2. RowsOwned' BY <2>0, <2>1 DEF Calm, RowsOwned, Row
  <2>3. UndoneGone' BY <2>0, <2>1 DEF Calm, UndoneGone, Row
  <2> QED BY <2>1, <2>2, <2>3 DEF Calm
<1> QED BY <1>1, <1>2, <1>3, <1>4 DEF StepComplete

(* The rest of a worker's steps.                                            *)
LEMMA CalmWorker ==
  ASSUME IInv, Calm, NEW w \in Workers, StepUpload(w) \/ StepCancel(w) \/ Request(w)
  PROVE  Calm'
<1> USE DEF Goto, Query, At, Idle, dbVars, locals
<1>a. w \in Actors BY DEF Actors
<1>1. status' = status /\ linked' = linked /\ cut' = {}
  BY DEF StepUpload, ChunkExists, IncrementRefCount, Put, CreateChunk, RecordChunk, NextHash, Finish,
         StepCancel, RemoveSession, ReadChunk, DecrementRefCount, NextRelease,
         Request, StartCancel, StartComplete, StartUpload, Calm
<1>2. \A b \in Actors \ {w} : pc'[b] = pc[b] /\ req'[b] = req[b]
  BY DEF StepUpload, ChunkExists, IncrementRefCount, Put, CreateChunk, RecordChunk, NextHash, Finish,
         StepCancel, RemoveSession, ReadChunk, DecrementRefCount, NextRelease,
         Request, StartCancel, StartComplete, StartUpload, IInv, ActorInv, ActorTypes
<1>3. pc[w] \notin Midway /\ pc'[w] \notin Midway
  <2>1. CASE StepUpload(w)
    BY <1>a, <2>1
       DEF StepUpload, ChunkExists, IncrementRefCount, Put, CreateChunk, RecordChunk, NextHash,
           Finish, Midway, IInv, ActorInv, ActorTypes
  <2>2. CASE StepCancel(w)
    BY <1>a, <2>2
       DEF StepCancel, RemoveSession, ReadChunk, DecrementRefCount, NextRelease, First,
           Midway, IInv, ActorInv, ActorTypes
  <2>3. CASE Request(w)
    BY <1>a, <2>3
       DEF Request, StartCancel, StartComplete, StartUpload, Midway, IInv, ActorInv, ActorTypes
  <2> QED BY <2>1, <2>2, <2>3
<1> QED BY <1>a, <1>1, <1>2, <1>3, CalmKept DEF Row

LEMMA CalmRelease ==
  ASSUME IInv, Calm, NEW a \in Actors, StepRelease(a)
  PROVE  Calm'
<1> USE DEF Goto, Query, At, dbVars, locals
<1> USE DEF StepRelease, BeginIndex, EndLoop, Unlink, DeleteChunk, NextRelease, Finish
<1>1. status' = status /\ linked' = linked /\ cut' = {} BY DEF Calm
<1>2. \A b \in Actors \ {a} : pc'[b] = pc[b] /\ req'[b] = req[b]
  BY DEF IInv, ActorInv, ActorTypes
<1>3. pc[a] \notin Midway /\ pc'[a] \notin Midway
  BY DEF First, Midway, IInv, ActorInv, ActorTypes
<1> QED BY <1>1, <1>2, <1>3, CalmKept DEF Row

LEMMA CalmBackground ==
  ASSUME IInv, Calm, StartSweep \/ StepJanitor \/ StartCollect \/ StepCollector
  PROVE  Calm'
<1> USE DEF Goto, Query, At, dbVars, locals
<1>a. /\ Janitor \in Actors /\ Janitor \notin Workers
      /\ Collector \in Actors /\ Collector \notin Workers
  BY ActorsAssumption DEF Actors
<1>1. CASE StepRelease(Janitor) \/ StepRelease(Collector)
  BY <1>a, <1>1, CalmRelease
<1>2. CASE StartSweep \/ SweepSession \/ EndSweep \/ Drop(Janitor) \/ Reread(Janitor)
  <2> USE <1>2 DEF StartSweep, SweepSession, EndSweep, Drop, Reread, NextRelease, Finish
  <2>1. status' = status /\ linked' = linked /\ cut' = {} BY DEF Calm
  <2>2. \A b \in Actors \ {Janitor} : pc'[b] = pc[b] /\ req'[b] = req[b]
    BY DEF IInv, ActorInv, ActorTypes
  <2> QED BY <1>a, <2>1, <2>2, CalmKept DEF Row
<1>3. CASE StartCollect \/ CollectFile \/ EndCollect \/ Drop(Collector) \/ Reread(Collector)
  <2> USE <1>3 DEF StartCollect, CollectFile, EndCollect, Drop, Reread, NextRelease, Finish
  <2>1. status' = status /\ linked' = linked /\ cut' = {} BY DEF Calm
  <2>2. \A b \in Actors \ {Collector} : pc'[b] = pc[b] /\ req'[b] = req[b]
    BY DEF IInv, ActorInv, ActorTypes
  <2> QED BY <1>a, <2>1, <2>2, CalmKept DEF Row
<1>4. CASE DeleteFileRow
  <2> USE <1>4 DEF DeleteFileRow, RowDeleted
  <2>1. linked' = linked /\ cut' = {} BY DEF Calm
  <2>2. \A g \in FileIds : Row(g)' => Row(g) BY DEF Row, IInv, SharedTypes
  <2>3. \A b \in Actors \ {Collector} : pc'[b] = pc[b] /\ req'[b] = req[b]
    BY DEF IInv, ActorInv, ActorTypes
  <2> QED BY <1>a, <2>1, <2>2, <2>3, CalmKept
<1> QED BY <1>1, <1>2, <1>3, <1>4 DEF StepJanitor, StepCollector

LEMMA CalmRequests ==
  ASSUME IInv, Calm,
         \/ \E s \in Sessions : CreateUpload(s) \/ Expire(s)
         \/ \E f \in FileIds : SoftDelete(f) \/ Restore(f) \/ DeletePermanent(f)
  PROVE  Calm'
<1>1. linked' = linked /\ cut' = {} /\ pc' = pc /\ req' = req
  BY DEF CreateUpload, Expire, SoftDelete, Restore, DeletePermanent, Calm, dbVars, locals
<1>2. \A g \in FileIds : Row(g)' => Row(g)
  BY DEF CreateUpload, Expire, SoftDelete, Restore, DeletePermanent, RowDeleted, Row, dbVars,
         IInv, SharedTypes
<1>3. Janitor \in Actors /\ Janitor \notin Workers BY ActorsAssumption DEF Actors
<1> QED BY <1>1, <1>2, <1>3, CalmKept

(* A failure is counted, and nothing takes it back.                          *)
LEMMA FaultsCounted ==
  ASSUME IInv, Next, faults' = 0
  PROVE  faults = 0 /\ UNCHANGED faults
<1>a. faults \in Nat BY DEF IInv, SharedTypes
<1>1. CASE \/ \E s \in Sessions : CreateUpload(s) \/ Expire(s)
           \/ \E f \in FileIds : SoftDelete(f) \/ Restore(f) \/ DeletePermanent(f)
  BY <1>1 DEF CreateUpload, Expire, SoftDelete, Restore, DeletePermanent
<1>2. ASSUME NEW a \in Actors, StepRelease(a)
      PROVE  UNCHANGED faults
  BY <1>2 DEF StepRelease, BeginIndex, EndLoop, Unlink, DeleteChunk
<1>3. CASE \E w \in Workers : Request(w) \/ StepWorker(w)
  <2>1. PICK w \in Workers : Request(w) \/ StepWorker(w) BY <1>3
  <2>2. CASE Request(w)
    BY <2>2 DEF Request, StartCancel, StartComplete, StartUpload
  <2>3. CASE StepUpload(w)
    BY <2>3 DEF StepUpload, ChunkExists, IncrementRefCount, Put, CreateChunk, RecordChunk
  <2>4. CASE StepComplete(w)
    BY <2>4 DEF StepComplete, StatPath, InsertFile, InsertManifest, LinkManifest,
                ForgetSession, UndoManifest, UndoFile
  <2>5. CASE StepCancel(w)
    BY <2>5 DEF StepCancel, RemoveSession, ReadChunk, DecrementRefCount
  <2>6. CASE StepRelease(w) BY <2>6, <1>2 DEF Actors
  <2> QED BY <2>1, <2>2, <2>3, <2>4, <2>5, <2>6 DEF StepWorker
<1>4. CASE StartSweep \/ StepJanitor \/ StartCollect \/ StepCollector
  BY <1>4, <1>2 DEF StartSweep, StepJanitor, SweepSession, EndSweep, StartCollect,
     StepCollector, CollectFile, DeleteFileRow, EndCollect, Drop, Reread, Actors
<1>5. CASE \/ \E a \in Actors : Disconnect(a) \/ Fail(a)
           \/ Crash
  <2>1. ASSUME NEW a \in Actors, Disconnect(a) \/ Crash PROVE faults' = faults + 1
    BY <2>1 DEF Disconnect, Crash
  <2>2. ASSUME NEW a \in Actors, Fail(a) PROVE faults' = faults \/ faults' = faults + 1
    BY <2>2 DEF Fail
  <2>3. Janitor \in Actors BY DEF Actors
  <2>4. faults' = faults \/ faults' = faults + 1 BY <1>5, <2>1, <2>2, <2>3
  <2> QED BY <1>a, <2>4
<1> QED BY <1>1, <1>3, <1>4, <1>5 DEF Next

LEMMA CalmNext ==
  ASSUME IInv, faults = 0 => Calm, [Next]_vars, faults' = 0
  PROVE  Calm'
<1>a. Workers \subseteq Actors BY DEF Actors
<1>1. CASE UNCHANGED vars
  BY <1>1 DEF vars, Calm, RowsOwned, UndoneGone, Row
<1> SUFFICES ASSUME Next PROVE Calm' BY <1>1
<1>b. faults = 0 /\ UNCHANGED faults BY FaultsCounted
<1>c. Calm BY <1>b
<1>2. CASE \/ \E s \in Sessions : CreateUpload(s) \/ Expire(s)
           \/ \E f \in FileIds : SoftDelete(f) \/ Restore(f) \/ DeletePermanent(f)
  BY <1>2, <1>c, CalmRequests
<1>3. CASE \E w \in Workers : Request(w) \/ StepWorker(w)
  BY <1>3, <1>a, <1>c, CalmWorker, CalmComplete, CalmRelease DEF StepWorker
<1>4. CASE StartSweep \/ StepJanitor \/ StartCollect \/ StepCollector
  BY <1>4, <1>c, CalmBackground
<1>5. CASE \/ \E a \in Actors : Disconnect(a) \/ Fail(a)
           \/ Crash
  <2>1. ASSUME NEW a \in Actors, Disconnect(a) \/ Fail(a) PROVE faults' = faults + 1
    BY <2>1, <1>c DEF Disconnect, Fail, Calm
  <2>2. ASSUME Crash PROVE faults' = faults + 1 BY <2>2 DEF Crash
  <2>3. faults' = faults + 1 BY <1>5, <2>1, <2>2
  <2> QED BY <1>b, <2>3
<1> QED BY <1>2, <1>3, <1>4, <1>5 DEF Next

(* As long as no statement fails, no client disconnects and the process      *)
(* lives, every file a user sees has content or is being completed, under   *)
(* any interleaving of requests, sweeps and collections (completeUpload).   *)
THEOREM NoOrphanFiles == Spec => []NoOrphanFile
<1> DEFINE CalmSoFar == faults = 0 => Calm
<1>1. Init => CalmSoFar
  BY DEF Init, Calm, RowsOwned, UndoneGone, Row, Actors
<1>2. IInv /\ CalmSoFar /\ [Next]_vars => CalmSoFar' BY CalmNext
<1>3. CalmSoFar => NoOrphanFile
  BY DEF Calm, RowsOwned, NoOrphanFile, OrphansOwned, Row
<1> HIDE DEF CalmSoFar
<1> QED BY <1>1, <1>2, <1>3, Invariance, PTL DEF Spec
=============================================================================

------------------------------ MODULE SyncProofs ------------------------------
(***************************************************************************)
(* Proofs about the sync engine, for any devices, commits at a time,       *)
(* paths, chunks and bounds: no modification is lost between commits, a    *)
(* version has one manifest, no chunk is overcounted; and the vector       *)
(* clocks are the order of causality.                                      *)
(***************************************************************************)
EXTENDS SyncEngine, FiniteSetTheorems, SequenceTheorems, TLAPS

Labels == {"idle", "next", "manifest", "link", "refs", "increment", "create", "trash", "device", "tree"}
CommitRec == [pc : Labels, dev : Clients \cup {None}, clock : ReqClocks \cup {NewVectorClock},
              todo : Seq(Change), id : Ids \cup {None}, version : Nat, at : Nat]
ManRec == [file : Ids, version : Nat \ {0}, chunks : Seq(Chunks)]

SyncTypes ==
  /\ rows \in [Ids -> Row \cup {None}]
  /\ mans \subseteq ManRec
  /\ count \in [Chunks -> Nat] /\ blobs \subseteq Chunks
  /\ device \in [Clients -> ReqClocks \cup {NewVectorClock, None}]
  /\ commit \in [Slots -> CommitRec]

(* File i has a manifest of version v.                                       *)
Has(i, v) == \E m \in mans : m.file = i /\ m.version = v

OneManifest == \A m, n \in mans : m.file = n.file /\ m.version = n.version => m = n

(* Ids are given out in order.                                               *)
RowsFilled == \E n \in 0 .. MaxIds : \A i \in Ids : rows[i] # None <=> i <= n

(* A row refers to manifests that are there.                                 *)
RowsOK ==
  \A i \in Ids : rows[i] # None =>
    /\ rows[i].version = 1 \/ Has(i, rows[i].version)
    /\ rows[i].link # 0 => Has(i, rows[i].link)

(* From version 2 on, the versions of a file have no gap.                    *)
Dense == \A i \in Ids : \A u, v \in Nat : 2 <= u /\ u <= v /\ Has(i, v) => Has(i, u)

(* What a commit has at its next statement.                                  *)
Working == {"next", "manifest", "link", "refs", "increment", "create", "trash"}
CommitOK(s) ==
  /\ commit[s].pc \in Working => commit[s].todo # <<>>
  /\ commit[s].pc \in {"manifest", "link", "trash"} => commit[s].id \in Ids /\ rows[commit[s].id] # None
  /\ commit[s].pc \in {"manifest", "link"} =>
       commit[s].version # 0 /\ (Head1(s).action = "modify" => commit[s].version # 1)
  /\ IF commit[s].pc \in {"refs", "increment", "create"} THEN commit[s].at \in DOMAIN Head1(s).chunks
     ELSE commit[s].at = 0

CommitsOK == \A s \in Slots : CommitOK(s)

(* A commit between its manifest and its link made the latest manifest of    *)
(* the file, no other commit is there with the same version, and the row     *)
(* still has the version before.                                             *)
Linking(s, i, v) == commit[s].pc = "link" /\ commit[s].id = i /\ commit[s].version = v

LinkerOK(s, i, v) ==
  /\ Has(i, v)
  /\ \A t \in Slots : Linking(t, i, v) => t = s
  /\ v # 1 => ~Has(i, v + 1) /\ rows[i].version \in {v - 1, 1}

LinkersOK ==
  \A s \in Slots : commit[s].pc = "link" => LinkerOK(s, commit[s].id, commit[s].version)

(* A commit that has read version v - 1: the manifest of that one is linked; *)
(* and as long as there is none of version v the row has not moved on.       *)
ReaderOK(i, v) ==
  /\ v = 2 \/ (Has(i, v - 1) /\ \A t \in Slots : ~Linking(t, i, v - 1))
  /\ rows[i].version \in {v - 1, 1} \/ Has(i, v)

ReadersOK ==
  \A s \in Slots : commit[s].pc = "manifest" /\ commit[s].version # 1
                   => ReaderOK(commit[s].id, commit[s].version)

(* Where chunk c is in a list, and the places in the lists of the commits    *)
(* that have made their manifest and not yet counted it there.               *)
Where(q, c) == {j \in DOMAIN q : q[j] = c}
Counting == {"link", "refs", "increment", "create"}
Uncounted(c) ==
  {p \in Slots \X Nat : /\ commit[p[1]].pc \in Counting
                        /\ p[2] \in Where(Head1(p[1]).chunks, c) /\ p[2] >= commit[p[1]].at}

Counted ==
  \A c \in Chunks :
    /\ IsFiniteSet(Uncounted(c)) /\ IsFiniteSet(Places(c))
    /\ count[c] + Cardinality(Uncounted(c)) <= Cardinality(Places(c))

SyncIInv ==
  /\ SyncTypes /\ OneManifest /\ RowsFilled /\ RowsOK /\ Dense /\ CommitsOK
  /\ LinkersOK /\ ReadersOK /\ Counted

-----------------------------------------------------------------------------
(* Vector clocks.                                                           *)

LEMMA GetFacts ==
  ASSUME NEW v \in Clocks(Nat)
  PROVE  /\ DOMAIN v \subseteq Devices
         /\ \A d \in DOMAIN v : v[d] \in Nat /\ Get(v, d) = v[d]
         /\ \A d : d \notin DOMAIN v => Get(v, d) = 0
         /\ \A d : Get(v, d) \in Nat
BY DEF Clocks, Get

(* A clock has seen less than another at some device exactly if one of the   *)
(* two loops of Compare finds that device.                                   *)
LEMMA NotSeen ==
  ASSUME NEW v \in Clocks(Nat), NEW w \in Clocks(Nat)
  PROVE  /\ ~Seen(v, w) <=> \E d \in DOMAIN v : v[d] > Get(w, d)
         /\ ~Seen(w, v) <=> \/ \E d \in DOMAIN v : v[d] < Get(w, d)
                            \/ \E d \in DOMAIN w \ DOMAIN v : w[d] > 0
<1>1. /\ DOMAIN v \subseteq Devices
      /\ \A d \in DOMAIN v : v[d] \in Nat /\ Get(v, d) = v[d]
      /\ \A d : d \notin DOMAIN v => Get(v, d) = 0
      /\ \A d : Get(v, d) \in Nat
  BY GetFacts
<1>2. /\ DOMAIN w \subseteq Devices
      /\ \A d \in DOMAIN w : w[d] \in Nat /\ Get(w, d) = w[d]
      /\ \A d : d \notin DOMAIN w => Get(w, d) = 0
      /\ \A d : Get(w, d) \in Nat
  BY GetFacts
<1>3. ~Seen(v, w) => \E d \in DOMAIN v : v[d] > Get(w, d)
  <2>1. SUFFICES ASSUME NEW d \in Devices, ~(Get(v, d) <= Get(w, d))
                 PROVE  \E e \in DOMAIN v : v[e] > Get(w, e)
    BY DEF Seen
  <2>2. d \in DOMAIN v BY <1>1, <1>2, <2>1
  <2> QED BY <1>1, <1>2, <2>1, <2>2
<1>4. (\E d \in DOMAIN v : v[d] > Get(w, d)) => ~Seen(v, w)
  <2>1. SUFFICES ASSUME NEW d \in DOMAIN v, v[d] > Get(w, d) PROVE ~Seen(v, w) OBVIOUS
  <2>2. d \in Devices /\ ~(Get(v, d) <= Get(w, d)) BY <1>1, <1>2, <2>1
  <2> QED BY <2>2 DEF Seen
<1>5. ~Seen(w, v) => \/ \E d \in DOMAIN v : v[d] < Get(w, d)
                     \/ \E d \in DOMAIN w \ DOMAIN v : w[d] > 0
  <2>1. SUFFICES ASSUME NEW d \in Devices, ~(Get(w, d) <= Get(v, d))
                 PROVE  \/ \E e \in DOMAIN v : v[e] < Get(w, e)
                        \/ \E e \in DOMAIN w \ DOMAIN v : w[e] > 0
    BY DEF Seen
  <2>2. CASE d \in DOMAIN v BY <1>1, <1>2, <2>1, <2>2
  <2>3. CASE d \notin DOMAIN v BY <1>1, <1>2, <2>1, <2>3
  <2> QED BY <2>2, <2>3
<1>6. (\/ \E d \in DOMAIN v : v[d] < Get(w, d)
       \/ \E d \in DOMAIN w \ DOMAIN v : w[d] > 0) => ~Seen(w, v)
  <2>1. ASSUME NEW d \in DOMAIN v, v[d] < Get(w, d) PROVE ~Seen(w, v)
    <3>1. d \in Devices /\ ~(Get(w, d) <= Get(v, d)) BY <1>1, <1>2, <2>1
    <3> QED BY <3>1 DEF Seen
  <2>2. ASSUME NEW d \in DOMAIN w \ DOMAIN v, w[d] > 0 PROVE ~Seen(w, v)
    <3>1. d \in Devices /\ ~(Get(w, d) <= Get(v, d)) BY <1>1, <1>2, <2>2
    <3> QED BY <3>1 DEF Seen
  <2> QED BY <2>1, <2>2
<1> QED BY <1>3, <1>4, <1>5, <1>6

(* Compare answers the causal order of any two clocks, whatever devices they *)
(* have entries for: the two loops of VectorClock.Compare miss no device.    *)
THEOREM CompareIsCausality ==
  ASSUME NEW v \in Clocks(Nat), NEW w \in Clocks(Nat)
  PROVE  Compare(v, w) = Causality(v, w)
<1>1. /\ ~Seen(v, w) <=> \E d \in DOMAIN v : v[d] > Get(w, d)
      /\ ~Seen(w, v) <=> \/ \E d \in DOMAIN v : v[d] < Get(w, d)
                         \/ \E d \in DOMAIN w \ DOMAIN v : w[d] > 0
  BY NotSeen
<1>2. CASE Seen(v, w) /\ Seen(w, v)
  <2>1. Compare(v, w) = "Equal" BY <1>1, <1>2 DEF Compare
  <2> QED BY <1>2, <2>1 DEF Causality
<1>3. CASE Seen(v, w) /\ ~Seen(w, v)
  <2>1. Compare(v, w) = "Before" BY <1>1, <1>3 DEF Compare
  <2> QED BY <1>3, <2>1 DEF Causality
<1>4. CASE ~Seen(v, w) /\ Seen(w, v)
  <2>1. Compare(v, w) = "After" BY <1>1, <1>4 DEF Compare
  <2> QED BY <1>4, <2>1 DEF Causality
<1>5. CASE ~Seen(v, w) /\ ~Seen(w, v)
  <2>1. Compare(v, w) = "Concurrent" BY <1>1, <1>5 DEF Compare
  <2> QED BY <1>5, <2>1 DEF Causality
<1> QED BY <1>2, <1>3, <1>4, <1>5

(* Merge is the least upper bound of two clocks: it has seen what both have, *)
(* and nothing that a clock that has seen both has not.                      *)
THEOREM MergeIsLeast ==
  ASSUME NEW v \in Clocks(Nat), NEW w \in Clocks(Nat)
  PROVE  /\ Merge(v, w) \in Clocks(Nat)
         /\ Seen(v, Merge(v, w)) /\ Seen(w, Merge(v, w))
         /\ \A u \in Clocks(Nat) : Seen(v, u) /\ Seen(w, u) => Seen(Merge(v, w), u)
<1> DEFINE m == Merge(v, w)
<1>1. /\ DOMAIN v \subseteq Devices
      /\ \A d \in DOMAIN v : v[d] \in Nat /\ Get(v, d) = v[d]
      /\ \A d : d \notin DOMAIN v => Get(v, d) = 0
      /\ \A d : Get(v, d) \in Nat
  BY GetFacts
<1>2. /\ DOMAIN w \subseteq Devices
      /\ \A d \in DOMAIN w : w[d] \in Nat /\ Get(w, d) = w[d]
      /\ \A d : d \notin DOMAIN w => Get(w, d) = 0
      /\ \A d : Get(w, d) \in Nat
  BY GetFacts
<1>3. /\ DOMAIN m = DOMAIN v \cup {e \in DOMAIN w : w[e] > 0}
      /\ \A d \in DOMAIN m : m[d] = IF Get(w, d) > Get(v, d) THEN w[d] ELSE Get(v, d)
  BY DEF Merge
<1>4. m = [d \in DOMAIN m |-> m[d]] BY <1>3 DEF Merge
<1>5. DOMAIN m \subseteq Devices BY <1>1, <1>2, <1>3
<1>6. \A d \in DOMAIN m : m[d] = IF Get(w, d) > Get(v, d) THEN Get(w, d) ELSE Get(v, d)
  <2>1. \A d \in DOMAIN m : Get(w, d) > Get(v, d) => d \in DOMAIN w BY <1>1, <1>2
  <2> QED BY <1>2, <1>3, <2>1
<1>7. \A d \in DOMAIN m : m[d] \in Nat BY <1>1, <1>2, <1>6
<1>8. m \in Clocks(Nat)
  <2>1. m \in [DOMAIN m -> Nat] BY <1>4, <1>7
  <2> QED BY <1>5, <2>1 DEF Clocks
<1>9. /\ \A d \in DOMAIN m : Get(m, d) = m[d]
      /\ \A d : d \notin DOMAIN m => Get(m, d) = 0
  BY <1>8, GetFacts
<1>10. \A d \in Devices : Get(m, d) = IF Get(w, d) > Get(v, d) THEN Get(w, d) ELSE Get(v, d)
  <2>1. SUFFICES ASSUME NEW d \in Devices
                 PROVE  Get(m, d) = IF Get(w, d) > Get(v, d) THEN Get(w, d) ELSE Get(v, d)
    OBVIOUS
  <2>2. CASE d \in DOMAIN m BY <1>6, <1>9, <2>2
  <2>3. CASE d \notin DOMAIN m
    <3>1. Get(m, d) = 0 BY <1>9, <2>3
    <3>2. Get(v, d) = 0 BY <1>1, <1>3, <2>3
    <3>3. Get(w, d) = 0 BY <1>2, <1>3, <2>3
    <3> QED BY <3>1, <3>2, <3>3
  <2> QED BY <2>2, <2>3
<1> HIDE DEF m
<1>11. Seen(v, m) /\ Seen(w, m) BY <1>1, <1>2, <1>10 DEF Seen
<1>12. ASSUME NEW u \in Clocks(Nat), Seen(v, u), Seen(w, u) PROVE Seen(m, u)
  BY <1>1, <1>2, <1>10, <1>12 DEF Seen
<1> QED BY <1>8, <1>11, <1>12 DEF m

-----------------------------------------------------------------------------
(* Steps of a commit.                                                       *)

LEMMA CommitFields ==
  ASSUME SyncTypes, NEW s \in Slots
  PROVE  /\ commit[s] \in CommitRec /\ commit[s].pc \in Labels
         /\ commit[s].todo \in Seq(Change) /\ commit[s].version \in Nat
         /\ commit[s].id \in Ids \cup {None} /\ commit[s].at \in Nat
         /\ commit[s].todo # <<>> => /\ Head1(s) \in Change /\ Head1(s).chunks \in Seq(Chunks)
                                     /\ Head1(s).path \in Paths
<1>1. commit[s] \in CommitRec BY DEF SyncTypes
<1>2. /\ commit[s].pc \in Labels /\ commit[s].todo \in Seq(Change) /\ commit[s].version \in Nat
      /\ commit[s].id \in Ids \cup {None} /\ commit[s].at \in Nat
  BY <1>1 DEF CommitRec
<1>3. commit[s].todo # <<>> => Head1(s) \in Change BY <1>2 DEF Head1
<1> QED BY <1>1, <1>2, <1>3 DEF Change

(* Only the commit of s moves.                                               *)
Moved(s) == commit' \in [Slots -> CommitRec] /\ \A t \in Slots \ {s} : commit'[t] = commit[t]

LEMMA AdvanceEffect ==
  ASSUME SyncTypes, NEW s \in Slots, commit[s].todo # <<>>, Advance(s)
  PROVE  /\ Moved(s) /\ commit'[s].pc \in {"next", "device"} /\ commit'[s].at = 0
         /\ commit'[s].pc = "next" => commit'[s].todo # <<>>
<1> DEFINE c == commit[s]
           d == [c EXCEPT !.todo = Tail(@), !.id = None, !.version = 0, !.at = 0,
                          !.pc = IF Len(c.todo) = 1 THEN "device" ELSE "next"]
<1>1. commit \in [Slots -> CommitRec] BY DEF SyncTypes
<1>2. c \in CommitRec /\ c.todo \in Seq(Change) BY CommitFields
<1>3. Tail(c.todo) \in Seq(Change) /\ (Len(c.todo) # 1 => Tail(c.todo) # <<>>)
  <2>1. c.todo # <<>> OBVIOUS
  <2> HIDE DEF c
  <2>2. Len(c.todo) \in Nat /\ Len(c.todo) # 0 BY <1>2, <2>1, EmptySeq
  <2>3. Tail(c.todo) \in Seq(Change) /\ Len(Tail(c.todo)) = Len(c.todo) - 1 BY <1>2, <2>1, HeadTailProperties
  <2>4. Tail(c.todo) = <<>> => Len(Tail(c.todo)) = 0 BY <2>3, EmptySeq
  <2> QED BY <2>2, <2>3, <2>4
<1>4. commit' = [commit EXCEPT ![s] = d] BY <1>1 DEF Advance
<1>5. /\ d.pc = IF Len(c.todo) = 1 THEN "device" ELSE "next"
      /\ d.todo = Tail(c.todo) /\ d.at = 0
  BY <1>2 DEF CommitRec
<1>6. d \in CommitRec BY <1>2, <1>3 DEF CommitRec, Labels
<1> HIDE DEF d
<1>7. commit'[s] = d /\ \A t \in Slots \ {s} : commit'[t] = commit[t] BY <1>1, <1>4
<1>8. commit' \in [Slots -> CommitRec] BY <1>1, <1>4, <1>6
<1> QED BY <1>3, <1>5, <1>7, <1>8 DEF Moved

(* Another statement of the same change.                                     *)
LEMMA PcEffect ==
  ASSUME SyncTypes, NEW s \in Slots, NEW pc \in Labels, commit' = [commit EXCEPT ![s].pc = pc]
  PROVE  /\ Moved(s) /\ commit'[s].pc = pc /\ commit'[s].todo = commit[s].todo
         /\ commit'[s].id = commit[s].id /\ commit'[s].version = commit[s].version
         /\ commit'[s].at = commit[s].at
<1> DEFINE d == [commit[s] EXCEPT !.pc = pc]
<1>1. commit \in [Slots -> CommitRec] BY DEF SyncTypes
<1>2. commit[s] \in CommitRec BY <1>1
<1>3. /\ d \in CommitRec /\ d.pc = pc /\ d.todo = commit[s].todo /\ d.id = commit[s].id
      /\ d.version = commit[s].version /\ d.at = commit[s].at
  BY <1>2 DEF CommitRec
<1> HIDE DEF d
<1>4. commit' = [commit EXCEPT ![s] = d] BY <1>1 DEF d
<1>5. commit'[s] = d /\ \A t \in Slots \ {s} : commit'[t] = commit[t] BY <1>1, <1>4
<1>6. commit' \in [Slots -> CommitRec] BY <1>1, <1>3, <1>4
<1> QED BY <1>3, <1>5, <1>6 DEF Moved

(* Another hash of the same change.                                          *)
LEMMA HashEffect ==
  ASSUME SyncTypes, NEW s \in Slots, NEW n \in Nat, commit' = [commit EXCEPT ![s].pc = "refs", ![s].at = n]
  PROVE  Moved(s) /\ commit'[s].pc = "refs" /\ commit'[s].todo = commit[s].todo /\ commit'[s].at = n
<1> DEFINE d == [commit[s] EXCEPT !.pc = "refs", !.at = n]
<1>1. commit \in [Slots -> CommitRec] BY DEF SyncTypes
<1>2. commit[s] \in CommitRec BY <1>1
<1>3. d \in CommitRec /\ d.pc = "refs" /\ d.todo = commit[s].todo /\ d.at = n
  BY <1>2 DEF CommitRec, Labels
<1> HIDE DEF d
<1>4. commit' = [commit EXCEPT ![s] = d] BY <1>1 DEF d
<1>5. commit'[s] = d /\ \A t \in Slots \ {s} : commit'[t] = commit[t] BY <1>1, <1>4
<1>6. commit' \in [Slots -> CommitRec] BY <1>1, <1>3, <1>4
<1> QED BY <1>3, <1>5, <1>6 DEF Moved

Enters(s, i, v) == commit' = [commit EXCEPT ![s].pc = "manifest", ![s].id = i, ![s].version = v]

LEMMA EntryEffect ==
  ASSUME SyncTypes, NEW s \in Slots, NEW i \in Ids, NEW v \in Nat, Enters(s, i, v)
  PROVE  /\ Moved(s) /\ commit'[s].pc = "manifest" /\ commit'[s].todo = commit[s].todo
         /\ commit'[s].id = i /\ commit'[s].version = v /\ commit'[s].at = commit[s].at
<1> DEFINE d == [commit[s] EXCEPT !.pc = "manifest", !.id = i, !.version = v]
<1>1. commit \in [Slots -> CommitRec] BY DEF SyncTypes
<1>2. commit[s] \in CommitRec BY <1>1
<1>3. /\ d \in CommitRec /\ d.pc = "manifest" /\ d.todo = commit[s].todo /\ d.id = i /\ d.version = v
      /\ d.at = commit[s].at
  BY <1>2 DEF CommitRec, Labels
<1> HIDE DEF d
<1>4. commit' = [commit EXCEPT ![s] = d] BY <1>1 DEF d, Enters
<1>5. commit'[s] = d /\ \A t \in Slots \ {s} : commit'[t] = commit[t] BY <1>1, <1>4
<1>6. commit' \in [Slots -> CommitRec] BY <1>1, <1>3, <1>4
<1> QED BY <1>3, <1>5, <1>6 DEF Moved

(* Rows are added and updated, never removed, and keep their versions.       *)
RowsKept == \A i \in Ids : rows[i] # None => rows'[i] # None /\ rows'[i].version = rows[i].version

(* What a step of s leaves true of the commits that make and link manifests  *)
(* when it writes neither manifests nor versions.                            *)
LEMMA RacersKept ==
  ASSUME SyncIInv, NEW s \in Slots, Moved(s), RowsKept, UNCHANGED mans,
         commit'[s].pc # "link", commit'[s].pc = "manifest" => commit'[s].version = 1
  PROVE  LinkersOK' /\ ReadersOK'
<1>1. \A i, v : Has(i, v)' <=> Has(i, v) BY DEF Has
<1>2. \A t \in Slots : commit'[t].pc = "link" => t # s /\ commit'[t] = commit[t] BY DEF Moved
<1>3. \A t \in Slots : \A i, v : Linking(t, i, v)' => Linking(t, i, v) BY <1>2 DEF Linking
<1>4. \A t \in Slots : commit[t].pc \in {"link", "manifest"} =>
        commit[t].id \in Ids /\ rows[commit[t].id] # None
  BY DEF SyncIInv, CommitsOK, CommitOK
<1>5. LinkersOK'
  <2> SUFFICES ASSUME NEW t \in Slots, commit'[t].pc = "link"
               PROVE  LinkerOK(t, commit[t].id, commit[t].version)'
    BY <1>2 DEF LinkersOK
  <2>1. commit'[t] = commit[t] /\ commit[t].pc = "link" BY <1>2
  <2>2. LinkerOK(t, commit[t].id, commit[t].version) BY <2>1 DEF SyncIInv, LinkersOK
  <2>3. rows'[commit[t].id].version = rows[commit[t].id].version BY <1>4, <2>1 DEF RowsKept
  <2> QED BY <1>1, <1>3, <2>1, <2>2, <2>3 DEF LinkerOK
<1>6. ReadersOK'
  <2> SUFFICES ASSUME NEW t \in Slots, commit'[t].pc = "manifest", commit'[t].version # 1
               PROVE  ReaderOK(commit[t].id, commit[t].version)'
    BY DEF ReadersOK
  <2>1. commit'[t] = commit[t] /\ commit[t].pc = "manifest" /\ commit[t].version # 1 BY DEF Moved
  <2>2. ReaderOK(commit[t].id, commit[t].version) BY <2>1 DEF SyncIInv, ReadersOK
  <2>3. rows'[commit[t].id].version = rows[commit[t].id].version BY <1>4, <2>1 DEF RowsKept
  <2> QED BY <1>1, <1>3, <2>1, <2>2, <2>3 DEF ReaderOK
<1> QED BY <1>5, <1>6

(* The other commits keep what they have.                                    *)
LEMMA OthersKept ==
  ASSUME SyncIInv, NEW s \in Slots, Moved(s), CommitOK(s)',
         \A i \in Ids : rows[i] # None => rows'[i] # None
  PROVE  CommitsOK'
<1> SUFFICES ASSUME NEW t \in Slots, t # s PROVE CommitOK(t)' BY DEF CommitsOK
<1>1. commit'[t] = commit[t] BY DEF Moved
<1>2. CommitOK(t) BY DEF SyncIInv, CommitsOK
<1> QED BY <1>1, <1>2 DEF CommitOK, Head1

LEMMA IInvTypes == ASSUME SyncIInv PROVE SyncTypes
BY DEF SyncIInv

(* Chunks counted no further than before, by commits that have as many yet   *)
(* to count, or fewer.                                                       *)
GoesOn(s) ==
  commit'[s].pc \in Counting =>
    /\ commit[s].pc \in Counting /\ commit'[s].todo = commit[s].todo
    /\ commit'[s].at >= commit[s].at \/ commit'[s].at = 1

LEMMA UncountedFewer ==
  ASSUME SyncIInv, NEW s \in Slots, Moved(s), GoesOn(s), commit[s].at \in {0, 1} \/ commit'[s].at # 1, NEW c
  PROVE  Uncounted(c)' \subseteq Uncounted(c)
<1> SUFFICES ASSUME NEW p \in Slots \X Nat, p \in Uncounted(c)' PROVE p \in Uncounted(c) BY DEF Uncounted
<1>1. PICK t \in Slots, j \in Nat : p = <<t, j>> OBVIOUS
<1>2. commit'[t].pc \in Counting /\ j \in Where(Head1(t)'.chunks, c) /\ j >= commit'[t].at
  BY <1>1 DEF Uncounted
<1>3. commit[t].pc \in Counting /\ commit'[t].todo = commit[t].todo /\ (t # s => commit'[t] = commit[t])
  BY <1>2 DEF Moved, GoesOn
<1>4. Head1(t)' = Head1(t) BY <1>3 DEF Head1
<1>5. commit[t].at \in Nat /\ commit'[t].at \in Nat BY DEF SyncIInv, SyncTypes, Moved, CommitRec
<1>6. j >= commit[t].at
  <2>1. CASE t # s BY <1>2, <1>3, <2>1
  <2>2. CASE t = s BY <1>2, <1>5, <2>2 DEF GoesOn
  <2> QED BY <2>1, <2>2
<1> QED BY <1>1, <1>2, <1>3, <1>4, <1>6 DEF Uncounted

LEMMA CountedKept ==
  ASSUME SyncIInv, NEW s \in Slots, Moved(s), UNCHANGED <<mans, count>>, GoesOn(s),
         commit[s].at \in {0, 1} \/ commit'[s].at # 1
  PROVE  Counted'
<1> SUFFICES ASSUME NEW c \in Chunks
             PROVE  /\ IsFiniteSet(Uncounted(c)') /\ IsFiniteSet(Places(c))
                    /\ count[c] + Cardinality(Uncounted(c)') <= Cardinality(Places(c))
  BY DEF Counted, Places
<1>1. Uncounted(c)' \subseteq Uncounted(c) BY UncountedFewer
<1>2. IsFiniteSet(Uncounted(c)) /\ IsFiniteSet(Places(c)) BY DEF SyncIInv, Counted
<1>3. /\ Cardinality(Uncounted(c)') <= Cardinality(Uncounted(c))
      /\ IsFiniteSet(Uncounted(c)')
  BY <1>1, <1>2, FS_Subset
<1>4. Cardinality(Uncounted(c)') \in Nat /\ Cardinality(Uncounted(c)) \in Nat /\ Cardinality(Places(c)) \in Nat
  BY <1>2, <1>3, FS_CardinalityType
<1>7. count[c] \in Nat /\ count[c] + Cardinality(Uncounted(c)) <= Cardinality(Places(c))
  BY DEF SyncIInv, SyncTypes, Counted
<1> QED BY <1>2, <1>3, <1>4, <1>7

(* A step that writes none of the manifests and rows.                        *)
LEMMA FilesKept ==
  ASSUME SyncIInv, UNCHANGED <<rows, mans>>
  PROVE  OneManifest' /\ RowsFilled' /\ RowsOK' /\ Dense'
BY DEF SyncIInv, OneManifest, RowsFilled, RowsOK, Dense, Has

(* A step of a commit that writes no table but that of the devices.          *)
LEMMA Quiet ==
  ASSUME SyncIInv, NEW s \in Slots, Moved(s), UNCHANGED store,
         device' \in [Clients -> ReqClocks \cup {NewVectorClock, None}],
         CommitOK(s)', commit'[s].pc # "link", commit'[s].pc = "manifest" => commit'[s].version = 1,
         commit'[s].pc \in {"refs", "increment", "create"} =>
           commit[s].pc \in Counting /\ commit'[s].todo = commit[s].todo /\ commit'[s].at = commit[s].at
  PROVE  SyncIInv'
<1>1. UNCHANGED <<rows, mans, count, blobs>> BY DEF store
<1>2. SyncTypes' BY <1>1 DEF SyncIInv, SyncTypes, Moved
<1>3. OneManifest' /\ RowsFilled' /\ RowsOK' /\ Dense' BY <1>1, FilesKept
<1>4. CommitsOK' BY <1>1, OthersKept
<1>5. RowsKept BY <1>1 DEF RowsKept
<1>6. LinkersOK' /\ ReadersOK' BY <1>1, <1>5, RacersKept
<1>7. Counted'
  <2>1. CASE commit'[s].pc \in Counting
    <3>1. commit'[s].at = commit[s].at /\ commit[s].at \in Nat /\ GoesOn(s)
      BY <2>1, IInvTypes, CommitFields DEF GoesOn, Counting
    <3> QED BY <1>1, <3>1, CountedKept
  <2>2. CASE commit'[s].pc \notin Counting
    <3>1. commit'[s].at = 0 /\ GoesOn(s) BY <2>2 DEF GoesOn, Counting, CommitOK
    <3> QED BY <1>1, <3>1, CountedKept
  <2> QED BY <2>1, <2>2
<1> QED BY <1>2, <1>3, <1>4, <1>6, <1>7 DEF SyncIInv

-----------------------------------------------------------------------------
(* The actions.                                                             *)

(* A commit at a statement of a change has that change.                      *)
LEMMA HasChange ==
  ASSUME SyncIInv, NEW s \in Slots, commit[s].pc \in Working
  PROVE  commit[s].todo # <<>>
BY DEF SyncIInv, CommitsOK, CommitOK

LEMMA ThreeEmpty == <<>> \in Seq(Change)
OBVIOUS

(* Registering, removing, pushing and asking: no commit moves.               *)
LEMMA DevicesInv ==
  ASSUME SyncIInv, UNCHANGED <<store, commit>>,
         device' \in [Clients -> ReqClocks \cup {NewVectorClock, None}]
  PROVE  SyncIInv'
<1>1. UNCHANGED <<rows, mans, count, blobs>> BY DEF store
<1>2. SyncTypes' BY <1>1 DEF SyncIInv, SyncTypes
<1>3. OneManifest' /\ RowsFilled' /\ RowsOK' /\ Dense' BY <1>1, FilesKept
<1>4. CommitsOK' BY <1>1 DEF SyncIInv, CommitsOK, CommitOK, Head1
<1>5. LinkersOK' BY <1>1 DEF SyncIInv, LinkersOK, LinkerOK, Linking, Has
<1>6. ReadersOK' BY <1>1 DEF SyncIInv, ReadersOK, ReaderOK, Linking, Has
<1>7. Counted' BY <1>1 DEF SyncIInv, Counted, Uncounted, Places, Head1
<1> QED BY <1>2, <1>3, <1>4, <1>5, <1>6, <1>7 DEF SyncIInv

LEMMA registerInv ==
  ASSUME SyncIInv, NEW d \in Clients, registerDevice(d) \/ removeDevice(d)
  PROVE  SyncIInv'
<1>1. UNCHANGED <<store, commit>> BY DEF registerDevice, removeDevice
<1>2. device' \in [Clients -> ReqClocks \cup {NewVectorClock, None}]
  <2>1. device \in [Clients -> ReqClocks \cup {NewVectorClock, None}] BY DEF SyncIInv, SyncTypes
  <2>2. CASE registerDevice(d) BY <2>1, <2>2 DEF registerDevice, RegisterDevice, CreateDevice
  <2>3. CASE removeDevice(d) BY <2>1, <2>3 DEF removeDevice, DeleteDevice
  <2> QED BY <2>2, <2>3
<1> QED BY <1>1, <1>2, DevicesInv

LEMMA pushInv ==
  ASSUME SyncIInv, NEW c \in Chunks, push(c)
  PROVE  SyncIInv'
<1>1. UNCHANGED <<rows, mans, count, device, commit>> /\ blobs' = blobs \cup {c} BY DEF push
<1>2. SyncTypes' BY <1>1 DEF SyncIInv, SyncTypes
<1>3. OneManifest' /\ RowsFilled' /\ RowsOK' /\ Dense' BY <1>1, FilesKept
<1>4. CommitsOK' BY <1>1 DEF SyncIInv, CommitsOK, CommitOK, Head1
<1>5. LinkersOK' BY <1>1 DEF SyncIInv, LinkersOK, LinkerOK, Linking, Has
<1>6. ReadersOK' BY <1>1 DEF SyncIInv, ReadersOK, ReaderOK, Linking, Has
<1>7. Counted' BY <1>1 DEF SyncIInv, Counted, Uncounted, Places, Head1
<1> QED BY <1>2, <1>3, <1>4, <1>5, <1>6, <1>7 DEF SyncIInv

LEMMA CommitInv ==
  ASSUME SyncIInv, NEW s \in Slots, Commit(s)
  PROVE  SyncIInv'
<1>1. PICK d \in Clients, v \in ReqClocks, list \in Batches :
        commit' = [commit EXCEPT ![s] = [Free EXCEPT !.pc = "next", !.dev = d, !.clock = v, !.todo = list]]
  BY DEF Commit
<1> DEFINE c == [Free EXCEPT !.pc = "next", !.dev = d, !.clock = v, !.todo = list]
<1>2. list \in Seq(Change) /\ list # <<>> BY SyncAssumption
<1>3. c \in CommitRec /\ c.pc = "next" /\ c.todo = list /\ c.at = 0 BY <1>2 DEF Free, CommitRec, Labels
<1> HIDE DEF c
<1>4. commit' = [commit EXCEPT ![s] = c] BY <1>1 DEF c
<1>5. commit \in [Slots -> CommitRec] BY DEF SyncIInv, SyncTypes
<1>6. commit'[s] = c /\ Moved(s) BY <1>3, <1>4, <1>5 DEF Moved
<1>7. UNCHANGED <<store, device>> BY DEF Commit
<1>8. CommitOK(s)' BY <1>2, <1>3, <1>6 DEF CommitOK
<1>9. device' \in [Clients -> ReqClocks \cup {NewVectorClock, None}]
  BY <1>7 DEF SyncIInv, SyncTypes
<1> QED BY <1>3, <1>6, <1>7, <1>8, <1>9, Quiet

(* Going on to the next change without a write.                              *)
LEMMA SkipInv ==
  ASSUME SyncIInv, NEW s \in Slots, commit[s].pc \in Working, Advance(s),
         UNCHANGED <<store, device>>
  PROVE  SyncIInv'
<1>1. commit[s].todo # <<>> BY HasChange
<1>2. /\ Moved(s) /\ commit'[s].pc \in {"next", "device"} /\ commit'[s].at = 0
      /\ commit'[s].pc = "next" => commit'[s].todo # <<>>
  BY <1>1, AdvanceEffect, IInvTypes
<1>3. CommitOK(s)' BY <1>2 DEF CommitOK, Working
<1>4. device' \in [Clients -> ReqClocks \cup {NewVectorClock, None}]
  BY DEF SyncIInv, SyncTypes
<1> QED BY <1>2, <1>3, <1>4, Quiet

LEMMA FailsInv ==
  ASSUME SyncIInv, NEW s \in Slots, StatementFails(s)
  PROVE  SyncIInv'
<1>1. commit[s].pc \in Working BY DEF StatementFails, At1, Working
<1> QED BY <1>1, SkipInv DEF StatementFails

LEMMA updateDeviceStateInv ==
  ASSUME SyncIInv, NEW s \in Slots, updateDeviceState(s)
  PROVE  SyncIInv'
<1>1. /\ UNCHANGED store /\ commit' = [commit EXCEPT ![s].pc = "tree"]
      /\ UpdateDevice(commit[s].dev, commit[s].clock)
  BY DEF updateDeviceState
<1>1a. commit[s].at = 0 BY DEF updateDeviceState, At1, SyncIInv, CommitsOK, CommitOK
<1>2. Moved(s) /\ commit'[s].pc = "tree" /\ commit'[s].at = 0 BY <1>1a, <1>1, IInvTypes, PcEffect DEF Labels
<1>3. commit[s].clock \in ReqClocks \cup {NewVectorClock} BY DEF SyncIInv, SyncTypes, CommitRec
<1>4. device \in [Clients -> ReqClocks \cup {NewVectorClock, None}] BY DEF SyncIInv, SyncTypes
<1>5. device' \in [Clients -> ReqClocks \cup {NewVectorClock, None}] BY <1>1, <1>3, <1>4 DEF UpdateDevice
<1>6. CommitOK(s)' BY <1>2 DEF CommitOK, Working
<1> QED BY <1>1, <1>2, <1>5, <1>6, Quiet

LEMMA CommitEndsInv ==
  ASSUME SyncIInv, NEW s \in Slots, CommitEnds(s)
  PROVE  SyncIInv'
<1>1. UNCHANGED <<store, device>> /\ commit' = [commit EXCEPT ![s] = Free] BY DEF CommitEnds
<1>2. Free \in CommitRec /\ Free.pc = "idle" /\ Free.at = 0 BY ThreeEmpty DEF Free, CommitRec, Labels
<1>3. commit \in [Slots -> CommitRec] BY DEF SyncIInv, SyncTypes
<1>4. Moved(s) /\ commit'[s].pc = "idle" /\ commit'[s].at = 0 BY <1>1, <1>2, <1>3 DEF Moved
<1>5. CommitOK(s)' BY <1>4 DEF CommitOK, Working
<1>7. device' \in [Clients -> ReqClocks \cup {NewVectorClock, None}] BY <1>1 DEF SyncIInv, SyncTypes
<1> QED BY <1>1, <1>4, <1>5, <1>7, Quiet

LEMMA ensureChunkRefsInv ==
  ASSUME SyncIInv, NEW s \in Slots, ensureChunkRefs(s)
  PROVE  SyncIInv'
<1>1. UNCHANGED <<store, device>> /\ commit[s].pc = "refs" BY DEF ensureChunkRefs, At1
<1>2. PICK pc \in {"increment", "create"} : commit' = [commit EXCEPT ![s].pc = pc] BY DEF ensureChunkRefs
<1>3. /\ Moved(s) /\ commit'[s].pc = pc /\ commit'[s].todo = commit[s].todo
      /\ commit'[s].at = commit[s].at
  BY <1>2, IInvTypes, PcEffect DEF Labels
<1>4. commit[s].todo # <<>> /\ commit[s].at \in DOMAIN Head1(s).chunks
  BY <1>1 DEF SyncIInv, CommitsOK, CommitOK, Working
<1>5. CommitOK(s)' BY <1>2, <1>3, <1>4 DEF CommitOK, Head1
<1>6. device' \in [Clients -> ReqClocks \cup {NewVectorClock, None}]
  BY <1>1 DEF SyncIInv, SyncTypes
<1> QED BY <1>1, <1>2, <1>3, <1>5, <1>6, Quiet DEF Counting

LEMMA applyDeleteInv ==
  ASSUME SyncIInv, NEW s \in Slots, applyDelete(s)
  PROVE  SyncIInv'
<1>1. UNCHANGED <<store, device>> /\ commit[s].pc = "next" BY DEF applyDelete, At1
<1>2. CASE Advance(s) BY <1>1, <1>2, SkipInv DEF Working
<1>3. ASSUME NEW i \in resolveFileByPath(Head1(s).path),
             commit' = [commit EXCEPT ![s].pc = "trash", ![s].id = i]
      PROVE  SyncIInv'
  <2> DEFINE d == [commit[s] EXCEPT !.pc = "trash", !.id = i]
  <2>1. i \in Ids /\ rows[i] # None BY DEF resolveFileByPath
  <2>2. commit \in [Slots -> CommitRec] BY DEF SyncIInv, SyncTypes
  <2>3. commit[s] \in CommitRec BY <2>2
  <2>4. d \in CommitRec /\ d.pc = "trash" /\ d.id = i /\ d.todo = commit[s].todo /\ d.at = commit[s].at
    BY <2>1, <2>3 DEF CommitRec, Labels
  <2> HIDE DEF d
  <2>5. commit' = [commit EXCEPT ![s] = d] BY <1>3, <2>2 DEF d
  <2>6. commit'[s] = d /\ Moved(s) BY <2>2, <2>4, <2>5 DEF Moved
  <2>7. commit[s].todo # <<>> BY <1>1, HasChange DEF Working
  <2>8. UNCHANGED rows BY <1>1 DEF store
  <2>8a. commit[s].at = 0 BY <1>1 DEF SyncIInv, CommitsOK, CommitOK
  <2>9. CommitOK(s)' BY <2>1, <2>4, <2>6, <2>7, <2>8, <2>8a DEF CommitOK
  <2>10. device' \in [Clients -> ReqClocks \cup {NewVectorClock, None}]
    BY <1>1 DEF SyncIInv, SyncTypes
  <2> QED BY <1>1, <2>4, <2>6, <2>9, <2>10, Quiet
<1> QED BY <1>2, <1>3 DEF applyDelete

(* The id of a new row is the first unused one.                              *)
LEMMA NewRow ==
  ASSUME SyncIInv, NEW i \in Ids, i = Cardinality({j \in Ids : rows[j] # None}) + 1
  PROVE  /\ rows[i] = None
         /\ \A j \in Ids : rows[j] # None <=> j < i
<1> DEFINE U == {j \in Ids : rows[j] # None}
<1>0. i = Cardinality(U) + 1 OBVIOUS
<1>1. PICK n \in 0 .. MaxIds : \A j \in Ids : rows[j] # None <=> j <= n BY DEF SyncIInv, RowsFilled
<1>2. MaxIds \in Nat /\ n \in Nat BY SyncAssumption
<1>3. U = 1 .. n BY <1>1, <1>2 DEF Ids
<1> HIDE DEF U
<1>4. Cardinality(1 .. n) = n BY <1>2, FS_Interval
<1>5. i = n + 1 /\ i \in Nat BY <1>0, <1>2, <1>3, <1>4
<1> QED BY <1>1, <1>2, <1>5 DEF Ids

LEMMA applyAddInv ==
  ASSUME SyncIInv, NEW s \in Slots, applyAdd(s)
  PROVE  SyncIInv'
<1> DEFINE c == Head1(s)
           new == [path |-> c.path, live |-> TRUE, version |-> 1, link |-> 0]
<1>1. /\ UNCHANGED <<mans, count, blobs, device>>
      /\ commit[s].pc = "next" /\ c.action = "add"
  BY DEF applyAdd, At1
<1>2. commit[s].todo # <<>> BY <1>1, HasChange DEF Working
<1>3. c.path \in Paths BY <1>2, IInvTypes, CommitFields
<1>4. CASE Advance(s) /\ UNCHANGED rows BY <1>1, <1>4, SkipInv DEF Working, store
<1>5. ASSUME NEW i \in Ids, i = Cardinality({j \in Ids : rows[j] # None}) + 1,
             rows' = [rows EXCEPT ![i] = new],
             IF c.chunks = <<>> THEN Advance(s)
             ELSE commit' = [commit EXCEPT ![s].pc = "manifest", ![s].id = i, ![s].version = 1]
      PROVE  SyncIInv'
  <2>1. new \in Row /\ new.version = 1 /\ new.link = 0 BY <1>3 DEF Row
  <2>2. new # None BY <2>1, SyncAssumption
  <2> HIDE DEF new
  <2>3. rows[i] = None /\ \A j \in Ids : rows[j] # None <=> j < i BY <1>5, NewRow
  <2>4. rows \in [Ids -> Row \cup {None}] BY DEF SyncIInv, SyncTypes
  <2>5. /\ rows' \in [Ids -> Row \cup {None}] /\ rows'[i] = new
        /\ \A j \in Ids \ {i} : rows'[j] = rows[j]
    BY <1>5, <2>1, <2>4
  <2>6. RowsKept BY <2>3, <2>5 DEF RowsKept
  <2>6a. commit[s].at = 0 BY <1>1 DEF SyncIInv, CommitsOK, CommitOK
  <2>7. /\ Moved(s) /\ commit'[s].pc \in {"next", "device", "manifest"} /\ commit'[s].at = 0
        /\ commit'[s].pc \in {"next", "manifest"} => commit'[s].todo # <<>>
        /\ commit'[s].pc = "manifest" =>
             commit'[s].id = i /\ commit'[s].version = 1 /\ commit'[s].todo = commit[s].todo
    <3>1. CASE c.chunks = <<>>
      <4>1. Advance(s) BY <1>5, <3>1
      <4> QED BY <1>2, <4>1, IInvTypes, AdvanceEffect
    <3>2. CASE c.chunks # <<>>
      <4>1. Enters(s, i, 1) BY <1>5, <3>2 DEF Enters
      <4>2. /\ Moved(s) /\ commit'[s].pc = "manifest" /\ commit'[s].todo = commit[s].todo
            /\ commit'[s].id = i /\ commit'[s].version = 1 /\ commit'[s].at = commit[s].at
        BY <4>1, IInvTypes, EntryEffect
      <4> QED BY <1>2, <2>6a, <4>2
    <3> QED BY <3>1, <3>2
  <2>8. SyncTypes' BY <1>1, <2>5, <2>7 DEF SyncIInv, SyncTypes, Moved
  <2>9. OneManifest' /\ Dense' BY <1>1 DEF SyncIInv, OneManifest, Dense, Has
  <2>10. RowsFilled'
    <3>1. i \in 0 .. MaxIds /\ i \in Nat BY SyncAssumption DEF Ids
    <3>2. \A j \in Ids : rows'[j] # None <=> j <= i
      <4>1. \A j \in Ids : j \in Nat BY DEF Ids
      <4> QED BY <2>2, <2>3, <2>5, <3>1, <4>1
    <3> QED BY <3>1, <3>2 DEF RowsFilled
  <2>11. RowsOK'
    <3>1. \A j, v : Has(j, v)' <=> Has(j, v) BY <1>1 DEF Has
    <3>2. RowsOK BY DEF SyncIInv
    <3>3. ASSUME NEW j \in Ids, rows'[j] # None
          PROVE  /\ rows'[j].version = 1 \/ Has(j, rows'[j].version)
                 /\ rows'[j].link # 0 => Has(j, rows'[j].link)
      <4>1. CASE j = i BY <2>1, <2>5, <4>1
      <4>2. CASE j # i BY <2>5, <3>2, <3>3, <4>2 DEF RowsOK
      <4> QED BY <4>1, <4>2
    <3> QED BY <1>1, <3>3 DEF RowsOK, Has
  <2>12. CommitOK(s)'
    <3>1. commit'[s].pc = "manifest" => Head1(s)' = Head1(s) BY <2>7 DEF Head1
    <3>2. CASE commit'[s].pc = "manifest"
      <4>1. commit'[s].id \in Ids /\ rows'[commit'[s].id] # None BY <2>2, <2>5, <2>7, <3>2
      <4>2. commit'[s].version # 0 /\ Head1(s)'.action # "modify" BY <1>1, <2>7, <3>1, <3>2
      <4> QED BY <2>7, <3>2, <4>1, <4>2 DEF CommitOK
    <3>3. CASE commit'[s].pc # "manifest" BY <2>7, <3>3 DEF CommitOK, Working
    <3> QED BY <3>2, <3>3
  <2>13. CommitsOK' BY <2>6, <2>7, <2>12, OthersKept DEF RowsKept
  <2>14. LinkersOK' /\ ReadersOK' BY <1>1, <2>6, <2>7, RacersKept
  <2>15. Counted' BY <1>1, <2>7, CountedKept DEF GoesOn, Counting
  <2> QED BY <2>8, <2>9, <2>10, <2>11, <2>13, <2>14, <2>15 DEF SyncIInv
<1> QED BY <1>4, <1>5 DEF applyAdd

(* The version of a row has its manifest, unless it is 1, and no commit that *)
(* modifies links it: a linker of version v finds a version below v.         *)
LEMMA RowVersion ==
  ASSUME SyncIInv, NEW i \in Ids, rows[i] # None
  PROVE  /\ rows[i].version \in Nat \ {0}
         /\ rows[i].version = 1
            \/ (Has(i, rows[i].version) /\ \A t \in Slots : ~Linking(t, i, rows[i].version))
<1>1. rows[i].version \in Nat \ {0} BY DEF SyncIInv, SyncTypes, Row
<1>2. rows[i].version = 1 \/ Has(i, rows[i].version) BY DEF SyncIInv, RowsOK
<1>3. ASSUME NEW t \in Slots, Linking(t, i, rows[i].version), rows[i].version # 1 PROVE FALSE
  <2>1. LinkerOK(t, i, rows[i].version) BY <1>3 DEF SyncIInv, LinkersOK, Linking
  <2>2. rows[i].version \in {rows[i].version - 1, 1} BY <1>3, <2>1 DEF LinkerOK
  <2> QED BY <1>1, <1>3, <2>2
<1> QED BY <1>1, <1>2, <1>3

LEMMA applyModifyInv ==
  ASSUME SyncIInv, NEW s \in Slots, applyModify(s)
  PROVE  SyncIInv'
<1>1. UNCHANGED <<store, device>> /\ commit[s].pc = "next" BY DEF applyModify, At1
<1>2. CASE Advance(s) BY <1>1, <1>2, SkipInv DEF Working
<1>3. ASSUME NEW i \in resolveFileByPath(Head1(s).path),
             commit' = [commit EXCEPT ![s].pc = "manifest", ![s].id = i, ![s].version = rows[i].version + 1]
      PROVE  SyncIInv'
  <2> DEFINE v == rows[i].version + 1
  <2>1. i \in Ids /\ rows[i] # None BY DEF resolveFileByPath
  <2>2. /\ rows[i].version \in Nat \ {0}
        /\ rows[i].version = 1
           \/ (Has(i, rows[i].version) /\ \A t \in Slots : ~Linking(t, i, rows[i].version))
    BY <2>1, RowVersion
  <2>3. v \in Nat /\ v # 0 /\ v # 1 /\ v - 1 = rows[i].version /\ (v - 1 = 1 => v = 2) BY <2>2
  <2>4. UNCHANGED <<rows, mans, count, blobs>> BY <1>1 DEF store
  <2>5. commit[s].todo # <<>> BY <1>1, HasChange DEF Working
  <2> HIDE DEF v
  <2>6. /\ Moved(s) /\ commit'[s].pc = "manifest" /\ commit'[s].todo = commit[s].todo
        /\ commit'[s].id = i /\ commit'[s].version = v /\ commit'[s].at = 0
    <3>1. Enters(s, i, v) BY <1>3 DEF v, Enters
    <3>2. commit[s].at = 0 BY <1>1 DEF SyncIInv, CommitsOK, CommitOK
    <3> QED BY <3>2, <2>1, <2>3, <3>1, IInvTypes, EntryEffect
  <2>7. SyncTypes' BY <1>1, <2>4, <2>6 DEF SyncIInv, SyncTypes, Moved
  <2>8. OneManifest' /\ RowsFilled' /\ RowsOK' /\ Dense' BY <2>4, FilesKept
  <2>9. CommitOK(s)' BY <2>1, <2>3, <2>4, <2>5, <2>6 DEF CommitOK, Head1
  <2>10. CommitsOK' BY <2>4, <2>6, <2>9, OthersKept
  <2>11. \A j, u : Has(j, u)' <=> Has(j, u) BY <2>4 DEF Has
  <2>12. \A t \in Slots : commit'[t].pc = "link" => t # s /\ commit'[t] = commit[t] BY <2>6 DEF Moved
  <2>13. \A t \in Slots : \A j, u : Linking(t, j, u)' => Linking(t, j, u) BY <2>12 DEF Linking
  <2>14. LinkersOK'
    <3> SUFFICES ASSUME NEW t \in Slots, commit'[t].pc = "link"
                 PROVE  LinkerOK(t, commit[t].id, commit[t].version)'
      BY DEF LinkersOK
    <3>1. commit'[t] = commit[t] /\ commit[t].pc = "link" BY <2>12
    <3>2. LinkerOK(t, commit[t].id, commit[t].version) BY <3>1 DEF SyncIInv, LinkersOK
    <3> QED BY <2>4, <2>11, <2>13, <3>1, <3>2 DEF LinkerOK
  <2>15. ReadersOK'
    <3> SUFFICES ASSUME NEW t \in Slots, commit'[t].pc = "manifest", commit'[t].version # 1
                 PROVE  ReaderOK(commit[t].id, commit[t].version)'
      BY DEF ReadersOK
    <3>1. CASE t = s
      <4>1. v = 2 \/ (Has(i, v - 1) /\ \A u \in Slots : ~Linking(u, i, v - 1)) BY <2>2, <2>3
      <4>2. rows[i].version \in {v - 1, 1} BY <2>3
      <4> QED BY <2>4, <2>6, <2>11, <2>13, <3>1, <4>1, <4>2 DEF ReaderOK
    <3>2. CASE t # s
      <4>1. commit'[t] = commit[t] BY <2>6, <3>2 DEF Moved
      <4>2. ReaderOK(commit[t].id, commit[t].version) BY <4>1 DEF SyncIInv, ReadersOK
      <4> QED BY <2>4, <2>11, <2>13, <4>1, <4>2 DEF ReaderOK
    <3> QED BY <3>1, <3>2
  <2>16. Counted' BY <2>4, <2>6, CountedKept DEF GoesOn, Counting
  <2> QED BY <2>7, <2>8, <2>10, <2>14, <2>15, <2>16 DEF SyncIInv
<1> QED BY <1>2, <1>3 DEF applyModify

LEMMA SoftDeleteInv ==
  ASSUME SyncIInv, NEW s \in Slots, SoftDelete(s)
  PROVE  SyncIInv'
<1> DEFINE i == commit[s].id
           r == [rows[i] EXCEPT !.live = FALSE]
<1>1. /\ UNCHANGED <<mans, count, blobs, device>> /\ commit[s].pc = "trash" /\ Advance(s)
      /\ rows' = [rows EXCEPT ![i].live = FALSE]
  BY DEF SoftDelete, At1
<1>2. commit[s].todo # <<>> BY <1>1, HasChange DEF Working
<1>3. i \in Ids /\ rows[i] # None BY <1>1 DEF SyncIInv, CommitsOK, CommitOK
<1>4. /\ Moved(s) /\ commit'[s].pc \in {"next", "device"} /\ commit'[s].at = 0
      /\ commit'[s].pc = "next" => commit'[s].todo # <<>>
  BY <1>1, <1>2, IInvTypes, AdvanceEffect
<1>5. rows \in [Ids -> Row \cup {None}] BY DEF SyncIInv, SyncTypes
<1>6. rows[i] \in Row BY <1>3, <1>5
<1> HIDE DEF i
<1>7. r \in Row /\ r.version = rows[i].version /\ r.link = rows[i].link BY <1>6 DEF Row
<1>8. rows' = [rows EXCEPT ![i] = r] BY <1>1, <1>3, <1>5
<1>9. r # None BY <1>7, SyncAssumption
<1> HIDE DEF r
<1>10. /\ rows' \in [Ids -> Row \cup {None}] /\ rows'[i] = r
       /\ \A j \in Ids \ {i} : rows'[j] = rows[j]
  BY <1>3, <1>5, <1>7, <1>8
<1>11. /\ \A j \in Ids : rows'[j] # None <=> rows[j] # None
       /\ \A j \in Ids : rows'[j] # None => rows'[j].version = rows[j].version /\ rows'[j].link = rows[j].link
  BY <1>3, <1>7, <1>9, <1>10
<1>12. RowsKept BY <1>11 DEF RowsKept
<1>13. SyncTypes' BY <1>1, <1>4, <1>10 DEF SyncIInv, SyncTypes, Moved
<1>14. OneManifest' /\ Dense' BY <1>1 DEF SyncIInv, OneManifest, Dense, Has
<1>15. RowsFilled' BY <1>11 DEF SyncIInv, RowsFilled
<1>16. RowsOK'
  <2>1. \A j, v : Has(j, v)' <=> Has(j, v) BY <1>1 DEF Has
  <2> QED BY <1>11, <2>1 DEF SyncIInv, RowsOK
<1>17. CommitOK(s)' BY <1>4 DEF CommitOK, Working
<1>18. CommitsOK' BY <1>4, <1>11, <1>17, OthersKept
<1>19. LinkersOK' /\ ReadersOK' BY <1>1, <1>4, <1>12, RacersKept
<1>20. Counted' BY <1>1, <1>4, CountedKept DEF GoesOn, Counting
<1> QED BY <1>13, <1>14, <1>15, <1>16, <1>18, <1>19, <1>20 DEF SyncIInv

(* The new manifest of version v of file i is the latest of the file, and no *)
(* commit that modifies is about to link the one before.                     *)
LEMMA NewManifest ==
  ASSUME SyncIInv, NEW s \in Slots, commit[s].pc = "manifest", ~Has(commit[s].id, commit[s].version)
  PROVE  LET i == commit[s].id
             v == commit[s].version
         IN  /\ i \in Ids /\ rows[i] # None /\ v \in Nat \ {0}
             /\ v # 1 => /\ \A w \in Nat : w >= v => ~Has(i, w)
                         /\ v # 2 => Has(i, v - 1) /\ \A t \in Slots : ~Linking(t, i, v - 1)
                         /\ rows[i].version \in {v - 1, 1}
<1> DEFINE i == commit[s].id
           v == commit[s].version
<1>1. i \in Ids /\ rows[i] # None /\ v # 0 BY DEF SyncIInv, CommitsOK, CommitOK
<1>2. v \in Nat BY IInvTypes, CommitFields
<1>3. v # 1 => ReaderOK(i, v) BY DEF SyncIInv, ReadersOK
<1>4. ~Has(i, v) OBVIOUS
<1>5. Dense BY DEF SyncIInv
<1> HIDE DEF i, v
<1>6. ASSUME v # 1, NEW w \in Nat, w >= v, Has(i, w) PROVE FALSE
  <2>1. 2 <= v /\ v <= w BY <1>1, <1>2, <1>6
  <2> QED BY <1>1, <1>2, <1>4, <1>5, <1>6, <2>1 DEF Dense
<1>7. v # 1 => rows[i].version \in {v - 1, 1} BY <1>3, <1>4 DEF ReaderOK
<1>8. v # 1 /\ v # 2 => Has(i, v - 1) /\ \A t \in Slots : ~Linking(t, i, v - 1) BY <1>3 DEF ReaderOK
<1> QED BY <1>1, <1>2, <1>6, <1>7, <1>8 DEF i, v

(* The positions of a list, paired with what has it, are as many as they.    *)
Pairs(x, I) == {<<x, j>> : j \in I}

LEMMA PairsFinite ==
  ASSUME NEW x, NEW I, IsFiniteSet(I)
  PROVE  IsFiniteSet(Pairs(x, I)) /\ Cardinality(Pairs(x, I)) = Cardinality(I)
<1> DEFINE T == Pairs(x, I)
           f == [j \in I |-> <<x, j>>]
<1>1. f \in [I -> T] /\ (\A a, b \in I : f[a] = f[b] => a = b) /\ \A t \in T : \E a \in I : f[a] = t BY DEF Pairs
<1> HIDE DEF f, T
<1>2. f \in Bijection(I, T) BY <1>1 DEF Bijection, Injection, Surjection, IsInjective
<1>3. ExistsBijection(I, T) BY <1>2 DEF ExistsBijection
<1> QED BY <1>3, FS_Bijection DEF T

LEMMA WhereFinite ==
  ASSUME NEW q \in Seq(Chunks), NEW c
  PROVE  IsFiniteSet(Where(q, c))
<1>1. PICK n \in Nat : DOMAIN q = 1 .. n BY LenProperties
<1>2. IsFiniteSet(1 .. n) BY FS_Interval
<1>3. Where(q, c) \in SUBSET (1 .. n) BY <1>1 DEF Where
<1> QED BY <1>2, <1>3, FS_Subset

LEMMA CreateManifestInv ==
  ASSUME SyncIInv, NEW s \in Slots, CreateManifest(s)
  PROVE  SyncIInv'
<1>0. PICK i, v, k : i = commit[s].id /\ v = commit[s].version /\ k = Head1(s).chunks OBVIOUS
<1> DEFINE new == [file |-> i, version |-> v, chunks |-> k]
<1>1. UNCHANGED <<rows, count, blobs, device>> /\ commit[s].pc = "manifest"
  BY DEF CreateManifest, At1
<1>2. CASE Advance(s) /\ UNCHANGED mans BY <1>1, <1>2, SkipInv DEF Working, store
<1>3. CASE ~Has(i, v) /\ mans' = mans \cup {new} /\ commit' = [commit EXCEPT ![s].pc = "link"]
  <2>1. /\ i \in Ids /\ rows[i] # None /\ v \in Nat \ {0}
        /\ v # 1 => /\ \A w \in Nat : w >= v => ~Has(i, w)
                    /\ v # 2 => Has(i, v - 1) /\ \A t \in Slots : ~Linking(t, i, v - 1)
                    /\ rows[i].version \in {v - 1, 1}
    BY <1>0, <1>1, <1>3, NewManifest
  <2>2. commit[s].todo # <<>> BY <1>1, HasChange DEF Working
  <2>3. k \in Seq(Chunks) BY <1>0, <2>2, IInvTypes, CommitFields
  <2>4. /\ Moved(s) /\ commit'[s].pc = "link" /\ commit'[s].todo = commit[s].todo
        /\ commit'[s].id = i /\ commit'[s].version = v /\ commit'[s].at = commit[s].at
    BY <1>0, <1>3, IInvTypes, PcEffect DEF Labels
  <2>5. /\ CommitOK(s) /\ mans \subseteq ManRec /\ OneManifest
    BY DEF SyncIInv, CommitsOK, SyncTypes
  <2>6. Head1(s)' = Head1(s) BY <2>4 DEF Head1
  <2>7. CommitOK(s)'
    <3>1. v # 0 /\ (Head1(s).action = "modify" => v # 1) /\ commit[s].at = 0 BY <1>0, <1>1, <2>5 DEF CommitOK
    <3> QED BY <1>0, <1>1, <2>1, <2>2, <2>4, <2>6, <3>1 DEF CommitOK
  <2>8. CommitsOK' BY <1>1, <2>4, <2>7, OthersKept
  <2>9. new \in ManRec /\ new.file = i /\ new.version = v /\ new.chunks = k BY <2>1, <2>3 DEF ManRec
  <2> HIDE DEF new
  <2>10. \A m \in mans : ~(m.file = i /\ m.version = v) BY <1>3 DEF Has
  <2>11. new \notin mans BY <2>9, <2>10
  <2>12. mans' = mans \cup {new} BY <1>3
  <2>13. mans' \subseteq ManRec BY <2>5, <2>9, <2>12
  <2>14. SyncTypes' BY <1>1, <2>4, <2>12, <2>13 DEF SyncIInv, SyncTypes, Moved
  <2>15. OneManifest' BY <2>5, <2>9, <2>10, <2>12 DEF OneManifest
  <2>16. \A j, w : Has(j, w)' <=> Has(j, w) \/ (j = i /\ w = v) BY <2>9, <2>12 DEF Has
  <2>17. RowsFilled' BY <1>1 DEF SyncIInv, RowsFilled
  <2>18. RowsOK' BY <1>1, <2>16 DEF SyncIInv, RowsOK
  <2>19. Dense'
    <3> SUFFICES ASSUME NEW j \in Ids, NEW u \in Nat, NEW w \in Nat, 2 <= u, u <= w, Has(j, w)'
                 PROVE  Has(j, u)'
      BY DEF Dense
    <3>1. CASE Has(j, w) BY <2>16, <3>1 DEF SyncIInv, Dense
    <3>2. CASE j = i /\ w = v
      <4>1. CASE u = v BY <2>16, <3>2, <4>1
      <4>2. CASE u # v
        <5>1. v # 1 /\ v # 2 /\ u <= v - 1 /\ v - 1 \in Nat BY <2>1, <3>2, <4>2
        <5>2. Has(i, v - 1) BY <2>1, <5>1
        <5>3. Has(i, u) BY <2>1, <5>1, <5>2 DEF SyncIInv, Dense
        <5> QED BY <2>16, <3>2, <5>3
      <4> QED BY <4>1, <4>2
    <3> QED BY <2>16, <3>1, <3>2
  <2>20. \A t \in Slots : \A j, w : Linking(t, j, w)' <=> IF t = s THEN j = i /\ w = v ELSE Linking(t, j, w)
    BY <2>4 DEF Linking, Moved
  <2>21. \A t \in Slots : ~Linking(t, i, v)
    BY <1>3 DEF SyncIInv, LinkersOK, LinkerOK, Linking
  <2>22. LinkersOK'
    <3> SUFFICES ASSUME NEW t \in Slots, commit'[t].pc = "link"
                 PROVE  LinkerOK(t, commit[t].id, commit[t].version)'
      BY DEF LinkersOK
    <3>1. CASE t = s
      <4>1. Has(i, v)' BY <2>16
      <4>2. \A u \in Slots : Linking(u, i, v)' => u = s BY <2>20, <2>21
      <4>3. v # 1 => ~(Has(i, v + 1)') /\ rows'[i].version \in {v - 1, 1}
        <5>1. v + 1 \in Nat /\ v + 1 >= v /\ v + 1 # v BY <2>1
        <5> QED BY <1>1, <2>1, <2>16, <5>1
      <4>4. commit'[t].id = i /\ commit'[t].version = v BY <2>4, <3>1
      <4> QED BY <1>1, <2>16, <2>20, <3>1, <4>1, <4>2, <4>3, <4>4 DEF LinkerOK
    <3>2. CASE t # s
      <4>0. PICK j, w : j = commit[t].id /\ w = commit[t].version OBVIOUS
      <4>1. commit'[t] = commit[t] BY <2>4, <3>2 DEF Moved
      <4>2. LinkerOK(t, j, w) BY <4>0, <4>1 DEF SyncIInv, LinkersOK
      <4>3. j \in Ids /\ w \in Nat /\ w # 0
        BY <4>0, <4>1, IInvTypes, CommitFields DEF SyncIInv, CommitsOK, CommitOK
      <4>4. Linking(t, j, w) BY <4>0, <4>1 DEF Linking
      <4>5. commit'[t].id = j /\ commit'[t].version = w BY <4>0, <4>1
      <4>6. Has(j, w)' BY <2>16, <4>2 DEF LinkerOK
      <4>7. \A u \in Slots : Linking(u, j, w)' => u = t
        <5>1. ~(j = i /\ w = v) BY <2>21, <4>4
        <5> QED BY <2>20, <4>2, <5>1 DEF LinkerOK
      <4>8. w # 1 => ~(Has(j, w + 1)')
        <5>1. ASSUME w # 1, j = i, w + 1 = v PROVE FALSE
          <6>1. v # 1 /\ v # 2 /\ v - 1 = w BY <2>1, <4>3, <5>1
          <6> QED BY <2>1, <4>4, <5>1, <6>1
        <5> QED BY <2>16, <4>2, <5>1 DEF LinkerOK
      <4>9. w # 1 => rows'[j].version \in {w - 1, 1} BY <1>1, <4>2 DEF LinkerOK
      <4> QED BY <4>5, <4>6, <4>7, <4>8, <4>9 DEF LinkerOK
    <3> QED BY <3>1, <3>2
  <2>23. ReadersOK'
    <3> SUFFICES ASSUME NEW t \in Slots, commit'[t].pc = "manifest", commit'[t].version # 1
                 PROVE  ReaderOK(commit[t].id, commit[t].version)'
      BY DEF ReadersOK
    <3>0. PICK j, w : j = commit[t].id /\ w = commit[t].version OBVIOUS
    <3>1. t # s /\ commit'[t] = commit[t] BY <2>4 DEF Moved
    <3>2. ReaderOK(j, w) BY <3>0, <3>1 DEF SyncIInv, ReadersOK
    <3>3. j \in Ids /\ w \in Nat /\ w # 0 /\ w # 1
      BY <3>0, <3>1, IInvTypes, CommitFields DEF SyncIInv, CommitsOK, CommitOK
    <3>4. commit'[t].id = j /\ commit'[t].version = w BY <3>0, <3>1
    <3>5. ~Has(i, v) BY <1>3
    <3>6. w = 2 \/ (Has(j, w - 1)' /\ \A u \in Slots : ~(Linking(u, j, w - 1)'))
      <4>1. CASE w = 2 BY <4>1
      <4>2. CASE Has(j, w - 1) /\ \A u \in Slots : ~Linking(u, j, w - 1)
        <5>1. ~(j = i /\ w - 1 = v) BY <3>5, <4>2
        <5> QED BY <2>16, <2>20, <4>2, <5>1
      <4> QED BY <3>2, <4>1, <4>2 DEF ReaderOK
    <3>7. rows'[j].version \in {w - 1, 1} \/ Has(j, w)' BY <1>1, <2>16, <3>2 DEF ReaderOK
    <3> QED BY <3>4, <3>6, <3>7 DEF ReaderOK
  <2>24. Counted'
    <3> SUFFICES ASSUME NEW c \in Chunks
                 PROVE  /\ IsFiniteSet(Uncounted(c)') /\ IsFiniteSet(Places(c)')
                        /\ count[c] + Cardinality(Uncounted(c)') <= Cardinality(Places(c)')
      BY <1>1 DEF Counted
    <3> DEFINE I == Where(k, c)
               A == Pairs(s, I)
               B == Pairs(new, I)
               u == Cardinality(Uncounted(c))
               w == Cardinality(Places(c))
    <3>1. IsFiniteSet(I) BY <2>3, WhereFinite
    <3>2. /\ IsFiniteSet(A) /\ IsFiniteSet(B) /\ Cardinality(A) = Cardinality(I) /\ Cardinality(B) = Cardinality(I)
      BY <3>1, PairsFinite
    <3>3. Cardinality(I) \in Nat BY <3>1, FS_CardinalityType
    <3>4. Uncounted(c)' \subseteq Uncounted(c) \cup A
      <4> SUFFICES ASSUME NEW p \in Uncounted(c)' PROVE p \in Uncounted(c) \cup A OBVIOUS
      <4>1. PICK t \in Slots, j \in Nat : p = <<t, j>> BY DEF Uncounted
      <4>2. commit'[t].pc \in Counting /\ j \in Where(Head1(t)'.chunks, c) /\ j >= commit'[t].at
        BY <4>1 DEF Uncounted
      <4>3. CASE t = s BY <1>0, <2>6, <4>1, <4>2, <4>3 DEF Pairs
      <4>4. CASE t # s
        <5>1. commit'[t] = commit[t] /\ Head1(t)' = Head1(t) BY <2>4, <4>4 DEF Moved, Head1
        <5> QED BY <4>1, <4>2, <5>1 DEF Uncounted
      <4> QED BY <4>3, <4>4
    <3>5. Places(c)' = Places(c) \cup B
      <4>1. \A m : Pairs(m, Where(m.chunks, c)) = {<<m, j>> : j \in {h \in DOMAIN m.chunks : m.chunks[h] = c}}
        BY DEF Pairs, Where
      <4>2. Places(c) = UNION {Pairs(m, Where(m.chunks, c)) : m \in mans} BY <4>1 DEF Places
      <4>3. Places(c)' = UNION {Pairs(m, Where(m.chunks, c)) : m \in mans'} BY <4>1 DEF Places
      <4>4. B = Pairs(new, Where(new.chunks, c)) BY <2>9
      <4> QED BY <2>12, <4>2, <4>3, <4>4
    <3>6. Places(c) \cap B = {}
      <4> SUFFICES ASSUME NEW p \in Places(c), p \in B PROVE FALSE OBVIOUS
      <4>1. PICK m \in mans, j \in Nat : p = <<m, j>> BY DEF Places, SyncIInv, SyncTypes, ManRec
      <4>2. PICK h \in I : p = <<new, h>> BY DEF Pairs
      <4> QED BY <2>11, <4>1, <4>2
    <3>7. /\ IsFiniteSet(Uncounted(c)) /\ IsFiniteSet(Places(c))
          /\ count[c] \in Nat /\ count[c] + u <= w
      BY DEF SyncIInv, SyncTypes, Counted
    <3>8. u \in Nat /\ w \in Nat BY <3>7, FS_CardinalityType
    <3> HIDE DEF A, B, I
    <3>9. /\ IsFiniteSet(Uncounted(c) \cup A)
          /\ Cardinality(Uncounted(c) \cup A) = u + Cardinality(A) - Cardinality(Uncounted(c) \cap A)
      BY <3>2, <3>7, FS_Union
    <3>10. IsFiniteSet(Uncounted(c) \cap A) BY <3>7, FS_Subset
    <3>11. Cardinality(Uncounted(c) \cap A) \in Nat BY <3>10, FS_CardinalityType
    <3>12. /\ IsFiniteSet(Places(c) \cup B)
           /\ Cardinality(Places(c) \cup B) = w + Cardinality(B) - Cardinality({})
      BY <3>2, <3>6, <3>7, FS_Union
    <3>13. IsFiniteSet(Places(c)') /\ Cardinality(Places(c)') = w + Cardinality(I)
      BY <3>2, <3>3, <3>5, <3>8, <3>12, FS_EmptySet
    <3>14. IsFiniteSet(Uncounted(c)') /\ Cardinality(Uncounted(c)') <= Cardinality(Uncounted(c) \cup A)
      BY <3>4, <3>9, FS_Subset
    <3>15. Cardinality(Uncounted(c)') \in Nat BY <3>14, FS_CardinalityType
    <3> HIDE DEF u, w
    <3>16. count[c] + Cardinality(Uncounted(c)') <= Cardinality(Places(c)')
      BY <3>2, <3>3, <3>7, <3>8, <3>9, <3>11, <3>13, <3>14, <3>15
    <3> QED BY <3>13, <3>14, <3>16
  <2> QED BY <2>8, <2>14, <2>15, <2>17, <2>18, <2>19, <2>22, <2>23, <2>24 DEF SyncIInv
<1> QED BY <1>0, <1>2, <1>3 DEF CreateManifest, Has

(* Two commits that modify one file never link at the same time: each of     *)
(* them would have made its latest version.                                  *)
LEMMA OneLinker ==
  ASSUME SyncIInv, NEW i \in Ids, NEW v \in Nat \ {0, 1}, NEW w \in Nat \ {0, 1},
         Has(i, v), ~Has(i, v + 1), Has(i, w), ~Has(i, w + 1)
  PROVE  v = w
<1>1. Dense BY DEF SyncIInv
<1>2. ASSUME v + 1 <= w PROVE FALSE
  <2>1. 2 <= v + 1 /\ v + 1 \in Nat /\ w \in Nat OBVIOUS
  <2> QED BY <1>1, <1>2, <2>1 DEF Dense
<1>3. ASSUME w + 1 <= v PROVE FALSE
  <2>1. 2 <= w + 1 /\ w + 1 \in Nat /\ v \in Nat OBVIOUS
  <2> QED BY <1>1, <1>3, <2>1 DEF Dense
<1> QED BY <1>2, <1>3

LEMMA LinkManifestInv ==
  ASSUME SyncIInv, NEW s \in Slots, LinkManifest(s)
  PROVE  SyncIInv'
<1>0. PICK i, v : i = commit[s].id /\ v = commit[s].version OBVIOUS
<1>1. /\ UNCHANGED <<mans, count, blobs, device>> /\ commit[s].pc = "link"
      /\ rows' = [rows EXCEPT ![i].link = v, ![i].version = v]
      /\ IF Head1(s).chunks = <<>> THEN Advance(s)
         ELSE commit' = [commit EXCEPT ![s].pc = "refs", ![s].at = 1]
  BY <1>0 DEF LinkManifest, At1
<1>2. commit[s].todo # <<>> BY <1>1, HasChange DEF Working
<1>3. Head1(s).chunks \in Seq(Chunks) BY <1>2, IInvTypes, CommitFields
<1>4. /\ i \in Ids /\ rows[i] # None /\ v \in Nat /\ v # 0
  BY <1>0, <1>1, IInvTypes, CommitFields DEF SyncIInv, CommitsOK, CommitOK
<1>5. LinkerOK(s, i, v) BY <1>0, <1>1 DEF SyncIInv, LinkersOK
<1>6. /\ Moved(s) /\ commit'[s].pc \in {"next", "device", "refs"}
      /\ commit'[s].pc # "device" => commit'[s].todo # <<>>
      /\ IF commit'[s].pc = "refs"
         THEN /\ commit'[s].todo = commit[s].todo /\ commit'[s].at = 1
              /\ 1 \in DOMAIN Head1(s).chunks
         ELSE commit'[s].at = 0
  <2>1. CASE Head1(s).chunks = <<>>
    <3>1. Advance(s) BY <1>1, <2>1
    <3> QED BY <1>2, <3>1, IInvTypes, AdvanceEffect
  <2>2. CASE Head1(s).chunks # <<>>
    <3>1. commit' = [commit EXCEPT ![s].pc = "refs", ![s].at = 1] BY <1>1, <2>2
    <3>2. Moved(s) /\ commit'[s].pc = "refs" /\ commit'[s].todo = commit[s].todo /\ commit'[s].at = 1
      BY <3>1, IInvTypes, HashEffect
    <3>3. 1 \in DOMAIN Head1(s).chunks BY <1>3, <2>2, EmptySeq, LenProperties
    <3> QED BY <1>2, <3>2, <3>3
  <2> QED BY <2>1, <2>2
<1> DEFINE r == [rows[i] EXCEPT !.link = v, !.version = v]
<1>7. rows \in [Ids -> Row \cup {None}] BY DEF SyncIInv, SyncTypes
<1>8. rows[i] \in Row BY <1>4, <1>7
<1>9. r \in Row /\ r.version = v /\ r.link = v BY <1>4, <1>8 DEF Row
<1>10. rows' = [rows EXCEPT ![i] = r] BY <1>1, <1>4, <1>7
<1>11. r # None BY <1>9, SyncAssumption
<1> HIDE DEF r
<1>12. /\ rows' \in [Ids -> Row \cup {None}] /\ rows'[i] = r
       /\ \A j \in Ids \ {i} : rows'[j] = rows[j]
  BY <1>4, <1>7, <1>9, <1>10
<1>13. \A j \in Ids : rows'[j] # None <=> rows[j] # None BY <1>4, <1>11, <1>12
<1>14. SyncTypes' BY <1>1, <1>6, <1>12 DEF SyncIInv, SyncTypes, Moved
<1>15. OneManifest' /\ Dense' BY <1>1 DEF SyncIInv, OneManifest, Dense, Has
<1>16. RowsFilled' BY <1>13 DEF SyncIInv, RowsFilled
<1>17. \A j, w : Has(j, w)' <=> Has(j, w) BY <1>1 DEF Has
<1>18. RowsOK'
  <2> SUFFICES ASSUME NEW j \in Ids, rows'[j] # None
               PROVE  /\ rows'[j].version = 1 \/ Has(j, rows[j].version)'
                      /\ rows'[j].link # 0 => Has(j, rows[j].link)'
    BY DEF RowsOK
  <2>1. CASE j = i BY <1>5, <1>9, <1>12, <1>17, <2>1 DEF LinkerOK
  <2>2. CASE j # i BY <1>12, <1>17, <2>2 DEF SyncIInv, RowsOK
  <2> QED BY <2>1, <2>2
<1>19. CommitOK(s)' BY <1>6 DEF CommitOK, Working, Head1
<1>20. CommitsOK' BY <1>6, <1>13, <1>19, OthersKept
<1>21. \A t \in Slots : \A j, w : Linking(t, j, w)' => t # s /\ Linking(t, j, w) BY <1>6 DEF Linking, Moved
<1>22. LinkersOK'
  <2> SUFFICES ASSUME NEW t \in Slots, commit'[t].pc = "link"
               PROVE  LinkerOK(t, commit[t].id, commit[t].version)'
    BY DEF LinkersOK
  <2>1. PICK j, w : j = commit[t].id /\ w = commit[t].version OBVIOUS
  <2>2. t # s /\ commit'[t] = commit[t] BY <1>6 DEF Moved
  <2>3. LinkerOK(t, j, w) BY <2>1, <2>2 DEF SyncIInv, LinkersOK
  <2>4. j \in Ids /\ w \in Nat /\ w # 0
    BY <2>1, <2>2, IInvTypes, CommitFields DEF SyncIInv, CommitsOK, CommitOK
  <2>5. commit'[t].id = j /\ commit'[t].version = w BY <2>1, <2>2
  <2>6. w # 1 => rows'[j].version \in {w - 1, 1}
    <3>1. CASE j # i BY <1>12, <2>3, <2>4, <3>1 DEF LinkerOK
    <3>2. CASE j = i /\ v = 1 BY <1>9, <1>12, <3>2
    <3>3. CASE j = i /\ v # 1 /\ w # 1
      <4>1. Has(i, v) /\ ~Has(i, v + 1) /\ Has(i, w) /\ ~Has(i, w + 1)
        BY <1>5, <2>3, <3>3 DEF LinkerOK
      <4>2. v = w BY <1>4, <2>4, <3>3, <4>1, OneLinker
      <4>3. Linking(t, i, v) BY <2>1, <2>2, <3>3, <4>2 DEF Linking
      <4> QED BY <1>5, <2>2, <4>3 DEF LinkerOK
    <3> QED BY <3>1, <3>2, <3>3
  <2>7. \A u \in Slots : Linking(u, j, w)' => u = t BY <1>21, <2>3 DEF LinkerOK
  <2>8. Has(j, w)' /\ (w # 1 => ~(Has(j, w + 1)')) BY <1>17, <2>3 DEF LinkerOK
  <2> QED BY <2>5, <2>6, <2>7, <2>8 DEF LinkerOK
<1>23. ReadersOK'
  <2> SUFFICES ASSUME NEW t \in Slots, commit'[t].pc = "manifest", commit'[t].version # 1
               PROVE  ReaderOK(commit[t].id, commit[t].version)'
    BY DEF ReadersOK
  <2>1. PICK j, w : j = commit[t].id /\ w = commit[t].version OBVIOUS
  <2>2. t # s /\ commit'[t] = commit[t] BY <1>6 DEF Moved
  <2>3. ReaderOK(j, w) BY <2>1, <2>2 DEF SyncIInv, ReadersOK
  <2>4. j \in Ids /\ w \in Nat /\ w # 0 /\ w # 1
    BY <2>1, <2>2, IInvTypes, CommitFields DEF SyncIInv, CommitsOK, CommitOK
  <2>5. commit'[t].id = j /\ commit'[t].version = w BY <2>1, <2>2
  <2>6. w = 2 \/ (Has(j, w - 1)' /\ \A u \in Slots : ~(Linking(u, j, w - 1)'))
    BY <1>17, <1>21, <2>3 DEF ReaderOK
  <2>7. rows'[j].version \in {w - 1, 1} \/ Has(j, w)'
    <3>1. CASE j # i BY <1>12, <1>17, <2>3, <2>4, <3>1 DEF ReaderOK
    <3>2. CASE j = i /\ v = 1 BY <1>9, <1>12, <3>2
    <3>3. CASE j = i /\ v # 1
      <4>1. Dense BY DEF SyncIInv
      <4>2. Has(i, v) /\ ~Has(i, v + 1) BY <1>5, <3>3 DEF LinkerOK
      <4>3. CASE w <= v
        <5>1. 2 <= w BY <2>4
        <5>2. Has(i, w) BY <1>4, <2>4, <4>1, <4>2, <4>3, <5>1 DEF Dense
        <5> QED BY <1>17, <3>3, <5>2
      <4>4. CASE w = v + 1
        <5>1. w - 1 = v BY <1>4, <4>4
        <5> QED BY <1>9, <1>12, <3>3, <5>1
      <4>5. CASE w > v + 1
        <5>1. w # 2 /\ w - 1 \in Nat /\ 2 <= v + 1 /\ v + 1 <= w - 1 /\ v + 1 \in Nat
          BY <1>4, <2>4, <3>3, <4>5
        <5>2. Has(i, w - 1) BY <2>3, <3>3, <5>1 DEF ReaderOK
        <5> QED BY <1>4, <4>1, <4>2, <5>1, <5>2 DEF Dense
      <4> QED BY <1>4, <2>4, <4>3, <4>4, <4>5
    <3> QED BY <3>1, <3>2, <3>3
  <2> QED BY <2>5, <2>6, <2>7 DEF ReaderOK
<1>24. Counted'
  <2>1. commit[s].at = 0 BY <1>1 DEF SyncIInv, CommitsOK, CommitOK
  <2>2. GoesOn(s) BY <1>1, <1>6 DEF GoesOn, Counting
  <2> QED BY <1>1, <1>6, <2>1, <2>2, CountedKept
<1> QED BY <1>14, <1>15, <1>16, <1>18, <1>20, <1>22, <1>23, <1>24 DEF SyncIInv

(* A chunk is counted by one at most, by a commit that had not yet counted   *)
(* it at this place of its list.                                             *)
LEMMA CountInv ==
  ASSUME SyncIInv, NEW s \in Slots, commit[s].pc \in {"increment", "create"},
         UNCHANGED <<rows, mans, blobs, device>>, Advance(s) \/ NextHash(s),
         count' \in {[count EXCEPT ![Hash(s)] = @ + 1], count}
  PROVE  SyncIInv'
<1>1. commit[s].todo # <<>> BY HasChange DEF Working
<1>2. PICK n \in Nat, k \in Chunks : n = commit[s].at /\ n \in DOMAIN Head1(s).chunks /\ k = Head1(s).chunks[n]
  <2>1. commit[s].at \in DOMAIN Head1(s).chunks BY DEF SyncIInv, CommitsOK, CommitOK
  <2>2. Head1(s).chunks \in Seq(Chunks) /\ commit[s].at \in Nat BY <1>1, IInvTypes, CommitFields
  <2>3. Head1(s).chunks[commit[s].at] \in Chunks BY <2>1, <2>2, ElementOfSeq, LenProperties
  <2> QED BY <2>1, <2>2, <2>3
<1>3. /\ Moved(s) /\ commit'[s].pc \in {"next", "device", "refs"}
      /\ commit'[s].pc \in {"next", "refs"} => commit'[s].todo # <<>>
      /\ IF commit'[s].pc = "refs"
         THEN /\ commit'[s].todo = commit[s].todo /\ commit'[s].at = n + 1
              /\ n + 1 \in DOMAIN Head1(s).chunks
         ELSE commit'[s].at = 0
  <2>1. CASE Advance(s) BY <1>1, <2>1, IInvTypes, AdvanceEffect
  <2>2. CASE commit' = [commit EXCEPT ![s].pc = "refs", ![s].at = n + 1] /\ n # Len(Head1(s).chunks)
    <3>1. Moved(s) /\ commit'[s].pc = "refs" /\ commit'[s].todo = commit[s].todo /\ commit'[s].at = n + 1
      <4>1. n + 1 \in Nat BY <1>2
      <4> QED BY <2>2, <4>1, IInvTypes, HashEffect
    <3>2. n + 1 \in DOMAIN Head1(s).chunks
      <4>1. Head1(s).chunks \in Seq(Chunks) BY <1>1, IInvTypes, CommitFields
      <4>2. PICK m \in Nat : m = Len(Head1(s).chunks) /\ DOMAIN Head1(s).chunks = 1 .. m BY <4>1, LenProperties
      <4> QED BY <1>2, <2>2, <4>2
    <3> QED BY <1>1, <3>1, <3>2
  <2>3. NextHash(s) => Advance(s) \/ (commit' = [commit EXCEPT ![s].pc = "refs", ![s].at = n + 1]
                                      /\ n # Len(Head1(s).chunks))
    <3>1. commit \in [Slots -> CommitRec] BY DEF SyncIInv, SyncTypes
    <3>2. [commit EXCEPT ![s].pc = "refs", ![s].at = @ + 1] = [commit EXCEPT ![s].pc = "refs", ![s].at = n + 1]
      BY <1>2, <3>1 DEF CommitRec
    <3> QED BY <1>2, <3>2 DEF NextHash
  <2> QED BY <2>1, <2>2, <2>3
<1>4. count \in [Chunks -> Nat] BY DEF SyncIInv, SyncTypes
<1>5. /\ count' \in [Chunks -> Nat]
      /\ \A c \in Chunks : count'[c] <= IF c = k THEN count[c] + 1 ELSE count[c]
  BY <1>2, <1>4 DEF Hash
<1>6. SyncTypes' BY <1>3, <1>5 DEF SyncIInv, SyncTypes, Moved
<1>7. OneManifest' /\ RowsFilled' /\ RowsOK' /\ Dense' BY FilesKept
<1>8. CommitOK(s)' BY <1>3 DEF CommitOK, Working, Head1
<1>9. CommitsOK' BY <1>3, <1>8, OthersKept
<1>10. RowsKept BY DEF RowsKept
<1>11. LinkersOK' /\ ReadersOK' BY <1>3, <1>10, RacersKept
<1>12. Counted'
  <2> SUFFICES ASSUME NEW c \in Chunks
               PROVE  /\ IsFiniteSet(Uncounted(c)') /\ IsFiniteSet(Places(c))
                      /\ count'[c] + Cardinality(Uncounted(c)') <= Cardinality(Places(c))
    BY DEF Counted, Places
  <2> DEFINE U == Uncounted(c)
             p == <<s, n>>
  <2>1. /\ IsFiniteSet(U) /\ IsFiniteSet(Places(c))
        /\ count[c] + Cardinality(U) <= Cardinality(Places(c))
    BY DEF SyncIInv, Counted
  <2>2. Cardinality(U) \in Nat /\ Cardinality(Places(c)) \in Nat BY <2>1, FS_CardinalityType
  <2>3. Uncounted(c)' \subseteq U
    <3>1. n # 0
      <4>1. Head1(s).chunks \in Seq(Chunks) BY <1>1, IInvTypes, CommitFields
      <4>2. DOMAIN Head1(s).chunks = 1 .. Len(Head1(s).chunks) /\ Len(Head1(s).chunks) \in Nat
        BY <4>1, LenProperties
      <4> QED BY <1>2, <4>2
    <3>2. commit'[s].at # 1 BY <1>2, <1>3, <3>1
    <3>3. GoesOn(s) BY <1>2, <1>3 DEF GoesOn, Counting
    <3> QED BY <1>3, <3>2, <3>3, UncountedFewer
  <2>4. c = k => p \in U BY <1>2 DEF Uncounted, Where, Counting
  <2>5. p \notin Uncounted(c)' BY <1>2, <1>3 DEF Uncounted, Counting
  <2> HIDE DEF U, p
  <2>6. Uncounted(c)' \subseteq U \ {p} BY <2>3, <2>5
  <2>7. IsFiniteSet(U \ {p}) /\ Cardinality(U \ {p}) = IF p \in U THEN Cardinality(U) - 1 ELSE Cardinality(U)
    BY <2>1, FS_RemoveElement
  <2>8. IsFiniteSet(Uncounted(c)') /\ Cardinality(Uncounted(c)') <= Cardinality(U \ {p})
    BY <2>6, <2>7, FS_Subset
  <2>9. Cardinality(Uncounted(c)') \in Nat /\ Cardinality(U \ {p}) \in Nat BY <2>7, <2>8, FS_CardinalityType
  <2>10. count[c] \in Nat /\ count'[c] \in Nat BY <1>4, <1>5
  <2>11. count'[c] <= IF c = k THEN count[c] + 1 ELSE count[c] BY <1>5
  <2>12. count'[c] + Cardinality(Uncounted(c)') <= Cardinality(Places(c))
    BY <2>1, <2>2, <2>4, <2>7, <2>8, <2>9, <2>10, <2>11
  <2> QED BY <2>1, <2>8, <2>12
<1> QED BY <1>6, <1>7, <1>9, <1>11, <1>12 DEF SyncIInv

LEMMA IncrementInv ==
  ASSUME SyncIInv, NEW s \in Slots, IncrementRefCount(s)
  PROVE  SyncIInv'
BY CountInv DEF IncrementRefCount, At1

LEMMA CreateChunkInv ==
  ASSUME SyncIInv, NEW s \in Slots, CreateChunk(s)
  PROVE  SyncIInv'
<1>1. count \in [Chunks -> Nat] BY DEF SyncIInv, SyncTypes
<1>2. count' = [count EXCEPT ![Hash(s)] = IF @ = 0 THEN 1 ELSE @] BY DEF CreateChunk
<1>3. count' \in {[count EXCEPT ![Hash(s)] = @ + 1], count}
  <2>1. CASE count[Hash(s)] = 0 BY <1>1, <1>2, <2>1
  <2>2. CASE count[Hash(s)] # 0 BY <1>1, <1>2, <2>2
  <2> QED BY <2>1, <2>2
<1> QED BY <1>3, CountInv DEF CreateChunk, At1

-----------------------------------------------------------------------------
(* The theorems.                                                            *)

LEMMA SyncInit == Init => SyncIInv
<1> SUFFICES ASSUME Init PROVE SyncIInv OBVIOUS
<1> USE DEF Init
<1>1. Free \in CommitRec /\ Free.pc = "idle" /\ Free.at = 0 BY ThreeEmpty DEF Free, CommitRec, Labels
<1>2. \A s \in Slots : commit[s].pc = "idle" /\ commit[s].at = 0 BY <1>1
<1>3. commit \in [Slots -> CommitRec] BY <1>1
<1>4. SyncTypes BY <1>3 DEF SyncTypes
<1>5. OneManifest /\ RowsOK /\ Dense BY DEF OneManifest, RowsOK, Dense, Has
<1>6. RowsFilled
  <2>1. \A i \in Ids : rows[i] # None <=> i <= 0 BY SyncAssumption DEF Ids
  <2>2. 0 \in 0 .. MaxIds BY SyncAssumption
  <2> QED BY <2>1, <2>2 DEF RowsFilled
<1>7. CommitsOK /\ LinkersOK /\ ReadersOK
  BY <1>2 DEF CommitsOK, CommitOK, Working, LinkersOK, ReadersOK
<1>8. Counted
  <2> SUFFICES ASSUME NEW c \in Chunks
               PROVE  /\ IsFiniteSet(Uncounted(c)) /\ IsFiniteSet(Places(c))
                      /\ count[c] + Cardinality(Uncounted(c)) <= Cardinality(Places(c))
    BY DEF Counted
  <2>1. Uncounted(c) = {} /\ Places(c) = {} BY <1>2 DEF Uncounted, Places, Counting
  <2>2. Cardinality(Uncounted(c)) = 0 /\ Cardinality(Places(c)) = 0 BY <2>1, FS_EmptySet
  <2> QED BY <2>1, <2>2, FS_EmptySet
<1> QED BY <1>4, <1>5, <1>6, <1>7, <1>8 DEF SyncIInv

LEMMA SyncStep == SyncIInv /\ [Next]_vars => SyncIInv'
<1> SUFFICES ASSUME SyncIInv, [Next]_vars PROVE SyncIInv' OBVIOUS
<1>0. ASSUME UNCHANGED vars PROVE SyncIInv'
  <2>1. UNCHANGED <<store, commit, device>> BY <1>0 DEF vars, store
  <2>2. device' \in [Clients -> ReqClocks \cup {NewVectorClock, None}] BY <2>1 DEF SyncIInv, SyncTypes
  <2> QED BY <2>1, <2>2, DevicesInv
<1>1. ASSUME NEW d \in Clients, registerDevice(d) \/ removeDevice(d) \/ negotiate(d) PROVE SyncIInv'
  BY <1>0, <1>1, registerInv DEF negotiate, Negotiate
<1>2. ASSUME NEW c \in Chunks, push(c) PROVE SyncIInv' BY <1>2, pushInv
<1>3. ASSUME NEW s \in Slots, Commit(s) \/ applyAdd(s) \/ applyModify(s) \/ applyDelete(s) \/ SoftDelete(s)
      PROVE  SyncIInv'
  BY <1>3, CommitInv, applyAddInv, applyModifyInv, applyDeleteInv, SoftDeleteInv
<1>4. ASSUME NEW s \in Slots,
             CreateManifest(s) \/ LinkManifest(s) \/ ensureChunkRefs(s) \/ IncrementRefCount(s)
      PROVE  SyncIInv'
  BY <1>4, CreateManifestInv, LinkManifestInv, ensureChunkRefsInv, IncrementInv
<1>5. ASSUME NEW s \in Slots, CreateChunk(s) \/ StatementFails(s) \/ updateDeviceState(s) \/ CommitEnds(s)
      PROVE  SyncIInv'
  BY <1>5, CreateChunkInv, FailsInv, updateDeviceStateInv, CommitEndsInv
<1> QED BY <1>0, <1>1, <1>2, <1>3, <1>4, <1>5 DEF Next

LEMMA SyncInductive == Spec => []SyncIInv
BY SyncInit, SyncStep, PTL DEF Spec

(* The state of the engine is well typed, no row points to a manifest that   *)
(* is not there, a version of a file has one manifest however many commits   *)
(* race for it, and no chunk counts more references than there are places in *)
(* manifests naming it, for changes with any lists of hashes (ensureChunkRefs*)
(* counts a hash as often as a list has it) and whichever statements fail.   *)
THEOREM SyncCorrect == Spec => []SyncInv
<1>1. SyncIInv => SyncInv
  <2> SUFFICES ASSUME SyncIInv PROVE SyncInv OBVIOUS
  <2>1. SyncTypes /\ RowsOK /\ OneManifest /\ Counted BY DEF SyncIInv
  <2>2. \A i \in Ids : rows[i] # None =>
          /\ rows[i].path \in Paths /\ rows[i].live \in BOOLEAN
          /\ rows[i].version \in Nat \ {0}
    BY <2>1 DEF SyncTypes, Row
  <2>3. \A i \in Ids : rows[i] # None =>
          (rows[i].link # 0 => \E m \in mans : m.file = i /\ m.version = rows[i].link)
    BY <2>1 DEF RowsOK, Has
  <2>5. TypeOK BY <2>1, <2>2, <2>3 DEF SyncTypes, OneManifest, TypeOK
  <2>6. ASSUME NEW c \in Chunks PROVE count[c] <= Cardinality(Places(c))
    <3>1. /\ IsFiniteSet(Uncounted(c)) /\ IsFiniteSet(Places(c)) /\ count[c] \in Nat
          /\ count[c] + Cardinality(Uncounted(c)) <= Cardinality(Places(c))
      BY <2>1 DEF Counted, SyncTypes
    <3>2. Cardinality(Uncounted(c)) \in Nat /\ Cardinality(Places(c)) \in Nat BY <3>1, FS_CardinalityType
    <3> QED BY <3>1, <3>2
  <2>7. NeverOvercounted BY <2>6 DEF NeverOvercounted
  <2> QED BY <2>5, <2>7 DEF SyncInv
<1> QED BY <1>1, SyncInductive, PTL

(* A modify links its version only to a row that has the version it read, or *)
(* the 1 a late add put back: no commit overwrites the modification of       *)
(* another, for any number of commits at a time.                             *)
THEOREM ModifyNotLost == Spec => NoLostModify
<1>1. SyncIInv /\ [Next]_vars =>
        [\A s \in Slots :
           LinkManifest(s) /\ Head1(s).action = "modify"
           => rows[commit[s].id].version \in {commit[s].version - 1, 1}]_vars
  <2>1. SUFFICES ASSUME SyncIInv, NEW s \in Slots, commit[s].pc = "link", Head1(s).action = "modify"
                 PROVE  rows[commit[s].id].version \in {commit[s].version - 1, 1}
    BY DEF LinkManifest, At1
  <2>2. commit[s].version # 1 BY <2>1 DEF SyncIInv, CommitsOK, CommitOK
  <2>3. LinkerOK(s, commit[s].id, commit[s].version) BY <2>1 DEF SyncIInv, LinkersOK
  <2> QED BY <2>2, <2>3 DEF LinkerOK
<1> QED BY <1>1, SyncInductive, PTL DEF Spec, NoLostModify

(* Compare and Merge do what vector clocks are for, in every state and for   *)
(* any set of devices.                                                       *)
THEOREM ClocksCorrect == Spec => []ClocksExact
<1>1. ASSUME NEW v \in Clocks(0 .. 2) PROVE v \in Clocks(Nat)
  <2>1. PICK D \in SUBSET Devices : v \in [D -> 0 .. 2] BY DEF Clocks
  <2>2. v \in [D -> Nat] BY <2>1
  <2> QED BY <2>2 DEF Clocks
<1>2. ClocksExact
  <2> SUFFICES ASSUME NEW v \in Clocks(0 .. 2), NEW w \in Clocks(0 .. 2)
               PROVE  /\ Compare(v, w) = Causality(v, w)
                      /\ Seen(v, Merge(v, w)) /\ Seen(w, Merge(v, w))
                      /\ \A u \in Clocks(0 .. 2) : Seen(v, u) /\ Seen(w, u) => Seen(Merge(v, w), u)
    BY DEF ClocksExact
  <2>1. v \in Clocks(Nat) /\ w \in Clocks(Nat) BY <1>1
  <2>2. Compare(v, w) = Causality(v, w) BY <2>1, CompareIsCausality
  <2>3. /\ Seen(v, Merge(v, w)) /\ Seen(w, Merge(v, w))
        /\ \A u \in Clocks(Nat) : Seen(v, u) /\ Seen(w, u) => Seen(Merge(v, w), u)
    BY <2>1, MergeIsLeast
  <2> QED BY <1>1, <2>2, <2>3
<1> QED BY <1>2, PTL
=============================================================================

------------------------------ MODULE TreeProofs ------------------------------
(***************************************************************************)
(* Proofs about the file tree and WebDAV on it, for any names, paths,      *)
(* requests at a time and bounds: names are distinct, content stays        *)
(* reachable and counted, listings and walks of the tree are exact, copies *)
(* of folders are complete, and locks are respected.                       *)
(***************************************************************************)
EXTENDS WebDAV, FiniteSetTheorems, SequenceTheorems, NaturalsInduction, WellFoundedInduction, TLAPS

Places == Ids \cup {Root}
Item == Ids \X Row \X Places

(* The fields of a request.                                                  *)
IsJob(j) ==
  j \in [op : {j.op}, pc : {j.pc}, path : {j.path}, dest : {j.dest}, left : {j.left}, at : {j.at},
         src : {j.src}, dst : {j.dst}, name : {j.name}, kind : {j.kind}, todo : {j.todo},
         out : {j.out}, scope : {j.scope}, cut : {j.cut}]

(* The manifest of id l is there, unless its row is gone: and then for good, *)
(* as ids are not used again.                                                *)
Here(l) == l < next /\ (l \in manifests \/ ~IsRow(l))

(* A parent, unless it is none of the ids, is an id that was given out.       *)
Given(p) == p \in Ids => p < next

TreeTypes ==
  /\ file \in [Ids -> Row \cup {None}]
  /\ next \in 1 .. MaxIds + 1 /\ manifests \subseteq 1 .. next - 1
  /\ refs \in Nat
  /\ touched \in [Workers -> SUBSET Ids]
  /\ requests \in 0 .. MaxRequests

(* Rows and their parents have ids given out, and content can be reached.    *)
RowsOK ==
  \A i \in Ids : IsRow(i) =>
    i < next /\ Given(file[i].parent) /\ (file[i].link # None => Here(file[i].link))

(* Items of a copy: a row that was there, and the new parent.                *)
TodoOK(todo) ==
  /\ todo \in Seq(Item)
  /\ \A k \in DOMAIN todo : Given(todo[k][3]) /\ (todo[k][2].link # None => Here(todo[k][2].link))

(* A request that resolves a path.                                           *)
WalkOK(j) ==
  /\ j.op \in {"put", "mkcol", "delete", "get", "propfind", "lock", "copy", "move"}
  /\ j.op \in {"put", "mkcol"} => j.pc \in {"dir", "full"} /\ j.name \in Names
  /\ j.op = "put" /\ j.pc = "full" => j.dst \in Places
  /\ j.op \in {"copy", "move"} => j.pc \in {"src", "dir"} /\ j.name \in Names
  /\ j.op \in {"delete", "get", "propfind", "lock"} => j.pc = "src"
  /\ j.op = "lock" => j.name \in Tokens /\ j.path \in Paths

(* What a request has when it comes to a statement.                          *)
JobOK(j) ==
  /\ j.kind \in {"file", "folder"} /\ Given(j.dst)
  /\ j.pc \in {"dir", "full", "src"} => WalkOK(j)
  /\ j.pc \in {"lookup", "insert", "chunks", "copySource", "copyLookup", "copyRoot"} =>
       j.dst \in Places /\ j.name \in Names
  /\ j.pc \in {"chunks", "manifest"} => j.op = "put" /\ (j.src \in Ids => j.src < next)
  /\ j.pc = "link" => j.src \in Ids /\ Here(j.src)
  /\ j.pc \in {"parent", "name"} => j.op = "update"
  /\ j.pc = "parent" => j.name \in Names \cup {None}
  /\ j.pc \in {"parent", "name", "update"} => j.dst \in Places \cup {None}
  /\ j.pc = "update" => j.name \in Names
  /\ j.pc \in {"copyLookup", "copyRoot", "copyItem", "copyList"} => TodoOK(j.todo)
  /\ j.pc \in {"copyLookup", "copyRoot", "copyItem"} => j.todo # <<>>
  /\ j.pc = "copyList" => j.dst \in Places
  /\ j.pc = "lockCheck" => j.op \in {"delete", "move"} /\ (j.op = "move" => j.name \in Names)
  /\ j.pc = "lock" => j.src \in Resources /\ j.name \in Tokens

JobsOK ==
  /\ job = [w \in Workers |-> job[w]]
  /\ \A w \in Workers : IsJob(job[w]) /\ JobOK(job[w])

(* A put between its chunk and its manifest.                                 *)
Counting(j) == j.op = "put" /\ j.pc \in {"lookup", "insert", "manifest"}
Pending == {w \in Workers : Counting(job[w])}
RefsEnough == refs >= Cardinality(manifests) + Cardinality(Pending)

(* A request that has asked for the lock has found none.                     *)
Checked(j) ==
  \/ j.op \in {"delete", "move"} /\ j.pc \in {"trash", "update"}
  \/ j.op = "move" /\ j.pc = "dir"

LockRec == [token : Tokens, alive : BOOLEAN]
LockTypes ==
  /\ \A k \in DOMAIN locks : k \in Resources /\ locks[k] \in LockRec
  /\ held = [w \in Workers |-> held[w]]
  /\ \A w \in Workers : \A k \in held[w] : IsLocked(k)

ChecksOK == \A w \in Workers : Checked(job[w]) => Resource(job[w].src) \notin held[w]

TreeIInv ==
  TreeTypes /\ NamesDistinct /\ RowsOK /\ JobsOK /\ RefsEnough /\ LockTypes /\ ChecksOK


-----------------------------------------------------------------------------
(* What a step keeps.                                                       *)

(* Ids only grow, a row appears at a new id only, and a manifest goes only   *)
(* with its row.                                                             *)
Grows ==
  /\ next' \in Nat /\ next <= next'
  /\ \A l \in Ids : l < next /\ file'[l] # None => file[l] # None
  /\ \A l \in Ids : l \in manifests \ manifests' => file'[l] = None

LEMMA HereKept ==
  ASSUME TreeTypes, Grows, NEW l \in Ids, Here(l)
  PROVE  Here(l)'
<1>1. next \in Nat /\ l \in Nat BY TreeAssumption DEF TreeTypes, Ids
<1>2. l < next /\ l < next' BY <1>1 DEF Here, Grows
<1>3. CASE l \in manifests'
  BY <1>2, <1>3 DEF Here
<1>4. CASE l \notin manifests' /\ l \in manifests
  BY <1>2, <1>4 DEF Here, Grows, IsRow
<1>5. CASE l \notin manifests
  <2>1. file[l] = None BY <1>5 DEF Here, IsRow
  <2> QED BY <1>2, <2>1 DEF Here, Grows, IsRow
<1> QED BY <1>3, <1>4, <1>5

LEMMA GivenKept ==
  ASSUME TreeTypes, Grows, NEW p, Given(p)
  PROVE  Given(p)'
<1> SUFFICES ASSUME p \in Ids PROVE p < next' BY DEF Given
<1>1. p \in Nat /\ next \in Nat /\ next' \in Nat /\ next <= next' /\ p < next
  BY TreeAssumption DEF Given, Grows, Ids, TreeTypes
<1> QED BY <1>1

(* An id that was given out stays one, and the next one becomes one.         *)
LEMMA GivenMore ==
  ASSUME TreeTypes, next' = next + 1, NEW p, Given(p) \/ p = next
  PROVE  Given(p)'
<1>1. next \in Nat /\ next' = next + 1 BY TreeAssumption DEF TreeTypes
<1> SUFFICES ASSUME p \in Ids PROVE p < next' BY DEF Given
<1>2. p \in Nat BY DEF Ids
<1> QED BY <1>1, <1>2 DEF Given

LEMMA GivenRoot == Given(Root) /\ Given(Root)' /\ Given(None) /\ Given(None)'
BY TreeAssumption DEF Given, Ids

LEMMA TodoKept ==
  ASSUME TreeTypes, Grows, NEW todo, TodoOK(todo)
  PROVE  TodoOK(todo)'
<1>1. todo \in Seq(Item) BY DEF TodoOK
<1>2. ASSUME NEW k \in DOMAIN todo, todo[k][2].link # None PROVE Here(todo[k][2].link)'
  <2>1. todo[k] \in Item BY <1>1
  <2>2. todo[k][2] \in Row BY <2>1 DEF Item
  <2>3. todo[k][2].link \in Ids BY <1>2, <2>2 DEF Row
  <2>4. Here(todo[k][2].link) BY <1>2 DEF TodoOK
  <2> QED BY <2>3, <2>4, HereKept
<1>3. \A k \in DOMAIN todo : Given(todo[k][3])' BY GivenKept DEF TodoOK
<1> QED BY <1>1, <1>2, <1>3 DEF TodoOK

LEMMA JobKept ==
  ASSUME TreeTypes, Grows, NEW j, JobOK(j)
  PROVE  JobOK(j)'
<1>1. j.pc \in {"copyLookup", "copyRoot", "copyItem", "copyList"} => TodoOK(j.todo)'
  <2>1. SUFFICES ASSUME j.pc \in {"copyLookup", "copyRoot", "copyItem", "copyList"} PROVE TodoOK(j.todo)' OBVIOUS
  <2>2. TodoOK(j.todo) BY <2>1 DEF JobOK
  <2> QED BY <2>2, TodoKept
<1>2. j.pc = "link" => j.src \in Ids /\ Here(j.src)'
  <2>1. SUFFICES ASSUME j.pc = "link" PROVE j.src \in Ids /\ Here(j.src)' OBVIOUS
  <2>2. j.src \in Ids /\ Here(j.src) BY <2>1 DEF JobOK
  <2> QED BY <2>2, HereKept
<1>3. j.pc \in {"chunks", "manifest"} => (j.src \in Ids => j.src < next')
  <2>1. SUFFICES ASSUME j.pc \in {"chunks", "manifest"}, j.src \in Ids PROVE j.src < next' OBVIOUS
  <2>2. j.src < next BY <2>1 DEF JobOK
  <2>3. j.src \in Nat /\ next \in Nat /\ next' \in Nat /\ next <= next'
    BY <2>1, TreeAssumption DEF Ids, TreeTypes, Grows
  <2> QED BY <2>2, <2>3
<1>4. Given(j.dst)' BY GivenKept DEF JobOK
<1> QED BY <1>1, <1>2, <1>3, <1>4 DEF JobOK, WalkOK, Resources, Places, Ids

(* The request of worker w becomes j.                                        *)
Became(w, j) == job' = [job EXCEPT ![w] = j]

LEMMA JobsKept ==
  ASSUME TreeTypes, JobsOK, Grows, NEW w \in Workers, NEW j, Became(w, j), IsJob(j), JobOK(j)'
  PROVE  JobsOK'
<1>1. /\ job' = [v \in Workers |-> job'[v]] /\ job'[w] = j
      /\ \A v \in Workers \ {w} : job'[v] = job[v]
  BY DEF JobsOK, Became
<1>2. ASSUME NEW v \in Workers PROVE IsJob(job'[v]) /\ JobOK(job[v])'
  <2>1. PICK k : k = job'[v] OBVIOUS
  <2>2. IsJob(k) /\ JobOK(k)'
    <3>1. CASE v = w BY <1>1, <2>1, <3>1
    <3>2. CASE v # w
      <4>1. k = job[v] BY <1>1, <2>1, <3>2
      <4>2. IsJob(k) /\ JobOK(k) BY <4>1 DEF JobsOK
      <4> QED BY <4>2, JobKept
    <3> QED BY <3>1, <3>2
  <2>3. IsJob(job'[v]) BY <2>1, <2>2
  <2>4. JobOK(job[v])' BY <2>1, <2>2 DEF JobOK, WalkOK, TodoOK, Here, Given
  <2> QED BY <2>3, <2>4
<1>3. \A v \in Workers : IsJob(job[v])' BY <1>2 DEF IsJob
<1> QED BY <1>1, <1>2, <1>3 DEF JobsOK

LEMMA IdleOK == IsJob(Idle) /\ JobOK(Idle) /\ JobOK(Idle)' /\ ~Counting(Idle) /\ ~Checked(Idle)
<1>1. IsJob(Idle) BY DEF IsJob, Idle
<1>2. Idle.pc = "idle" /\ Idle.kind = "file" /\ Idle.op = "none" /\ Idle.dst = Root BY DEF Idle
<1>3. JobOK(Idle) /\ JobOK(Idle)' BY <1>2, GivenRoot DEF JobOK
<1>4. ~Counting(Idle) /\ ~Checked(Idle) BY <1>2 DEF Counting, Checked
<1> QED BY <1>1, <1>3, <1>4

(* References, manifests and requests that have counted one.                 *)
CountStep(w, j) ==
  \/ /\ refs' = refs /\ manifests' \subseteq manifests
     /\ Counting(j) => Counting(job[w])
  \/ refs' = refs + 1 /\ manifests' = manifests
  \/ /\ refs' = refs /\ \E i \in Ids : manifests' = manifests \cup {i}
     /\ Counting(job[w]) /\ ~Counting(j)

LEMMA RefsKept ==
  ASSUME TreeTypes, JobsOK, RefsEnough, NEW w \in Workers, NEW j, Became(w, j), CountStep(w, j)
  PROVE  RefsEnough'
<1>1. /\ job'[w] = j
      /\ \A v \in Workers \ {w} : job'[v] = job[v]
  BY DEF JobsOK, Became
<1>2. \A v \in Workers : v # w => (v \in Pending' <=> v \in Pending)
  BY <1>1 DEF Pending, Counting
<1>3. (w \in Pending <=> Counting(job[w])) /\ (w \in Pending' <=> Counting(j))
  BY <1>1 DEF Pending, Counting
<1>4. Pending \subseteq Workers /\ Pending' \subseteq Workers BY DEF Pending
<1>5. /\ IsFiniteSet(Pending) /\ IsFiniteSet(Pending')
      /\ Cardinality(Pending) \in Nat /\ Cardinality(Pending') \in Nat
  BY <1>4, TreeAssumption, FS_Subset, FS_CardinalityType
<1>6. IsFiniteSet(manifests) /\ Cardinality(manifests) \in Nat
  <2>1. next - 1 \in Int BY TreeAssumption DEF TreeTypes
  <2>2. IsFiniteSet(1 .. next - 1) BY <2>1, FS_Interval
  <2> QED BY <2>2, FS_Subset, FS_CardinalityType DEF TreeTypes
<1>7. refs \in Nat /\ refs >= Cardinality(manifests) + Cardinality(Pending) BY DEF TreeTypes, RefsEnough
<1>8. CASE /\ refs' = refs /\ manifests' \subseteq manifests
           /\ Counting(j) => Counting(job[w])
  <2>1. Pending' \subseteq Pending BY <1>2, <1>3, <1>4, <1>8
  <2>2. Cardinality(Pending') <= Cardinality(Pending) BY <1>5, <2>1, FS_Subset
  <2>3. Cardinality(manifests') <= Cardinality(manifests) /\ Cardinality(manifests') \in Nat
    BY <1>6, <1>8, FS_Subset, FS_CardinalityType
  <2>4. refs' = refs BY <1>8
  <2> QED BY <1>5, <1>6, <1>7, <2>2, <2>3, <2>4 DEF RefsEnough
<1>9. CASE refs' = refs + 1 /\ manifests' = manifests
  <2>1. Pending' \subseteq Pending \cup {w} BY <1>2, <1>4
  <2>2. IsFiniteSet(Pending \cup {w}) /\ Cardinality(Pending \cup {w}) \in Nat
        /\ Cardinality(Pending \cup {w}) <= Cardinality(Pending) + 1
    <3>1. IsFiniteSet(Pending \cup {w}) /\ Cardinality(Pending \cup {w}) =
            IF w \in Pending THEN Cardinality(Pending) ELSE Cardinality(Pending) + 1
      BY <1>5, FS_AddElement
    <3> QED BY <1>5, <3>1
  <2>3. Cardinality(Pending') <= Cardinality(Pending \cup {w}) BY <2>1, <2>2, FS_Subset
  <2>4. Cardinality(Pending') <= Cardinality(Pending) + 1 BY <1>5, <2>2, <2>3
  <2> QED BY <1>5, <1>6, <1>7, <1>9, <2>4 DEF RefsEnough
<1>10. CASE /\ refs' = refs /\ \E i \in Ids : manifests' = manifests \cup {i}
            /\ Counting(job[w]) /\ ~Counting(j)
  <2>1. Pending' = Pending \ {w} /\ w \in Pending BY <1>2, <1>3, <1>4, <1>10
  <2>2. Cardinality(Pending') = Cardinality(Pending) - 1 BY <1>5, <2>1, FS_RemoveElement
  <2>3. PICK i \in Ids : manifests' = manifests \cup {i} BY <1>10
  <2>4. Cardinality(manifests') = IF i \in manifests THEN Cardinality(manifests) ELSE Cardinality(manifests) + 1
    BY <1>6, <2>3, FS_AddElement
  <2>5. Cardinality(manifests') \in Nat /\ Cardinality(manifests') <= Cardinality(manifests) + 1
    BY <1>6, <2>4
  <2> QED BY <1>5, <1>6, <1>7, <1>10, <2>2, <2>5 DEF RefsEnough
<1> QED BY <1>8, <1>9, <1>10 DEF CountStep

(* Locks as they are, or the request of w is new and sees those there are.   *)
LocksStep(w, j) ==
  /\ UNCHANGED locks
  /\ \/ UNCHANGED held /\ (Checked(j) => Resource(j.src) \notin held[w])
     \/ held' = [held EXCEPT ![w] = {k \in DOMAIN locks : IsLocked(k)}] /\ ~Checked(j)

LEMMA LocksKept ==
  ASSUME JobsOK, LockTypes, ChecksOK, NEW w \in Workers, NEW j, Became(w, j), LocksStep(w, j)
  PROVE  LockTypes' /\ ChecksOK'
<1>1. job'[w] = j /\ \A v \in Workers \ {w} : job'[v] = job[v] BY DEF JobsOK, Became
<1>2. \A v \in Workers : held'[v] = held[v] \/ (v = w /\ ~Checked(j) /\ held'[v] = {k \in DOMAIN locks : IsLocked(k)})
  BY DEF LockTypes, LocksStep
<1>3. held' = [v \in Workers |-> held'[v]] BY DEF LockTypes, LocksStep
<1>4. LockTypes'
  <2>1. \A v \in Workers : \A k \in held'[v] : IsLocked(k) BY <1>2 DEF LockTypes
  <2> QED BY <1>3, <2>1 DEF LockTypes, LocksStep, IsLocked
<1>5. ASSUME NEW v \in Workers, Checked(job'[v]) PROVE Resource(job'[v].src) \notin held'[v]
  <2>1. CASE v = w BY <1>1, <1>2, <1>5, <2>1 DEF LocksStep
  <2>2. CASE v # w
    <3>1. job'[v] = job[v] /\ held'[v] = held[v] BY <1>1, <1>2, <2>2
    <3> QED BY <1>5, <3>1 DEF ChecksOK
  <2> QED BY <2>1, <2>2
<1>6. ChecksOK' BY <1>5 DEF ChecksOK, Checked, Resource
<1> QED BY <1>4, <1>6

(* A step that keeps the table, and the others' requests as they are.        *)
LEMMA Advanced ==
  ASSUME TreeIInv, NEW w \in Workers, NEW j, Became(w, j), IsJob(j), JobOK(j)',
         Grows, TreeTypes', NamesDistinct', RowsOK', CountStep(w, j), LocksStep(w, j)
  PROVE  TreeIInv'
<1>1. JobsOK' BY JobsKept DEF TreeIInv
<1>2. RefsEnough' BY RefsKept DEF TreeIInv
<1>3. LockTypes' /\ ChecksOK' BY LocksKept DEF TreeIInv
<1> QED BY <1>1, <1>2, <1>3 DEF TreeIInv

(* A step that changes nothing but the request.                              *)
LEMMA Quiet ==
  ASSUME TreeIInv, NEW w \in Workers, NEW j, Became(w, j), IsJob(j), JobOK(j),
         Counting(j) => Counting(job[w]), LocksStep(w, j), touched' \in [Workers -> SUBSET Ids],
         requests' \in 0 .. MaxRequests, UNCHANGED <<file, next, manifests, refs>>
  PROVE  TreeIInv'
<1>1. Grows BY TreeAssumption DEF TreeIInv, TreeTypes, Grows
<1>2. JobOK(j)' BY <1>1, JobKept DEF TreeIInv
<1>3. TreeTypes' BY DEF TreeIInv, TreeTypes
<1>4. NamesDistinct' BY DEF TreeIInv, NamesDistinct, IsRow
<1>5. RowsOK' BY DEF TreeIInv, RowsOK, IsRow, Here, Given
<1>6. CountStep(w, j) BY DEF CountStep
<1> QED BY <1>1, <1>2, <1>3, <1>4, <1>5, <1>6, Advanced

-----------------------------------------------------------------------------
(* The files table.                                                         *)

TableKept ==
  /\ Grows /\ NamesDistinct' /\ RowsOK'
  /\ file' \in [Ids -> Row \cup {None}]
  /\ next' \in 1 .. MaxIds + 1 /\ manifests' \subseteq 1 .. next' - 1

LEMMA TableSame ==
  ASSUME TreeTypes, NamesDistinct, RowsOK, UNCHANGED <<file, next, manifests>>
  PROVE  TableKept
<1>1. Grows BY TreeAssumption DEF TreeTypes, Grows
<1>2. NamesDistinct' BY DEF NamesDistinct, IsRow
<1>3. RowsOK' BY DEF RowsOK, IsRow, Here, Given
<1> QED BY <1>1, <1>2, <1>3 DEF TableKept, TreeTypes

(* A row at the next id, under a name that is free.                          *)
LEMMA Inserted ==
  ASSUME TreeTypes, NamesDistinct, RowsOK, NEW r \in Row, next \in Ids,
         file' = [file EXCEPT ![next] = r], next' = next + 1, manifests' = manifests,
         NameFree(next, r.parent, r.name), Given(r.parent), r.link # None => Here(r.link)
  PROVE  TableKept
<1>1. next \in Nat /\ next <= MaxIds /\ 1 <= next /\ next' = next + 1 BY TreeAssumption DEF Ids
<1>2. \A i \in Ids : file'[i] = IF i = next THEN r ELSE file[i] BY DEF TreeTypes
<1>3. Grows
  <2>1. \A l \in Ids : l < next => l # next BY <1>1 DEF Ids
  <2> QED BY <1>1, <1>2, <2>1 DEF Grows
<1>4. file' \in [Ids -> Row \cup {None}] BY DEF TreeTypes
<1>5. next' \in 1 .. MaxIds + 1 /\ manifests' \subseteq 1 .. next' - 1
  <2>1. manifests \subseteq 1 .. next - 1 BY DEF TreeTypes
  <2>2. 1 .. next - 1 \subseteq 1 .. next' - 1 BY <1>1
  <2> QED BY <1>1, <2>1, <2>2, TreeAssumption
<1>6. NamesDistinct'
  <2> SUFFICES ASSUME NEW i \in Ids, NEW k \in Ids, file'[i] # None, file'[k] # None, i # k,
                      file'[i].parent # Root, file'[i].parent = file'[k].parent
               PROVE  file'[i].name # file'[k].name
    BY DEF NamesDistinct, IsRow
  <2>1. CASE i = next
    <3>1. file'[i] = r /\ file'[k] = file[k] BY <1>2, <2>1
    <3> QED BY <2>1, <3>1 DEF NameFree, IsRow
  <2>2. CASE k = next
    <3>1. file'[k] = r /\ file'[i] = file[i] BY <1>2, <2>2
    <3> QED BY <2>2, <3>1 DEF NameFree, IsRow
  <2>3. CASE i # next /\ k # next
    <3>1. file'[k] = file[k] /\ file'[i] = file[i] BY <1>2, <2>3
    <3> QED BY <3>1 DEF NamesDistinct, IsRow
  <2> QED BY <2>1, <2>2, <2>3
<1>7. RowsOK'
  <2> SUFFICES ASSUME NEW i \in Ids, file'[i] # None
               PROVE  i < next' /\ Given(file[i].parent)' /\ (file'[i].link # None => Here(file[i].link)')
    BY DEF RowsOK, IsRow
  <2>1. PICK l : l = file'[i].link OBVIOUS
  <2>2. i < next' /\ Given(file'[i].parent) /\ (l # None => Here(l))
    <3>1. CASE i = next BY <1>1, <1>2, <2>1, <3>1
    <3>2. CASE i # next
      <4>1. file'[i] = file[i] BY <1>2, <3>2
      <4>2. i < next /\ Given(file'[i].parent) /\ (l # None => Here(l)) BY <2>1, <4>1 DEF RowsOK, IsRow
      <4>3. i < next' BY <1>1, <4>2 DEF Ids
      <4> QED BY <4>2, <4>3
    <3> QED BY <3>1, <3>2
  <2>3. l # None => l \in Ids
    <3>1. file'[i] \in Row BY <1>4
    <3> QED BY <2>1, <3>1 DEF Row
  <2>4. l # None => Here(l)' BY <1>3, <2>2, <2>3, HereKept
  <2>5. PICK p : p = file'[i].parent OBVIOUS
  <2>6. Given(p)' BY <1>3, <2>2, <2>5, GivenKept
  <2> QED BY <2>1, <2>2, <2>4, <2>5, <2>6 DEF Here, Given
<1> QED BY <1>3, <1>4, <1>5, <1>6, <1>7 DEF TableKept

(* A row that is there becomes r.                                            *)
LEMMA Replaced ==
  ASSUME TreeTypes, NamesDistinct, RowsOK, NEW i \in Ids, file[i] # None, NEW r \in Row,
         file' = [file EXCEPT ![i] = r], UNCHANGED <<next, manifests>>,
         NameFree(i, r.parent, r.name) \/ (r.parent = file[i].parent /\ r.name = file[i].name),
         r.link = file[i].link \/ Here(r.link), Given(r.parent)
  PROVE  TableKept
<1>1. \A k \in Ids : file'[k] = IF k = i THEN r ELSE file[k] BY DEF TreeTypes
<1>2. Grows BY <1>1, TreeAssumption DEF Grows, TreeTypes
<1>3. file' \in [Ids -> Row \cup {None}] BY DEF TreeTypes
<1>4. NamesDistinct'
  <2> SUFFICES ASSUME NEW m \in Ids, NEW k \in Ids, file'[m] # None, file'[k] # None, m # k,
                      file'[m].parent # Root, file'[m].parent = file'[k].parent
               PROVE  file'[m].name # file'[k].name
    BY DEF NamesDistinct, IsRow
  <2>1. CASE m = i
    <3>1. file'[m] = r /\ file'[k] = file[k] BY <1>1, <2>1
    <3> QED BY <2>1, <3>1 DEF NameFree, IsRow, NamesDistinct
  <2>2. CASE k = i
    <3>1. file'[k] = r /\ file'[m] = file[m] BY <1>1, <2>2
    <3> QED BY <2>2, <3>1 DEF NameFree, IsRow, NamesDistinct
  <2>3. CASE m # i /\ k # i
    <3>1. file'[k] = file[k] /\ file'[m] = file[m] BY <1>1, <2>3
    <3> QED BY <3>1 DEF NamesDistinct, IsRow
  <2> QED BY <2>1, <2>2, <2>3
<1>5. RowsOK'
  <2> SUFFICES ASSUME NEW k \in Ids, file'[k] # None
               PROVE  k < next' /\ Given(file[k].parent)' /\ (file'[k].link # None => Here(file[k].link)')
    BY DEF RowsOK, IsRow
  <2>1. PICK l : l = file'[k].link OBVIOUS
  <2>2. k < next /\ Given(file'[k].parent) /\ (l # None => Here(l)) BY <1>1, <2>1 DEF RowsOK, IsRow
  <2>3. l # None => l \in Ids
    <3>1. file'[k] \in Row BY <1>3
    <3> QED BY <2>1, <3>1 DEF Row
  <2>4. l # None => Here(l)' BY <1>2, <2>2, <2>3, HereKept
  <2>5. PICK p : p = file'[k].parent OBVIOUS
  <2>6. Given(p)' BY <1>2, <2>2, <2>5, GivenKept
  <2> QED BY <2>1, <2>2, <2>4, <2>5, <2>6 DEF Here, Given
<1> QED BY <1>2, <1>3, <1>4, <1>5 DEF TableKept, TreeTypes

(* Rows go; manifests go only with them.                                     *)
LEMMA Removed ==
  ASSUME TreeTypes, NamesDistinct, RowsOK, NEW gone, UNCHANGED next,
         file' = [i \in Ids |-> IF i \in gone THEN None ELSE file[i]],
         manifests' = manifests \/ manifests' = manifests \ gone
  PROVE  TableKept
<1>1. \A k \in Ids : file'[k] = IF k \in gone THEN None ELSE file[k] OBVIOUS
<1>2. Grows BY <1>1, TreeAssumption DEF Grows, TreeTypes
<1>3. file' \in [Ids -> Row \cup {None}] BY DEF TreeTypes
<1>4. \A k \in Ids : file'[k] # None => file'[k] = file[k] BY <1>1
<1>5. NamesDistinct' BY <1>4 DEF NamesDistinct, IsRow
<1>6. RowsOK'
  <2> SUFFICES ASSUME NEW k \in Ids, file'[k] # None
               PROVE  k < next' /\ Given(file[k].parent)' /\ (file'[k].link # None => Here(file[k].link)')
    BY DEF RowsOK, IsRow
  <2>1. PICK l : l = file'[k].link OBVIOUS
  <2>2. k < next /\ Given(file'[k].parent) /\ (l # None => Here(l)) BY <1>4, <2>1 DEF RowsOK, IsRow
  <2>3. l # None => l \in Ids
    <3>1. file'[k] \in Row BY <1>3
    <3> QED BY <2>1, <3>1 DEF Row
  <2>4. l # None => Here(l)' BY <1>2, <2>2, <2>3, HereKept
  <2>5. PICK p : p = file'[k].parent OBVIOUS
  <2>6. Given(p)' BY <1>2, <2>2, <2>5, GivenKept
  <2> QED BY <2>1, <2>2, <2>4, <2>5, <2>6 DEF Here, Given
<1>7. manifests' \subseteq 1 .. next - 1 BY DEF TreeTypes
<1> QED BY <1>2, <1>3, <1>5, <1>6, <1>7 DEF TableKept, TreeTypes

(* A statement on the table ends the request.                                *)
LEMMA Written ==
  ASSUME TreeIInv, NEW w \in Workers, TableKept, Write(w, file'), Finish(w),
         manifests' \subseteq manifests, UNCHANGED <<refs, requests, locks, held>>
  PROVE  TreeIInv'
<1>1. PICK j : j = Idle OBVIOUS
<1>2. Became(w, j) BY <1>1 DEF Finish, Became
<1>3. IsJob(j) /\ JobOK(j)' /\ ~Counting(j) /\ ~Checked(j) BY <1>1, IdleOK
<1>4. CountStep(w, j) /\ LocksStep(w, j) BY <1>3 DEF CountStep, LocksStep
<1>5. touched' \in [Workers -> SUBSET Ids] BY DEF Write, TreeIInv, TreeTypes
<1>6. TreeTypes' BY <1>5 DEF TableKept, TreeIInv, TreeTypes
<1> QED BY <1>2, <1>3, <1>4, <1>6, Advanced DEF TableKept

(* INSERT: the row is created, and the request goes on as d; or it ends.     *)
LEMMA Created ==
  ASSUME TreeIInv, NEW w \in Workers, NEW r \in Row, NEW d, CreateFile(w, r, d, Idle),
         Given(r.parent), r.link # None => Here(r.link), IsJob(d), next \in Ids /\ next' = next + 1 /\ Grows => JobOK(d)',
         Counting(d) => Counting(job[w]), ~Checked(d), UNCHANGED <<manifests, refs, requests, locks, held>>
  PROVE  TreeIInv'
<1>1. TreeTypes /\ NamesDistinct /\ RowsOK BY DEF TreeIInv
<1>2. \/ /\ NameFree(next, r.parent, r.name) /\ next \in Ids
         /\ Write(w, [file EXCEPT ![next] = r]) /\ next' = next + 1 /\ Became(w, d)
      \/ Became(w, Idle) /\ UNCHANGED <<file, next, touched>>
  BY DEF CreateFile, Became
<1>3. CASE /\ NameFree(next, r.parent, r.name) /\ next \in Ids
           /\ Write(w, [file EXCEPT ![next] = r]) /\ next' = next + 1 /\ Became(w, d)
  <2>1. file' = [file EXCEPT ![next] = r] BY <1>3 DEF Write
  <2>2. TableKept BY <1>1, <1>3, <2>1, Inserted
  <2>3. touched' \in [Workers -> SUBSET Ids] BY <1>1, <1>3 DEF Write, TreeTypes
  <2>4. TreeTypes' BY <1>1, <2>2, <2>3 DEF TableKept, TreeTypes
  <2>5. JobOK(d)' BY <1>3, <2>2 DEF TableKept
  <2>6. CountStep(w, d) /\ LocksStep(w, d) BY DEF CountStep, LocksStep
  <2> QED BY <1>3, <2>2, <2>4, <2>5, <2>6, Advanced DEF TableKept
<1>4. CASE Became(w, Idle) /\ UNCHANGED <<file, next, touched>>
  <2>1. PICK j : j = Idle OBVIOUS
  <2>2. IsJob(j) /\ JobOK(j) /\ ~Counting(j) /\ ~Checked(j) /\ Became(w, j) BY <1>4, <2>1, IdleOK
  <2>3. LocksStep(w, j) BY <2>2 DEF LocksStep
  <2>4. touched' \in [Workers -> SUBSET Ids] /\ requests' \in 0 .. MaxRequests BY <1>1, <1>4 DEF TreeTypes
  <2> QED BY <1>4, <2>2, <2>3, <2>4, Quiet
<1> QED BY <1>2, <1>3, <1>4

(* The request ends and nothing else changes.                                *)
LEMMA Ended ==
  ASSUME TreeIInv, NEW w \in Workers, Finish(w),
         UNCHANGED <<file, next, manifests, refs, touched, requests, locks, held>>
  PROVE  TreeIInv'
<1>1. PICK j : j = Idle OBVIOUS
<1>2. IsJob(j) /\ JobOK(j) /\ ~Counting(j) /\ ~Checked(j) BY <1>1, IdleOK
<1>3. Became(w, j) BY <1>1 DEF Finish, Became
<1>4. LocksStep(w, j) BY <1>2 DEF LocksStep
<1>5. touched' \in [Workers -> SUBSET Ids] /\ requests' \in 0 .. MaxRequests BY DEF TreeIInv, TreeTypes
<1> QED BY <1>2, <1>3, <1>4, <1>5, Quiet

(* A request arrives.                                                        *)
LEMMA Arrived ==
  ASSUME TreeIInv, NEW w \in Workers, NEW j, Arrive(w, j), IsJob(j), JobOK(j), ~Counting(j), ~Checked(j),
         UNCHANGED locks,
         UNCHANGED held \/ held' = [held EXCEPT ![w] = {k \in DOMAIN locks : IsLocked(k)}]
  PROVE  TreeIInv'
<1>1. Became(w, j) BY DEF Arrive, Became
<1>2. LocksStep(w, j) BY DEF LocksStep
<1>3. touched' \in [Workers -> SUBSET Ids] BY DEF TreeIInv, TreeTypes, Arrive
<1>4. requests' \in 0 .. MaxRequests BY TreeAssumption DEF TreeIInv, TreeTypes, Arrive
<1> QED BY <1>1, <1>2, <1>3, <1>4, Quiet DEF Arrive

-----------------------------------------------------------------------------
(* Listings.                                                                *)

Listed(p) == {i \in Ids : Live(i) /\ file[i].parent = p}
Rank(p, i) == Cardinality({j \in Listed(p) : Before(j, i)})

LEMMA BeforeOrder ==
  ASSUME TreeTypes, NEW p
  PROVE  /\ \A i \in Listed(p) : ~Before(i, i)
         /\ \A i, j \in Listed(p) : i # j => Before(i, j) \/ Before(j, i)
         /\ \A i, j, k \in Listed(p) : Before(i, j) /\ Before(j, k) => Before(i, k)
<1>1. \A i \in Listed(p) : i \in Nat /\ file[i].name \in Nat /\ file[i].kind \in {"file", "folder"}
  <2> SUFFICES ASSUME NEW i \in Listed(p)
               PROVE  i \in Nat /\ file[i].name \in Nat /\ file[i].kind \in {"file", "folder"}
    OBVIOUS
  <2>1. i \in Ids /\ file[i] \in Row BY DEF Listed, Live, IsRow, TreeTypes
  <2>2. i \in Nat BY <2>1, TreeAssumption DEF Ids
  <2>3. file[i].name \in Names /\ file[i].kind \in {"file", "folder"} BY <2>1 DEF Row
  <2> QED BY <2>2, <2>3, TreeAssumption
<1>2. ASSUME NEW i \in Listed(p) PROVE ~Before(i, i) BY <1>1 DEF Before
<1>3. ASSUME NEW i \in Listed(p), NEW j \in Listed(p), i # j PROVE Before(i, j) \/ Before(j, i)
  BY <1>1, <1>3 DEF Before
<1>4. ASSUME NEW i \in Listed(p), NEW j \in Listed(p), NEW k \in Listed(p), Before(i, j), Before(j, k)
      PROVE  Before(i, k)
  BY <1>1, <1>4 DEF Before
<1> QED BY <1>2, <1>3, <1>4

LEMMA RankOrder ==
  ASSUME TreeTypes, NEW p, NEW i \in Listed(p), NEW j \in Listed(p), Before(i, j)
  PROVE  Rank(p, i) < Rank(p, j)
<1> DEFINE A == {k \in Listed(p) : Before(k, i)}
           B == {k \in Listed(p) : Before(k, j)}
<1>1. IsFiniteSet(Ids) BY TreeAssumption, FS_Interval DEF Ids
<1>2. IsFiniteSet(Listed(p)) BY <1>1, FS_Subset DEF Listed
<1>3. IsFiniteSet(A) /\ IsFiniteSet(B) BY <1>2, FS_Subset
<1>4. A \subseteq B /\ i \in B /\ i \notin A BY BeforeOrder
<1>5. A # B BY <1>4
<1>6. Rank(p, i) = Cardinality(A) /\ Rank(p, j) = Cardinality(B) BY DEF Rank
<1> HIDE DEF A, B
<1>7. Cardinality(A) <= Cardinality(B) /\ Cardinality(A) # Cardinality(B) BY <1>3, <1>4, <1>5, FS_Subset
<1>8. Cardinality(A) \in Nat /\ Cardinality(B) \in Nat BY <1>3, FS_CardinalityType
<1> QED BY <1>6, <1>7, <1>8

(* Every place of the listing is that of one entry.                          *)
LEMMA RankOnto ==
  ASSUME TreeTypes, NEW p, NEW k \in 1 .. Cardinality(Listed(p))
  PROVE  \E i \in Listed(p) : Rank(p, i) = k - 1
<1> DEFINE S == Listed(p)
           n == Cardinality(S)
           f == [i \in S |-> Rank(p, i)]
<1>1. IsFiniteSet(Ids) BY TreeAssumption, FS_Interval DEF Ids
<1>2. IsFiniteSet(S) BY <1>1, FS_Subset DEF Listed
<1>3. n \in Nat BY <1>2, FS_CardinalityType
<1>4. ASSUME NEW i \in S PROVE Rank(p, i) \in 0 .. n - 1
  <2> DEFINE A == {j \in S : Before(j, i)}
  <2>1. A \subseteq S /\ i \notin A BY BeforeOrder
  <2>2. A # S BY <2>1
  <2>3. Rank(p, i) = Cardinality(A) BY DEF Rank
  <2> HIDE DEF A, S
  <2>4. IsFiniteSet(A) /\ Cardinality(A) <= n /\ Cardinality(A) # n BY <1>2, <2>1, <2>2, FS_Subset
  <2>5. Cardinality(A) \in Nat BY <2>4, FS_CardinalityType
  <2> HIDE DEF n
  <2> QED BY <1>3, <2>3, <2>4, <2>5
<1>5. \A i, j \in S : Rank(p, i) = Rank(p, j) => i = j
  <2> SUFFICES ASSUME NEW i \in S, NEW j \in S, i # j PROVE Rank(p, i) # Rank(p, j) OBVIOUS
  <2>1. Rank(p, i) \in Int /\ Rank(p, j) \in Int BY <1>3, <1>4
  <2>2. Rank(p, i) < Rank(p, j) \/ Rank(p, j) < Rank(p, i) BY BeforeOrder, RankOrder
  <2> QED BY <2>1, <2>2
<1>6. f \in [S -> 0 .. n - 1] /\ IsInjective(f) BY <1>4, <1>5 DEF IsInjective
<1>7. f \in Injection(S, 0 .. n - 1) BY <1>6 DEF Injection
<1>8. IsFiniteSet(0 .. n - 1) /\ Cardinality(0 .. n - 1) = n
  <2> HIDE DEF n
  <2>1. n - 1 \in Int /\ 0 \in Int BY <1>3
  <2>2. IsFiniteSet(0 .. n - 1) /\ Cardinality(0 .. n - 1) = IF 0 > n - 1 THEN 0 ELSE n - 1 - 0 + 1
    BY <2>1, FS_Interval
  <2> QED BY <1>3, <2>2
<1>9. f \in Surjection(S, 0 .. n - 1)
  <2>1. Cardinality(S) = Cardinality(0 .. n - 1) BY <1>8
  <2> HIDE DEF f, S, n
  <2> QED BY <1>7, <1>8, <2>1, FS_Injection
<1>10. k - 1 \in 0 .. n - 1 BY <1>3
<1>11. \E i \in S : f[i] = k - 1 BY <1>9, <1>10 DEF Surjection
<1> QED BY <1>11

(* ListDirectory answers every live entry of the folder exactly once, in the *)
(* order of the query, whatever the table holds.                             *)
THEOREM ListingExact ==
  ASSUME TreeTypes, NEW p
  PROVE  LET s == ListDirectory(p)
         IN  /\ s \in Seq(Listed(p)) /\ Len(s) = Cardinality(Listed(p))
             /\ \A k, l \in DOMAIN s : k < l => s[k] # s[l] /\ Before(s[k], s[l])
             /\ \A i \in Listed(p) : \E k \in DOMAIN s : s[k] = i
<1> DEFINE S == Listed(p)
           n == Cardinality(S)
           s == ListDirectory(p)
<1>1. IsFiniteSet(Ids) BY TreeAssumption, FS_Interval DEF Ids
<1>2. IsFiniteSet(S) BY <1>1, FS_Subset DEF Listed
<1>3. n \in Nat BY <1>2, FS_CardinalityType
<1>4. s = [k \in 1 .. n |-> CHOOSE i \in S : Rank(p, i) = k - 1]
  BY DEF ListDirectory, Rank, Listed
<1>5. ASSUME NEW k \in 1 .. n PROVE s[k] \in S /\ Rank(p, s[k]) = k - 1
  <2>1. \E i \in S : Rank(p, i) = k - 1 BY RankOnto
  <2>2. s[k] = CHOOSE i \in S : Rank(p, i) = k - 1 BY <1>4
  <2> HIDE DEF s, S
  <2> QED BY <2>1, <2>2
<1>6. DOMAIN s = 1 .. n BY <1>4
<1>7. s \in Seq(S) /\ Len(s) = n
  <2> HIDE DEF S, s, n
  <2>1. s \in [1 .. n -> S] BY <1>4, <1>5
  <2> QED BY <1>3, <2>1
<1>8. ASSUME NEW k \in 1 .. n, NEW l \in 1 .. n, k < l PROVE s[k] # s[l] /\ Before(s[k], s[l])
  <2>1. s[k] \in S /\ Rank(p, s[k]) = k - 1 /\ s[l] \in S /\ Rank(p, s[l]) = l - 1 BY <1>5
  <2>2. s[k] # s[l]
    <3> HIDE DEF s, S
    <3> QED BY <1>3, <1>8, <2>1
  <2>3. ~Before(s[l], s[k])
    <3>1. SUFFICES ASSUME Before(s[l], s[k]) PROVE FALSE OBVIOUS
    <3>2. Rank(p, s[l]) < Rank(p, s[k]) BY <2>1, <3>1, RankOrder
    <3> HIDE DEF s, S
    <3> QED BY <1>3, <1>8, <2>1, <3>2
  <2> QED BY <2>1, <2>2, <2>3, BeforeOrder
<1>9. ASSUME NEW i \in S PROVE \E k \in 1 .. n : s[k] = i
  <2>1. i \notin {j \in S : Before(j, i)} BY BeforeOrder
  <2>2. Rank(p, i) + 1 \in 1 .. n
    <3> DEFINE A == {j \in S : Before(j, i)}
    <3>1. A \subseteq S /\ A # S BY <2>1
    <3>2. Rank(p, i) = Cardinality(A) BY DEF Rank
    <3> HIDE DEF A, S
    <3>3. IsFiniteSet(A) /\ Cardinality(A) <= n /\ Cardinality(A) # n BY <1>2, <3>1, FS_Subset
    <3>4. Cardinality(A) \in Nat BY <3>3, FS_CardinalityType
    <3> HIDE DEF n
    <3> QED BY <1>3, <3>2, <3>3, <3>4
  <2>3. PICK k \in 1 .. n : k = Rank(p, i) + 1 BY <2>2
  <2>4. s[k] \in S /\ Rank(p, s[k]) = k - 1 BY <1>5
  <2>5. s[k] = i
    <3>1. SUFFICES ASSUME s[k] # i PROVE FALSE OBVIOUS
    <3>2. Rank(p, s[k]) < Rank(p, i) \/ Rank(p, i) < Rank(p, s[k]) BY <2>4, <3>1, BeforeOrder, RankOrder
    <3>3. Rank(p, s[k]) = Rank(p, i) /\ Rank(p, i) \in Int
      <4> HIDE DEF s, S
      <4>1. Rank(p, i) = Cardinality({j \in S : Before(j, i)}) BY DEF Rank, S
      <4>2. IsFiniteSet({j \in S : Before(j, i)}) BY <1>2, FS_Subset
      <4>3. Rank(p, i) \in Nat BY <4>1, <4>2, FS_CardinalityType
      <4> QED BY <2>3, <2>4, <4>3
    <3> HIDE DEF s, S
    <3> QED BY <3>2, <3>3
  <2> QED BY <2>5
<1> QED BY <1>6, <1>7, <1>8, <1>9

-----------------------------------------------------------------------------
(* Pages of folders.  A set of numbers has a least element: what an          *)
(* induction rests on here.                                                  *)
LessThan == {p \in Nat \X Nat : p[1] < p[2]}

LEMMA Least ==
  ASSUME NEW T \in SUBSET Nat, T # {}
  PROVE  \E n \in T : \A m \in T : n <= m
<1>1. IsWellFoundedOn(LessThan, Nat) BY NatLessThanWellFounded DEF OpToRel, LessThan
<1>2. PICK n \in T : \A m \in T : ~(<<m, n>> \in LessThan) BY <1>1, WFMin
<1>3. ASSUME NEW m \in T PROVE n <= m
  <2>1. ~(<<m, n>> \in LessThan) /\ m \in Nat /\ n \in Nat BY <1>2
  <2>2. ~(m < n) BY <2>1 DEF LessThan
  <2> QED BY <2>1, <2>2
<1> QED BY <1>3

(* The induction step, for a set that is to be all of 0..k.                  *)
LEMMA Inductive ==
  ASSUME NEW k \in Nat, NEW G, 0 \in G, \A n \in 0 .. k : n < k /\ n \in G => n + 1 \in G
  PROVE  0 .. k \subseteq G
<1> DEFINE T == {n \in 0 .. k : n \notin G}
<1>1. ASSUME T # {} PROVE FALSE
  <2>1. T \in SUBSET Nat OBVIOUS
  <2>2. PICK n \in T : \A m \in T : n <= m BY <1>1, <2>1, Least
  <2>3. n \in 0 .. k /\ n \notin G BY <2>2
  <2>4. n # 0 /\ n - 1 \in 0 .. k BY <2>3
  <2>5. n - 1 \notin T BY <2>2, <2>3, <2>4
  <2>6. n - 1 \in G BY <2>4, <2>5
  <2>7. (n - 1) + 1 \in G BY <2>3, <2>4, <2>6
  <2> QED BY <2>3, <2>4, <2>7
<1> QED BY <1>1

(* f[n] is what the loop has kept of the first n entries of s.               *)
Keeps(s, f) ==
  f = [n \in 0 .. Len(s) |->
         IF n = 0 THEN <<>>
         ELSE IF IsFolder(s[n]) THEN Append(f[n - 1], s[n]) ELSE f[n - 1]]

LEMMA KeepsOne ==
  ASSUME NEW s, NEW f, Keeps(s, f), NEW n \in 0 .. Len(s)
  PROVE  f[n] = IF n = 0 THEN <<>>
                ELSE IF IsFolder(s[n]) THEN Append(f[n - 1], s[n]) ELSE f[n - 1]
BY Zenon DEF Keeps

(* The folders are the first m entries of s.                                 *)
FoldersFirst(s, m) == \A i \in 1 .. Len(s) : IsFolder(s[i]) <=> i <= m

LEMMA PrefixGrows ==
  ASSUME NEW S, NEW s \in Seq(S), NEW n \in Nat, n < Len(s)
  PROVE  SubSeq(s, 1, n + 1) = Append(SubSeq(s, 1, n), s[n + 1])
OBVIOUS

(* As many as n and m entries, whichever are fewer.                          *)
Fewer(n, m) == IF n <= m THEN n ELSE m

(* What the loop keeps of them.                                              *)
LEMMA PrefixKept ==
  ASSUME NEW S, NEW s \in Seq(S), NEW m \in 0 .. Len(s), FoldersFirst(s, m), NEW n \in 1 .. Len(s)
  PROVE  SubSeq(s, 1, Fewer(n, m))
         = IF IsFolder(s[n]) THEN Append(SubSeq(s, 1, Fewer(n - 1, m)), s[n]) ELSE SubSeq(s, 1, Fewer(n - 1, m))
<1>1. Len(s) \in Nat /\ m \in Nat /\ n \in Nat OBVIOUS
<1>2. IsFolder(s[n]) <=> n <= m BY DEF FoldersFirst
<1>3. CASE n <= m
  <2>1. Fewer(n, m) = n /\ Fewer(n - 1, m) = n - 1 BY <1>1, <1>3 DEF Fewer
  <2>2. PICK k \in Nat : k = n - 1 /\ k + 1 = n /\ k < Len(s) BY <1>1
  <2>3. SubSeq(s, 1, k + 1) = Append(SubSeq(s, 1, k), s[k + 1]) BY <2>2, PrefixGrows
  <2> QED BY <1>2, <1>3, <2>1, <2>2, <2>3
<1>4. CASE ~(n <= m)
  <2>1. Fewer(n, m) = m /\ Fewer(n - 1, m) = m BY <1>1, <1>4 DEF Fewer
  <2> QED BY <1>2, <1>4, <2>1
<1> QED BY <1>3, <1>4

LEMMA KeepsPrefix ==
  ASSUME NEW S, NEW s \in Seq(S), NEW m \in 0 .. Len(s), FoldersFirst(s, m), NEW f, Keeps(s, f)
  PROVE  f[Len(s)] = SubSeq(s, 1, m)
<1> DEFINE l == Len(s)
           G == {n \in Nat : f[n] = SubSeq(s, 1, Fewer(n, m))}
<1>1. l \in Nat /\ m \in Nat /\ m <= l OBVIOUS
<1>2. 0 \in G
  <2>1. f[0] = <<>> BY <1>1, KeepsOne
  <2>2. Fewer(0, m) = 0 BY <1>1 DEF Fewer
  <2>3. SubSeq(s, 1, 0) = <<>> OBVIOUS
  <2> QED BY <2>1, <2>2, <2>3
<1>3. ASSUME NEW n \in 0 .. l, n < l, n \in G PROVE n + 1 \in G
  <2>1. PICK k \in 1 .. l : k = n + 1 BY <1>1, <1>3
  <2>2. k # 0 /\ k - 1 = n /\ k \in 0 .. l /\ k \in Nat BY <1>1, <2>1
  <2>3. f[k] = IF IsFolder(s[k]) THEN Append(f[n], s[k]) ELSE f[n] BY <2>2, KeepsOne
  <2>4. f[n] = SubSeq(s, 1, Fewer(n, m)) BY <1>3
  <2>5. SubSeq(s, 1, Fewer(k, m))
        = IF IsFolder(s[k]) THEN Append(SubSeq(s, 1, Fewer(k - 1, m)), s[k]) ELSE SubSeq(s, 1, Fewer(k - 1, m))
    BY <2>1, PrefixKept
  <2>6. f[k] = SubSeq(s, 1, Fewer(k, m)) BY <2>2, <2>3, <2>4, <2>5
  <2> QED BY <2>1, <2>2, <2>6
<1>4. 0 .. l \subseteq G
  <2> HIDE DEF G, l
  <2> QED BY <1>1, <1>2, <1>3, Inductive
<1>5. l \in 0 .. l /\ Fewer(l, m) = m BY <1>1 DEF Fewer
<1> QED BY <1>4, <1>5

LEMMA KeepsExists ==
  ASSUME NEW S, NEW s \in Seq(S), NEW m \in 0 .. Len(s), FoldersFirst(s, m)
  PROVE  \E f : Keeps(s, f)
<1> DEFINE f == [n \in 0 .. Len(s) |-> SubSeq(s, 1, Fewer(n, m))]
<1>1. Len(s) \in Nat /\ m \in Nat OBVIOUS
<1>2. ASSUME NEW n \in 0 .. Len(s)
      PROVE  f[n] = IF n = 0 THEN <<>>
                    ELSE IF IsFolder(s[n]) THEN Append(f[n - 1], s[n]) ELSE f[n - 1]
  <2>0. f[n] = SubSeq(s, 1, Fewer(n, m)) OBVIOUS
  <2>1. CASE n = 0
    <3>1. Fewer(0, m) = 0 BY <1>1 DEF Fewer
    <3>2. SubSeq(s, 1, 0) = <<>> OBVIOUS
    <3> QED BY <2>0, <2>1, <3>1, <3>2
  <2>2. CASE n # 0
    <3>1. n \in 1 .. Len(s) /\ n - 1 \in 0 .. Len(s) BY <1>1, <2>2
    <3>2. f[n - 1] = SubSeq(s, 1, Fewer(n - 1, m)) BY <3>1
    <3> HIDE DEF f
    <3> QED BY <2>0, <2>2, <3>1, <3>2, PrefixKept
  <2> QED BY <2>1, <2>2
<1>3. f = [n \in 0 .. Len(s) |-> f[n]] OBVIOUS
<1> HIDE DEF f
<1>4. Keeps(s, f) BY Zenon, <1>2, <1>3 DEF Keeps
<1> QED BY <1>4

(* Of a listing with the folders first the loop keeps those.                 *)
LEMMA FoldersPrefix ==
  ASSUME NEW S, NEW s \in Seq(S), NEW m \in 0 .. Len(s), FoldersFirst(s, m)
  PROVE  Folders(s) = SubSeq(s, 1, m)
<1> DEFINE f == CHOOSE f : Keeps(s, f)
<1>1. \E g : Keeps(s, g) BY KeepsExists
<1>2. Keeps(s, f) BY <1>1
<1>3. Folders(s) = f[Len(s)] BY Zenon DEF Folders, Keeps
<1> HIDE DEF f
<1> QED BY <1>2, <1>3, KeepsPrefix


LEMMA MinOfTwo ==
  ASSUME NEW a \in Int, NEW b \in Int
  PROVE  Min({a, b}) = IF a <= b THEN a ELSE b
BY DEF Min

(* The entries of s from one after the o-th up to the e-th.                  *)
LEMMA PartOf ==
  ASSUME NEW S, NEW s \in Seq(S), NEW o \in Nat, NEW e \in Int, e <= Len(s), NEW n \in Nat,
         n = IF o < e THEN e - o ELSE 0
  PROVE  /\ SubSeq(s, o + 1, e) \in Seq(S) /\ Len(SubSeq(s, o + 1, e)) = n
         /\ \A x \in 1 .. n : SubSeq(s, o + 1, e)[x] = s[o + x]
<1>1. Len(s) \in Nat OBVIOUS
<1>2. CASE o < e
  <2>1. PICK a \in 1 .. Len(s) : a = o + 1 BY <1>1, <1>2
  <2> DEFINE d == SubSeq(s, a, e)
  <2>2. e \in 1 .. Len(s) /\ a <= e /\ e - a + 1 = n /\ \A x \in 1 .. n : a + x - 1 = o + x BY <1>1, <1>2, <2>1
  <2>3. d \in Seq(S) /\ Len(d) = e - a + 1 BY <2>2
  <2>4. \A x \in 1 .. e - a + 1 : d[x] = s[a + x - 1] BY <2>2
  <2> HIDE DEF d
  <2>5. d \in Seq(S) /\ Len(d) = n /\ \A x \in 1 .. n : d[x] = s[o + x] BY <2>2, <2>3, <2>4
  <2> QED BY <2>1, <2>5 DEF d
<1>3. CASE ~(o < e)
  <2>1. SubSeq(s, o + 1, e) = <<>> /\ n = 0 BY <1>1, <1>3
  <2> QED BY <2>1
<1> QED BY <1>2, <1>3

LEMMA SameSeq ==
  ASSUME NEW S, NEW s \in Seq(S), NEW t \in Seq(S), NEW n \in Nat, Len(s) = n, Len(t) = n,
         \A x \in 1 .. n : s[x] = t[x]
  PROVE  s = t
OBVIOUS

LEMMA FirstOf ==
  ASSUME NEW S, NEW s \in Seq(S), NEW limit \in Nat
  PROVE  First(s, limit) \in Seq(S) /\ (Len(s) <= limit => First(s, limit) = s)
<1>1. Len(s) \in Nat OBVIOUS
<1>2. PICK e : e = IF limit <= Len(s) THEN limit ELSE Len(s) OBVIOUS
<1>3. First(s, limit) = SubSeq(s, 0 + 1, e) BY <1>1, <1>2, MinOfTwo DEF First
<1>4. e \in Nat /\ e <= Len(s) /\ e = (IF 0 < e THEN e - 0 ELSE 0) BY <1>1, <1>2
<1>5. /\ SubSeq(s, 0 + 1, e) \in Seq(S) /\ Len(SubSeq(s, 0 + 1, e)) = e
      /\ \A k \in 1 .. e : SubSeq(s, 0 + 1, e)[k] = s[0 + k]
  BY <1>4, PartOf
<1>6. PICK d : d = First(s, limit) OBVIOUS
<1>7. d \in Seq(S) /\ Len(d) = e /\ \A k \in 1 .. e : d[k] = s[k] BY <1>3, <1>5, <1>6
<1>8. ASSUME Len(s) <= limit PROVE d = s
  <2>1. e = Len(s) BY <1>1, <1>2, <1>8
  <2> QED BY <1>4, <1>7, <2>1, SameSeq
<1> QED BY <1>6, <1>7, <1>8

(* Filtering a page of a listing with the folders first gives the page of    *)
(* its folders.                                                              *)
LEMMA PageOfFolders ==
  ASSUME NEW S, NEW s \in Seq(S), NEW m \in 0 .. Len(s), FoldersFirst(s, m), NEW limit, NEW o \in Nat
  PROVE  Folders(Page(s, limit, o)) = Page(Folders(s), limit, o)
<1> DEFINE z == IF limit \in 1 .. 100 THEN limit ELSE 50
           l == Len(s)
           e == Fewer(o + z, l)
           n == IF o < e THEN e - o ELSE 0
           d == Fewer(o + z, m)
           k == IF o < d THEN d - o ELSE 0
           p == Page(s, limit, o)
           q == SubSeq(s, 1, m)
<1>1. z \in Nat /\ l \in Nat /\ m \in Nat /\ m <= l
  <2>1. l \in Nat OBVIOUS
  <2>2. z \in Nat
    <3>1. CASE limit \in 1 .. 100 BY <3>1
    <3>2. CASE limit \notin 1 .. 100 BY <3>2
    <3> QED BY <3>1, <3>2
  <2> HIDE DEF z
  <2> QED BY <2>1, <2>2
<1>2. Folders(s) = q BY FoldersPrefix
<1>3. q \in Seq(S) /\ Len(q) = m /\ \A x \in 1 .. m : q[x] = s[x]
  <2>1. 1 .. Len(s) = 1 .. l /\ m \in 0 .. Len(s) OBVIOUS
  <2>2. SubSeq(s, 1, m) \in Seq(S) /\ Len(SubSeq(s, 1, m)) = m OBVIOUS
  <2>3. \A x \in 1 .. m : SubSeq(s, 1, m)[x] = s[x] OBVIOUS
  <2> QED BY <2>2, <2>3
<1>l. l = Len(s) OBVIOUS
<1>4. p = SubSeq(s, o + 1, e)
  <2>1. Min({o + z, Len(s)}) = e
    <3> HIDE DEF z
    <3>1. o + z \in Int /\ Len(s) \in Int BY <1>1
    <3> QED BY <3>1, MinOfTwo DEF Fewer
  <2>2. p = SubSeq(s, o + 1, Min({o + z, Len(s)})) BY DEF Page
  <2> QED BY <2>1, <2>2
<1>5. Page(q, limit, o) = SubSeq(q, o + 1, d)
  <2>1. Min({o + z, Len(q)}) = d
    <3> HIDE DEF z, q
    <3>1. o + z \in Int /\ Len(q) \in Int /\ m \in Int BY <1>1, <1>3
    <3> QED BY <1>3, <3>1, MinOfTwo DEF Fewer
  <2>2. Page(q, limit, o) = SubSeq(q, o + 1, Min({o + z, Len(q)})) BY DEF Page
  <2> QED BY <2>1, <2>2
<1>6. /\ e \in Nat /\ e <= l /\ n \in Nat /\ d \in Nat /\ d <= m /\ k \in Nat /\ k <= n
      /\ \A x \in 1 .. n : o + x \in 1 .. l /\ (o + x <= m <=> x <= k)
      /\ \A x \in 1 .. k : o + x \in 1 .. m /\ x \in 1 .. n
  <2> HIDE DEF z, l
  <2> QED BY <1>1 DEF Fewer
<1>7. p \in Seq(S) /\ Len(p) = n /\ \A x \in 1 .. n : p[x] = s[o + x]
  <2>1. n = IF o < e THEN e - o ELSE 0 OBVIOUS
  <2> HIDE DEF n, e, p, l
  <2>2. e \in Int /\ e <= Len(s) /\ n \in Nat BY <1>6, <1>l
  <2>3. /\ SubSeq(s, o + 1, e) \in Seq(S) /\ Len(SubSeq(s, o + 1, e)) = n
        /\ \A x \in 1 .. n : SubSeq(s, o + 1, e)[x] = s[o + x]
    BY ONLY s \in Seq(S), o \in Nat, <2>1, <2>2, PartOf
  <2> QED BY <1>4, <2>3
<1>8. SubSeq(q, o + 1, d) \in Seq(S) /\ Len(SubSeq(q, o + 1, d)) = k /\ \A x \in 1 .. k : SubSeq(q, o + 1, d)[x] = q[o + x]
  <2>1. k = IF o < d THEN d - o ELSE 0 OBVIOUS
  <2> HIDE DEF k, d, q
  <2>2. q \in Seq(S) /\ d \in Int /\ d <= Len(q) /\ k \in Nat BY <1>3, <1>6
  <2> QED BY ONLY o \in Nat, <2>1, <2>2, PartOf
<1> HIDE DEF z, l, e, n, d, k, p, q
<1>9. FoldersFirst(p, k)
  <2>1. ASSUME NEW x \in 1 .. n PROVE IsFolder(p[x]) <=> x <= k
    <3>1. o + x \in 1 .. Len(s) /\ (o + x <= m <=> x <= k) BY <1>6, <1>l
    <3>2. IsFolder(s[o + x]) <=> o + x <= m BY <3>1 DEF FoldersFirst
    <3> QED BY <1>7, <3>1, <3>2
  <2> QED BY <1>7, <2>1 DEF FoldersFirst
<1>10. Folders(p) = SubSeq(p, 1, k)
  <2>1. k \in 0 .. Len(p) BY <1>6, <1>7
  <2> QED BY <1>7, <1>9, <2>1, FoldersPrefix
<1>11. SubSeq(p, 1, k) \in Seq(S) /\ Len(SubSeq(p, 1, k)) = k /\ \A x \in 1 .. k : SubSeq(p, 1, k)[x] = p[x]
  BY <1>6, <1>7
<1>12. \A x \in 1 .. k : SubSeq(p, 1, k)[x] = SubSeq(q, o + 1, d)[x]
  <2> SUFFICES ASSUME NEW x \in 1 .. k PROVE SubSeq(p, 1, k)[x] = SubSeq(q, o + 1, d)[x] OBVIOUS
  <2>1. x \in 1 .. n /\ o + x \in 1 .. m BY <1>6
  <2>2. SubSeq(p, 1, k)[x] = s[o + x] BY <1>7, <1>11, <2>1
  <2>3. SubSeq(q, o + 1, d)[x] = s[o + x] BY <1>3, <1>8, <2>1
  <2> QED BY <2>2, <2>3
<1>13. SubSeq(p, 1, k) = SubSeq(q, o + 1, d) BY <1>6, <1>8, <1>11, <1>12, SameSeq
<1> QED BY <1>2, <1>5, <1>10, <1>13 DEF p


(* ListDirectory puts the folders first.                                     *)
LEMMA ListsFoldersFirst ==
  ASSUME TreeTypes, NEW p
  PROVE  LET s == ListDirectory(p)
         IN  s \in Seq(Listed(p)) /\ \E m \in 0 .. Len(s) : FoldersFirst(s, m)
<1> DEFINE s == ListDirectory(p)
           l == Len(s)
           T == {n \in 1 .. l + 1 : n = l + 1 \/ ~IsFolder(s[n])}
<1>1. /\ s \in Seq(Listed(p))
      /\ \A i, j \in DOMAIN s : i < j => Before(s[i], s[j])
  BY ListingExact
<1> HIDE DEF s
<1>2. l \in Nat /\ DOMAIN s = 1 .. l BY <1>1
<1>3. \A i \in 1 .. l : file[s[i]].kind \in {"file", "folder"}
  <2> SUFFICES ASSUME NEW i \in 1 .. l PROVE file[s[i]].kind \in {"file", "folder"} OBVIOUS
  <2>1. s[i] \in Listed(p) BY <1>1
  <2>2. s[i] \in Ids /\ file[s[i]] \in Row BY <2>1 DEF Listed, Live, IsRow, TreeTypes
  <2> QED BY <2>2 DEF Row
<1>4. T \in SUBSET Nat /\ l + 1 \in T BY <1>2
<1>5. PICK t \in T : \A n \in T : t <= n BY <1>4, Least
<1>6. t \in 1 .. l + 1 /\ (t = l + 1 \/ ~IsFolder(s[t])) BY <1>5
<1>7. \A i \in 1 .. l : i < t => IsFolder(s[i])
  <2> SUFFICES ASSUME NEW i \in 1 .. l, i < t, ~IsFolder(s[i]) PROVE FALSE OBVIOUS
  <2>1. i \in T /\ i \in Nat /\ t \in Nat BY <1>2, <1>6
  <2>2. t <= i BY <1>5, <2>1
  <2> QED BY <2>1, <2>2
<1>8. \A i \in 1 .. l : t <= i => ~IsFolder(s[i])
  <2> SUFFICES ASSUME NEW i \in 1 .. l, t <= i PROVE ~IsFolder(s[i]) OBVIOUS
  <2>1. t \in 1 .. l /\ ~IsFolder(s[t]) BY <1>2, <1>6
  <2>2. CASE i = t BY <2>1, <2>2
  <2>3. CASE i # t
    <3>1. t < i BY <1>2, <2>1, <2>3
    <3>2. Before(s[t], s[i]) BY <1>1, <1>2, <2>1, <3>1
    <3>3. file[s[t]].kind = "file" BY <1>3, <2>1 DEF IsFolder
    <3> QED BY <3>2, <3>3 DEF Before, IsFolder
  <2> QED BY <2>2, <2>3
<1>9. PICK m \in 0 .. l : m = t - 1 BY <1>2, <1>6
<1>10. FoldersFirst(s, m)
  <2> SUFFICES ASSUME NEW i \in 1 .. l PROVE IsFolder(s[i]) <=> i <= m BY DEF FoldersFirst
  <2>1. i <= m <=> i < t BY <1>2, <1>6, <1>9
  <2>2. i < t \/ t <= i BY <1>2, <1>6
  <2> QED BY <1>7, <1>8, <2>1, <2>2
<1> QED BY <1>1, <1>9, <1>10 DEF s

(* For every table, limit and offset: listFolders filters after the LIMIT,   *)
(* and still answers that page of the list of folders.                       *)
THEOREM FolderPagesExact ==
  ASSUME TreeTypes, NEW p, NEW limit, NEW offset \in Nat
  PROVE  listFolders(p, limit, offset) = Page(Folders(ListDirectory(p)), limit, offset)
<1> DEFINE s == ListDirectory(p)
<1>1. s \in Seq(Listed(p)) /\ \E m \in 0 .. Len(s) : FoldersFirst(s, m) BY ListsFoldersFirst
<1> HIDE DEF s
<1>2. Folders(Page(s, limit, offset)) = Page(Folders(s), limit, offset) BY <1>1, PageOfFolders
<1> QED BY <1>2 DEF listFolders, s

-----------------------------------------------------------------------------
(* The folders above an entry of a table, and its path: what GetBreadcrumbs  *)
(* and GetFolderPath answer of the files table as it is and as it will be.   *)
Spot == Ids \cup {Root}
RowIn(t, j) == j \in Ids /\ t[j] # None

(* u[n][j]: up to n folders above j; the same as far as n = m.               *)
UpRow(t, u, n) == [j \in Spot |-> IF n = 0 \/ ~RowIn(t, j) THEN {} ELSE {t[j].parent} \cup u[n - 1][t[j].parent]]
UpTo(t, m, u) == u = [n \in 0 .. m |-> UpRow(t, u, n)]
Ups(t, u) ==
  u = [n \in 0 .. MaxIds |->
         [j \in Ids \cup {Root} |->
            IF n = 0 \/ ~RowIn(t, j) THEN {} ELSE {t[j].parent} \cup u[n - 1][t[j].parent]]]

PathRow(t, u, n) ==
  [j \in Spot |-> IF n = 0 \/ ~RowIn(t, j) THEN <<>> ELSE Append(u[n - 1][t[j].parent], t[j].name)]
PathTo(t, m, u) == u = [n \in 0 .. m |-> PathRow(t, u, n)]
PathsUp(t, u) ==
  u = [n \in 0 .. MaxIds |->
         [j \in Ids \cup {Root} |->
            IF n = 0 \/ ~RowIn(t, j) THEN <<>> ELSE Append(u[n - 1][t[j].parent], t[j].name)]]

UpIn(t, n, j) == (CHOOSE u : Ups(t, u))[n][j]
PathIn(t, n, j) == (CHOOSE u : PathsUp(t, u))[n][j]

LEMMA BreadcrumbsIn ==
  ASSUME NEW i
  PROVE  GetBreadcrumbs(i) = UpIn(file, MaxIds, i)
BY Zenon DEF GetBreadcrumbs, UpIn, Ups, IsRow, RowIn

LEMMA FolderPathIn ==
  ASSUME NEW i
  PROVE  GetFolderPath(i) = PathIn(file, MaxIds, i)
BY Zenon DEF GetFolderPath, PathIn, PathsUp, IsRow, RowIn

LEMMA UpToOne ==
  ASSUME NEW t, NEW m \in Nat, NEW u, UpTo(t, m, u), NEW n \in 0 .. m
  PROVE  u[n] = UpRow(t, u, n)
BY Zenon DEF UpTo

LEMMA UpRowSame ==
  ASSUME NEW t, NEW u, NEW v, NEW n, n # 0 => u[n - 1] = v[n - 1]
  PROVE  UpRow(t, u, n) = UpRow(t, v, n)
<1>1. CASE n = 0 BY <1>1 DEF UpRow
<1>2. CASE n # 0 BY <1>2 DEF UpRow
<1> QED BY <1>1, <1>2

LEMMA UpToMore ==
  ASSUME NEW t, NEW m \in Nat, NEW u, UpTo(t, m, u),
         NEW v, v = [n \in 0 .. m + 1 |-> IF n <= m THEN u[n] ELSE UpRow(t, u, n)]
  PROVE  UpTo(t, m + 1, v)
<1>1. \A n \in 0 .. m : v[n] = u[n] OBVIOUS
<1>2. ASSUME NEW n \in 0 .. m + 1 PROVE v[n] = UpRow(t, v, n)
  <2>1. v[n] = UpRow(t, u, n)
    <3>1. CASE n <= m
      <4>1. n \in 0 .. m BY <3>1
      <4> QED BY <1>1, <4>1, UpToOne
    <3>2. CASE ~(n <= m) BY <3>2
    <3> QED BY <3>1, <3>2
  <2>2. n # 0 => n - 1 \in 0 .. m OBVIOUS
  <2>3. n # 0 => u[n - 1] = v[n - 1] BY <1>1, <2>2
  <2> QED BY <2>1, <2>3, UpRowSame
<1>3. v = [n \in 0 .. m + 1 |-> v[n]] OBVIOUS
<1> QED BY Zenon, <1>2, <1>3 DEF UpTo

LEMMA UpsExist ==
  ASSUME NEW t
  PROVE  \E u : Ups(t, u)
<1> DEFINE G == {m \in Nat : \E u : UpTo(t, m, u)}
<1>1. 0 \in G
  <2> DEFINE u == [n \in 0 .. 0 |-> [j \in Spot |-> {}]]
  <2>1. ASSUME NEW n \in 0 .. 0 PROVE u[n] = UpRow(t, u, n) BY DEF UpRow
  <2>2. u = [n \in 0 .. 0 |-> u[n]] OBVIOUS
  <2> HIDE DEF u
  <2>3. UpTo(t, 0, u) BY Zenon, <2>1, <2>2 DEF UpTo
  <2> QED BY <2>3
<1>2. ASSUME NEW m \in 0 .. MaxIds, m < MaxIds, m \in G PROVE m + 1 \in G
  <2>1. PICK u : UpTo(t, m, u) BY <1>2
  <2>2. PICK v : v = [n \in 0 .. m + 1 |-> IF n <= m THEN u[n] ELSE UpRow(t, u, n)] OBVIOUS
  <2>3. m \in Nat /\ m + 1 \in Nat OBVIOUS
  <2>4. UpTo(t, m + 1, v) BY <2>1, <2>2, <2>3, UpToMore
  <2> QED BY <2>3, <2>4
<1>3. 0 .. MaxIds \subseteq G
  <2> HIDE DEF G
  <2> QED BY <1>1, <1>2, TreeAssumption, Inductive
<1>4. MaxIds \in G BY <1>3, TreeAssumption
<1>5. PICK u : UpTo(t, MaxIds, u) BY <1>4
<1>6. Ups(t, u) BY Zenon, <1>5 DEF UpTo, UpRow, Ups, Spot
<1> QED BY <1>6

LEMMA UpEquation ==
  ASSUME NEW t, NEW n \in 0 .. MaxIds, NEW j \in Spot
  PROVE  UpIn(t, n, j) = IF n = 0 \/ ~RowIn(t, j) THEN {} ELSE {t[j].parent} \cup UpIn(t, n - 1, t[j].parent)
<1> DEFINE u == CHOOSE u : Ups(t, u)
<1>1. Ups(t, u) BY UpsExist
<1>2. u = [k \in 0 .. MaxIds |-> UpRow(t, u, k)] BY Zenon, <1>1 DEF Ups, UpRow, Spot
<1>3. \A k, i : UpIn(t, k, i) = u[k][i] BY DEF UpIn
<1> HIDE DEF u
<1>4. u[n] = UpRow(t, u, n) BY Zenon, <1>2
<1>5. u[n][j] = IF n = 0 \/ ~RowIn(t, j) THEN {} ELSE {t[j].parent} \cup u[n - 1][t[j].parent]
  BY Zenon, <1>4 DEF UpRow
<1> QED BY Zenon, <1>3, <1>5

LEMMA PathToOne ==
  ASSUME NEW t, NEW m \in Nat, NEW u, PathTo(t, m, u), NEW n \in 0 .. m
  PROVE  u[n] = PathRow(t, u, n)
BY Zenon DEF PathTo

LEMMA PathRowSame ==
  ASSUME NEW t, NEW u, NEW v, NEW n, n # 0 => u[n - 1] = v[n - 1]
  PROVE  PathRow(t, u, n) = PathRow(t, v, n)
<1>1. CASE n = 0 BY <1>1 DEF PathRow
<1>2. CASE n # 0 BY <1>2 DEF PathRow
<1> QED BY <1>1, <1>2

LEMMA PathToMore ==
  ASSUME NEW t, NEW m \in Nat, NEW u, PathTo(t, m, u),
         NEW v, v = [n \in 0 .. m + 1 |-> IF n <= m THEN u[n] ELSE PathRow(t, u, n)]
  PROVE  PathTo(t, m + 1, v)
<1>1. \A n \in 0 .. m : v[n] = u[n] OBVIOUS
<1>2. ASSUME NEW n \in 0 .. m + 1 PROVE v[n] = PathRow(t, v, n)
  <2>1. v[n] = PathRow(t, u, n)
    <3>1. CASE n <= m
      <4>1. n \in 0 .. m BY <3>1
      <4> QED BY <1>1, <4>1, PathToOne
    <3>2. CASE ~(n <= m) BY <3>2
    <3> QED BY <3>1, <3>2
  <2>2. n # 0 => n - 1 \in 0 .. m OBVIOUS
  <2>3. n # 0 => u[n - 1] = v[n - 1] BY <1>1, <2>2
  <2> QED BY <2>1, <2>3, PathRowSame
<1>3. v = [n \in 0 .. m + 1 |-> v[n]] OBVIOUS
<1> QED BY Zenon, <1>2, <1>3 DEF PathTo

LEMMA PathsExist ==
  ASSUME NEW t
  PROVE  \E u : PathsUp(t, u)
<1> DEFINE G == {m \in Nat : \E u : PathTo(t, m, u)}
<1>1. 0 \in G
  <2> DEFINE u == [n \in 0 .. 0 |-> [j \in Spot |-> <<>>]]
  <2>1. ASSUME NEW n \in 0 .. 0 PROVE u[n] = PathRow(t, u, n) BY DEF PathRow
  <2>2. u = [n \in 0 .. 0 |-> u[n]] OBVIOUS
  <2> HIDE DEF u
  <2>3. PathTo(t, 0, u) BY Zenon, <2>1, <2>2 DEF PathTo
  <2> QED BY <2>3
<1>2. ASSUME NEW m \in 0 .. MaxIds, m < MaxIds, m \in G PROVE m + 1 \in G
  <2>1. PICK u : PathTo(t, m, u) BY <1>2
  <2>2. PICK v : v = [n \in 0 .. m + 1 |-> IF n <= m THEN u[n] ELSE PathRow(t, u, n)] OBVIOUS
  <2>3. m \in Nat /\ m + 1 \in Nat OBVIOUS
  <2>4. PathTo(t, m + 1, v) BY <2>1, <2>2, <2>3, PathToMore
  <2> QED BY <2>3, <2>4
<1>3. 0 .. MaxIds \subseteq G
  <2> HIDE DEF G
  <2> QED BY <1>1, <1>2, TreeAssumption, Inductive
<1>4. MaxIds \in G BY <1>3, TreeAssumption
<1>5. PICK u : PathTo(t, MaxIds, u) BY <1>4
<1>6. PathsUp(t, u) BY Zenon, <1>5 DEF PathTo, PathRow, PathsUp, Spot
<1> QED BY <1>6

LEMMA PathEquation ==
  ASSUME NEW t, NEW n \in 0 .. MaxIds, NEW j \in Spot
  PROVE  PathIn(t, n, j) = IF n = 0 \/ ~RowIn(t, j) THEN <<>> ELSE Append(PathIn(t, n - 1, t[j].parent), t[j].name)
<1> DEFINE u == CHOOSE u : PathsUp(t, u)
<1>1. PathsUp(t, u) BY PathsExist
<1>2. u = [k \in 0 .. MaxIds |-> PathRow(t, u, k)] BY Zenon, <1>1 DEF PathsUp, PathRow, Spot
<1>3. \A k, i : PathIn(t, k, i) = u[k][i] BY DEF PathIn
<1> HIDE DEF u
<1>4. u[n] = PathRow(t, u, n) BY Zenon, <1>2
<1>5. u[n][j] = IF n = 0 \/ ~RowIn(t, j) THEN <<>> ELSE Append(u[n - 1][t[j].parent], t[j].name)
  BY Zenon, <1>4 DEF PathRow
<1> QED BY Zenon, <1>3, <1>5

Table(t) == t \in [Ids -> Row \cup {None}]
Over(t, i) == UpIn(t, MaxIds, i)
PathOf(t, i) == PathIn(t, MaxIds, i)

(* An entry whose folders lead to the top.                                   *)
Rooted(t, i) == RowIn(t, i) /\ Root \in Over(t, i)

LEMMA ParentSpot ==
  ASSUME NEW t, Table(t), NEW j, RowIn(t, j)
  PROVE  t[j] \in Row /\ t[j].parent \in Spot /\ t[j].name \in Names /\ j \in Spot /\ j # Root /\ j \in Ids
<1>1. j \in Ids /\ t[j] \in Row BY DEF Table, RowIn
<1>2. t[j].parent \in Ids \cup {Root} /\ t[j].name \in Names BY <1>1 DEF Row
<1>3. Root \notin Ids BY TreeAssumption DEF Ids
<1> QED BY <1>1, <1>2, <1>3 DEF Spot

(* With more levels than it takes to the top nothing changes.                *)
SameFrom(t, n, j) ==
  \A m \in 0 .. MaxIds : n <= m => UpIn(t, m, j) = UpIn(t, n, j) /\ PathIn(t, m, j) = PathIn(t, n, j)

LEMMA TopUp ==
  ASSUME NEW t, NEW n \in 0 .. MaxIds
  PROVE  UpIn(t, n, Root) = {} /\ PathIn(t, n, Root) = <<>>
<1>1. Root \in Spot /\ ~RowIn(t, Root) BY TreeAssumption DEF Spot, RowIn, Ids
<1> QED BY <1>1, UpEquation, PathEquation

LEMMA Settles ==
  ASSUME NEW t, Table(t), NEW n \in 0 .. MaxIds, NEW j \in Spot, Root \in UpIn(t, n, j)
  PROVE  SameFrom(t, n, j)
<1> DEFINE G == {k \in Nat : \A i \in Spot : Root \in UpIn(t, k, i) => SameFrom(t, k, i)}
<1>0. MaxIds \in Nat BY TreeAssumption
<1>1. 0 \in G
  <2>1. 0 \in 0 .. MaxIds BY <1>0
  <2>2. \A i \in Spot : UpIn(t, 0, i) = {} BY <2>1, UpEquation
  <2> QED BY <2>2
<1>2. ASSUME NEW k \in 0 .. MaxIds, k < MaxIds, k \in G PROVE k + 1 \in G
  <2>1. PICK l \in 0 .. MaxIds : l = k + 1 BY <1>0, <1>2
  <2>2. l # 0 /\ l - 1 = k /\ l \in Nat BY <2>1
  <2> SUFFICES ASSUME NEW i \in Spot, Root \in UpIn(t, l, i) PROVE SameFrom(t, l, i)
    BY <2>1, <2>2
  <2>3. RowIn(t, i) /\ UpIn(t, l, i) = {t[i].parent} \cup UpIn(t, k, t[i].parent)
    BY <2>2, UpEquation
  <2> DEFINE p == t[i].parent
  <2>4. p \in Spot BY <2>3, ParentSpot
  <2>5. SameFrom(t, k, p)
    <3>1. CASE p = Root BY <1>2, <3>1, TopUp DEF SameFrom
    <3>2. CASE p # Root
      <4>1. Root \in UpIn(t, k, p) BY <2>3, <3>2
      <4> QED BY <1>2, <2>4, <4>1
    <3> QED BY <3>1, <3>2
  <2>6. PathIn(t, l, i) = Append(PathIn(t, k, p), t[i].name) BY <2>2, <2>3, PathEquation
  <2> SUFFICES ASSUME NEW m \in 0 .. MaxIds, l <= m
               PROVE  UpIn(t, m, i) = UpIn(t, l, i) /\ PathIn(t, m, i) = PathIn(t, l, i)
    BY DEF SameFrom
  <2>7. m # 0 /\ m - 1 \in 0 .. MaxIds /\ k <= m - 1
    <3>1. m \in Nat /\ k \in Nat /\ m <= MaxIds /\ l <= m /\ l = k + 1 BY <1>0, <2>1
    <3> HIDE DEF G
    <3> QED BY <1>0, <3>1
  <2>8. UpIn(t, m, i) = {p} \cup UpIn(t, m - 1, p) BY <2>3, <2>7, UpEquation
  <2>9. PathIn(t, m, i) = Append(PathIn(t, m - 1, p), t[i].name) BY <2>3, <2>7, PathEquation
  <2>10. UpIn(t, m - 1, p) = UpIn(t, k, p) /\ PathIn(t, m - 1, p) = PathIn(t, k, p)
    BY <2>5, <2>7 DEF SameFrom
  <2> QED BY <2>3, <2>6, <2>8, <2>9, <2>10
<1>3. 0 .. MaxIds \subseteq G
  <2> HIDE DEF G
  <2> QED BY <1>0, <1>1, <1>2, Inductive
<1> QED BY <1>3

(* One folder up.                                                            *)
LEMMA RootedUp ==
  ASSUME NEW t, Table(t), NEW i, Rooted(t, i), NEW p, p = t[i].parent
  PROVE  /\ p \in Spot /\ i \in Ids /\ t[i].name \in Names
         /\ Over(t, i) = {p} \cup Over(t, p) /\ PathOf(t, i) = Append(PathOf(t, p), t[i].name)
         /\ p # Root => Rooted(t, p)
<1>1. RowIn(t, i) /\ Root \in UpIn(t, MaxIds, i) BY DEF Rooted, Over
<1>2. i \in Spot /\ i \in Ids /\ p \in Spot /\ t[i].name \in Names BY <1>1, ParentSpot
<1>3. MaxIds \in Nat /\ MaxIds # 0 BY <1>2, TreeAssumption DEF Ids
<1>4. PICK n \in 0 .. MaxIds : n = MaxIds - 1 BY <1>3
<1>5. MaxIds \in 0 .. MaxIds /\ n <= MaxIds BY <1>3, <1>4
<1>6. UpIn(t, MaxIds, i) = {p} \cup UpIn(t, n, p) BY <1>1, <1>2, <1>3, <1>4, <1>5, UpEquation
<1>7. PathIn(t, MaxIds, i) = Append(PathIn(t, n, p), t[i].name) BY <1>1, <1>2, <1>3, <1>4, <1>5, PathEquation
<1>8. CASE p = Root
  <2>1. UpIn(t, n, p) = {} /\ UpIn(t, MaxIds, p) = {} /\ PathIn(t, n, p) = <<>> /\ PathIn(t, MaxIds, p) = <<>>
    BY <1>5, <1>8, TopUp
  <2> QED BY <1>2, <1>6, <1>7, <1>8, <2>1 DEF Over, PathOf
<1>9. CASE p # Root
  <2>1. Root \in UpIn(t, n, p) BY <1>1, <1>6, <1>9
  <2>2. RowIn(t, p) BY <1>2, <2>1, UpEquation
  <2>3. SameFrom(t, n, p) BY <1>2, <2>1, Settles
  <2>4. UpIn(t, MaxIds, p) = UpIn(t, n, p) /\ PathIn(t, MaxIds, p) = PathIn(t, n, p)
    BY <1>5, <2>3 DEF SameFrom
  <2> QED BY <1>2, <1>6, <1>7, <2>1, <2>2, <2>4 DEF Over, PathOf, Rooted
<1> QED BY <1>8, <1>9

(* An induction from the top down.                                           *)
LEMMA RootedInduction ==
  ASSUME NEW t, Table(t), NEW G,
         \A i \in Ids : Rooted(t, i) /\ (t[i].parent # Root => t[i].parent \in G) => i \in G,
         NEW i, Rooted(t, i)
  PROVE  i \in G
<1> DEFINE H == {n \in Nat : \A j \in Ids : RowIn(t, j) /\ Root \in UpIn(t, n, j) => j \in G}
<1>0. MaxIds \in Nat BY TreeAssumption
<1>1. 0 \in H
  <2>1. 0 \in 0 .. MaxIds BY <1>0
  <2>2. \A j \in Spot : UpIn(t, 0, j) = {} BY <2>1, UpEquation
  <2> QED BY <2>2 DEF Spot
<1>2. ASSUME NEW n \in 0 .. MaxIds, n < MaxIds, n \in H PROVE n + 1 \in H
  <2>1. PICK l \in 0 .. MaxIds : l = n + 1 BY <1>0, <1>2
  <2>2. l # 0 /\ l - 1 = n /\ l \in Nat /\ l <= MaxIds /\ MaxIds \in 0 .. MaxIds BY <1>0, <2>1
  <2> SUFFICES ASSUME NEW j \in Ids, RowIn(t, j), Root \in UpIn(t, l, j) PROVE j \in G BY <2>1, <2>2
  <2>3. j \in Spot BY DEF Spot
  <2>4. SameFrom(t, l, j) BY <2>3, Settles
  <2>5. UpIn(t, MaxIds, j) = UpIn(t, l, j) BY <2>2, <2>4 DEF SameFrom
  <2>6. Rooted(t, j) BY <2>5 DEF Rooted, Over
  <2>7. UpIn(t, l, j) = {t[j].parent} \cup UpIn(t, n, t[j].parent) BY <2>2, <2>3, UpEquation
  <2>8. ASSUME t[j].parent # Root PROVE t[j].parent \in G
    <3>1. Root \in UpIn(t, n, t[j].parent) BY <2>7, <2>8
    <3>2. Rooted(t, t[j].parent) BY <2>6, <2>8, RootedUp
    <3>3. RowIn(t, t[j].parent) /\ t[j].parent \in Ids BY <3>2 DEF Rooted, RowIn
    <3> QED BY <1>2, <3>1, <3>3
  <2> QED BY <2>6, <2>8
<1>3. 0 .. MaxIds \subseteq H
  <2> HIDE DEF H
  <2> QED BY <1>0, <1>1, <1>2, Inductive
<1>4. MaxIds \in H BY <1>0, <1>3
<1> QED BY <1>4 DEF Rooted, RowIn, Over

(* What is above an entry: folders that lead to the top, of shorter paths,   *)
(* and in each of them one entry on the way down to this one.                *)
OnWay(t, i, a, c) ==
  /\ c \in {i} \cup Over(t, i) /\ RowIn(t, c) /\ t[c].parent = a
  /\ \A d \in {i} \cup Over(t, i) : RowIn(t, d) /\ t[d].parent = a => d = c

WayOK(t, i) ==
  /\ PathOf(t, i) \in Seq(Names)
  /\ Root \in Over(t, i) /\ i \notin Over(t, i)
  /\ \A a \in Over(t, i) :
       /\ a = Root \/ Rooted(t, a)
       /\ PathOf(t, a) \in Seq(Names) /\ Len(PathOf(t, a)) < Len(PathOf(t, i))
       /\ a # Root => t[a].parent \in Over(t, i)
       /\ Over(t, a) \subseteq Over(t, i)
       /\ \E c : OnWay(t, i, a, c)

LEMMA TopOver ==
  ASSUME NEW t
  PROVE  Over(t, Root) = {} /\ PathOf(t, Root) = <<>> /\ ~RowIn(t, Root)
<1>1. MaxIds \in 0 .. MaxIds BY TreeAssumption
<1>2. ~RowIn(t, Root) BY TreeAssumption DEF RowIn, Ids
<1> QED BY <1>1, <1>2, TopUp DEF Over, PathOf

LEMMA LongerPath ==
  ASSUME NEW t, Table(t), NEW i, Rooted(t, i), NEW p, p = t[i].parent, PathOf(t, p) \in Seq(Names)
  PROVE  PathOf(t, i) \in Seq(Names) /\ Len(PathOf(t, i)) = Len(PathOf(t, p)) + 1 /\ Len(PathOf(t, p)) \in Nat
<1> DEFINE q == PathOf(t, p)
           n == t[i].name
<1>1. PathOf(t, i) = Append(q, n) /\ n \in Names BY RootedUp
<1>2. q \in Seq(Names) OBVIOUS
<1> HIDE DEF q, n
<1>3. Append(q, n) \in Seq(Names) /\ Len(Append(q, n)) = Len(q) + 1 /\ Len(q) \in Nat BY <1>1, <1>2
<1> QED BY <1>1, <1>3 DEF q

LEMMA RootedWay ==
  ASSUME NEW t, Table(t), NEW i, Rooted(t, i)
  PROVE  WayOK(t, i)
<1> DEFINE G == {j \in Ids : Rooted(t, j) => WayOK(t, j)}
<1>1. ASSUME NEW j \in Ids, Rooted(t, j), t[j].parent # Root => t[j].parent \in G PROVE WayOK(t, j)
  <2> DEFINE p == t[j].parent
  <2>1. /\ p \in Spot /\ Over(t, j) = {p} \cup Over(t, p)
        /\ p # Root => Rooted(t, p)
        /\ RowIn(t, j)
    BY <1>1, RootedUp DEF Rooted
  <2>2. p # Root => WayOK(t, p) BY <1>1, <2>1
  <2>3. PathOf(t, p) \in Seq(Names)
    <3>0. << >> \in Seq(Names) OBVIOUS
    <3>1. PathOf(t, Root) \in Seq(Names) BY <3>0, TopOver
    <3>2. CASE p # Root BY <2>2, <3>2 DEF WayOK
    <3> QED BY <3>1, <3>2
  <2> HIDE DEF p
  <2>p. p = t[j].parent BY DEF p
  <2>4. PathOf(t, j) \in Seq(Names) /\ Len(PathOf(t, j)) = Len(PathOf(t, p)) + 1 /\ Len(PathOf(t, p)) \in Nat
    BY <1>1, <2>3, <2>p, LongerPath
  <2>5. CASE p = Root
    <3>1. Over(t, p) = {} BY <2>5, TopOver
    <3>2. ~RowIn(t, Root) /\ Root # j BY <2>1, TopOver
    <3>3. OnWay(t, j, Root, j) BY <2>1, <2>5, <2>p, <3>1, <3>2 DEF OnWay
    <3> QED BY <2>1, <2>3, <2>4, <2>5, <3>1, <3>2, <3>3 DEF WayOK
  <2>6. CASE p # Root
    <3>1. WayOK(t, p) /\ Rooted(t, p) /\ RowIn(t, p) BY <2>1, <2>2, <2>6 DEF Rooted
    <3>2. \A a \in Over(t, j) : PathOf(t, a) \in Seq(Names) /\ Len(PathOf(t, a)) < Len(PathOf(t, j))
      <4> SUFFICES ASSUME NEW a \in Over(t, j)
                   PROVE  PathOf(t, a) \in Seq(Names) /\ Len(PathOf(t, a)) < Len(PathOf(t, j))
        OBVIOUS
      <4>1. CASE a = p BY <2>3, <2>4, <4>1
      <4>2. CASE a # p
        <5>1. a \in Over(t, p) BY <2>1, <4>2
        <5>2. PathOf(t, a) \in Seq(Names) /\ Len(PathOf(t, a)) < Len(PathOf(t, p)) BY <3>1, <5>1 DEF WayOK
        <5>3. Len(PathOf(t, a)) \in Nat BY <5>2
        <5> QED BY <2>4, <5>2, <5>3
      <4> QED BY <4>1, <4>2
    <3>3. j \notin Over(t, j)
      <4> SUFFICES ASSUME j \in Over(t, j) PROVE FALSE OBVIOUS
      <4>1. Len(PathOf(t, j)) < Len(PathOf(t, j)) BY <3>2
      <4>2. Len(PathOf(t, j)) \in Nat BY <2>4
      <4> QED BY <4>1, <4>2
    <3>4. ASSUME NEW d \in Over(t, j), RowIn(t, d), t[d].parent = p PROVE FALSE
      <4>1. Rooted(t, d)
        <5>1. d = p \/ d \in Over(t, p) BY <2>1
        <5> QED BY <3>1, <3>4, <5>1, TopOver DEF WayOK
      <4>2. Len(PathOf(t, d)) = Len(PathOf(t, p)) + 1 BY <2>3, <3>4, <4>1, LongerPath
      <4>3. Len(PathOf(t, d)) < Len(PathOf(t, j)) BY <3>2, <3>4
      <4> QED BY <2>4, <4>2, <4>3
    <3>5. ASSUME NEW a \in Over(t, j)
          PROVE  /\ a = Root \/ Rooted(t, a)
                 /\ a # Root => t[a].parent \in Over(t, j)
                 /\ Over(t, a) \subseteq Over(t, j)
                 /\ \E c : OnWay(t, j, a, c)
      <4>1. CASE a = p
        <5>1. t[p].parent \in Over(t, p) BY <3>1, RootedUp
        <5>2. OnWay(t, j, p, j) BY <2>1, <2>p, <3>4 DEF OnWay
        <5> QED BY <2>1, <3>1, <4>1, <5>1, <5>2
      <4>2. CASE a # p
        <5>1. a \in Over(t, p) BY <2>1, <4>2
        <5>2. /\ (a = Root \/ Rooted(t, a)) /\ (a # Root => t[a].parent \in Over(t, p))
              /\ Over(t, a) \subseteq Over(t, p)
          BY <3>1, <5>1 DEF WayOK
        <5>3. PICK c : OnWay(t, p, a, c) BY <3>1, <5>1 DEF WayOK
        <5>4. OnWay(t, j, a, c) BY <2>1, <2>p, <4>2, <5>3 DEF OnWay
        <5> QED BY <2>1, <5>2, <5>4
      <4> QED BY <4>1, <4>2
    <3>6. Root \in Over(t, j) BY <1>1 DEF Rooted
    <3> QED BY <2>4, <3>2, <3>3, <3>5, <3>6 DEF WayOK
  <2> QED BY <2>5, <2>6
<1>2. \A j \in Ids : Rooted(t, j) /\ (t[j].parent # Root => t[j].parent \in G) => j \in G
  <2> HIDE DEF G
  <2>1. \A j \in Ids : (Rooted(t, j) => WayOK(t, j)) => j \in G BY DEF G
  <2> QED BY <1>1, <2>1
<1>3. i \in G
  <2> HIDE DEF G
  <2> QED BY <1>2, RootedInduction
<1> QED BY <1>3

(* An entry that a listing from the top reaches, and that stayed put, with   *)
(* the folders above it, while the rows in x changed.                        *)
ReachedIn(t, i) ==
  /\ Rooted(t, i) /\ ~t[i].trashed
  /\ \A a \in Over(t, i) : a # Root => RowIn(t, a) /\ ~t[a].trashed /\ t[a].kind = "folder"
StableIn(t, x, i) == ReachedIn(t, i) /\ ({i} \cup Over(t, i)) \cap x = {}

(* Tables that agree about an entry and what is above it.                    *)
LEMMA SameUp ==
  ASSUME NEW s, Table(s), NEW t, NEW n \in 0 .. MaxIds, NEW j \in Spot,
         \A a \in Ids : a \in {j} \cup UpIn(s, n, j) => t[a] = s[a]
  PROVE  UpIn(t, n, j) = UpIn(s, n, j) /\ PathIn(t, n, j) = PathIn(s, n, j)
<1> DEFINE Agree(k, i) == \A a \in Ids : a \in {i} \cup UpIn(s, k, i) => t[a] = s[a]
           Same(k, i) == UpIn(t, k, i) = UpIn(s, k, i) /\ PathIn(t, k, i) = PathIn(s, k, i)
           G == {k \in Nat : \A i \in Spot : Agree(k, i) => Same(k, i)}
<1>0. MaxIds \in Nat BY TreeAssumption
<1>1. 0 \in G
  <2>1. 0 \in 0 .. MaxIds BY <1>0
  <2>2. \A i \in Spot : UpIn(t, 0, i) = {} /\ UpIn(s, 0, i) = {} BY <2>1, UpEquation
  <2>3. \A i \in Spot : PathIn(t, 0, i) = <<>> /\ PathIn(s, 0, i) = <<>> BY <2>1, PathEquation
  <2> QED BY <2>2, <2>3
<1>2. ASSUME NEW k \in 0 .. MaxIds, k < MaxIds, k \in G PROVE k + 1 \in G
  <2>1. PICK l \in 0 .. MaxIds : l = k + 1 BY <1>0, <1>2
  <2>2. l # 0 /\ l - 1 = k /\ l \in Nat BY <2>1
  <2> SUFFICES ASSUME NEW i \in Spot, Agree(l, i) PROVE Same(l, i) BY <2>1, <2>2
  <2>3. CASE ~RowIn(s, i)
    <3>1. ~RowIn(t, i) BY <2>3 DEF RowIn
    <3> QED BY <2>3, <3>1, UpEquation, PathEquation
  <2>4. CASE RowIn(s, i)
    <3>1. t[i] = s[i] /\ RowIn(t, i) BY <2>4 DEF RowIn
    <3>2. PICK p \in Spot : p = s[i].parent BY <2>4, ParentSpot
    <3>3. UpIn(s, l, i) = {p} \cup UpIn(s, k, p) /\ UpIn(t, l, i) = {p} \cup UpIn(t, k, p)
      BY <2>2, <2>4, <3>1, <3>2, UpEquation
    <3>4. /\ PathIn(s, l, i) = Append(PathIn(s, k, p), s[i].name)
          /\ PathIn(t, l, i) = Append(PathIn(t, k, p), s[i].name)
      BY <2>2, <2>4, <3>1, <3>2, PathEquation
    <3>5. Agree(k, p) BY <3>3
    <3>6. Same(k, p) BY <1>2, <3>5
    <3> QED BY <3>3, <3>4, <3>6
  <2> QED BY <2>3, <2>4
<1>3. 0 .. MaxIds \subseteq G
  <2> HIDE DEF G
  <2> QED BY <1>0, <1>1, <1>2, Inductive
<1>4. Agree(n, j) OBVIOUS
<1>5. n \in G BY <1>3
<1> HIDE DEF Agree, Same
<1>6. Same(n, j) BY <1>4, <1>5
<1> QED BY <1>6 DEF Same

LEMMA StableBefore ==
  ASSUME NEW s, Table(s), NEW t, Table(t), NEW x, NEW y, x \subseteq y,
         \A a \in Ids : t[a] # s[a] => a \in y, NEW i \in Ids, StableIn(s, y, i)
  PROVE  /\ StableIn(t, x, i) /\ Over(t, i) = Over(s, i) /\ PathOf(t, i) = PathOf(s, i)
         /\ \A a \in Over(s, i) : PathOf(t, a) = PathOf(s, a)
<1>0. MaxIds \in 0 .. MaxIds BY TreeAssumption
<1>1. \A a \in Ids : a \in {i} \cup Over(s, i) => t[a] = s[a] BY DEF StableIn
<1>2. ReachedIn(s, i) /\ Rooted(s, i) BY DEF StableIn, ReachedIn
<1>3. WayOK(s, i) BY <1>2, RootedWay
<1>4. Over(t, i) = Over(s, i) /\ PathOf(t, i) = PathOf(s, i)
  <2>1. i \in Spot BY DEF Spot
  <2> QED BY <1>0, <1>1, <2>1, SameUp DEF Over, PathOf
<1>5. ASSUME NEW a \in Over(s, i) PROVE PathOf(t, a) = PathOf(s, a)
  <2>1. CASE a = Root BY <2>1, TopOver
  <2>2. CASE a # Root
    <3>1. Rooted(s, a) /\ Over(s, a) \subseteq Over(s, i) BY <1>3, <2>2 DEF WayOK
    <3>2. a \in Spot BY <3>1 DEF Rooted, RowIn, Spot
    <3>3. \A b \in Ids : b \in {a} \cup Over(s, a) => t[b] = s[b] BY <1>1, <3>1
    <3> QED BY <1>0, <3>2, <3>3, SameUp DEF Over, PathOf
  <2> QED BY <2>1, <2>2
<1>6. t[i] = s[i] /\ RowIn(s, i) BY <1>1, <1>2 DEF Rooted
<1>7. \A a \in Over(s, i) : a # Root => a \in Ids /\ t[a] = s[a] BY <1>1, <1>2 DEF ReachedIn, RowIn
<1>8. ReachedIn(t, i) BY <1>2, <1>4, <1>6, <1>7 DEF ReachedIn, Rooted, RowIn
<1>9. StableIn(t, x, i) BY <1>4, <1>8 DEF StableIn
<1> QED BY <1>4, <1>5, <1>9

-----------------------------------------------------------------------------
(* A walk: an entry that stayed put is listed once, under its path, and no   *)
(* folder above it is still to be read; or it is not listed yet and exactly  *)
(* one is, under that folder's path.                                         *)
Entry == Spot \X Seq(Names)

ListedOnce(t, out, todo, i) ==
  /\ \E k \in DOMAIN out : out[k] = <<i, PathOf(t, i)>> /\ \A l \in DOMAIN out : out[l][1] = i => l = k
  /\ \A l \in DOMAIN todo : todo[l][1] \notin Over(t, i)
ToList(t, out, todo, i) ==
  /\ \A l \in DOMAIN out : out[l][1] # i
  /\ \E k \in DOMAIN todo :
       /\ todo[k][1] \in Over(t, i) /\ todo[k][2] = PathOf(t, todo[k][1])
       /\ \A l \in DOMAIN todo : todo[l][1] \in Over(t, i) => l = k
Covered(t, out, todo, i) == ListedOnce(t, out, todo, i) \/ ToList(t, out, todo, i)

WalkedIn(t, x, out, todo) ==
  /\ out \in Seq(Entry) /\ todo \in Seq(Entry)
  /\ \A i \in Ids : StableIn(t, x, i) => Covered(t, out, todo, i)

LEMMA WalkedStays ==
  ASSUME NEW s, Table(s), NEW t, Table(t), NEW x, NEW y, x \subseteq y,
         \A a \in Ids : t[a] # s[a] => a \in y, NEW out, NEW todo, WalkedIn(t, x, out, todo)
  PROVE  WalkedIn(s, y, out, todo)
<1>1. ASSUME NEW i \in Ids, StableIn(s, y, i) PROVE Covered(s, out, todo, i)
  <2>1. /\ StableIn(t, x, i) /\ Over(t, i) = Over(s, i) /\ PathOf(t, i) = PathOf(s, i)
        /\ \A a \in Over(s, i) : PathOf(t, a) = PathOf(s, a)
    BY <1>1, StableBefore
  <2>2. Covered(t, out, todo, i) BY <2>1 DEF WalkedIn
  <2>3. ListedOnce(t, out, todo, i) => ListedOnce(s, out, todo, i) BY <2>1 DEF ListedOnce
  <2>4. ToList(t, out, todo, i) => ToList(s, out, todo, i) BY <2>1 DEF ToList
  <2> QED BY <2>2, <2>3, <2>4 DEF Covered
<1> QED BY <1>1 DEF WalkedIn

LEMMA WalkStarts ==
  ASSUME NEW t, Table(t)
  PROVE  WalkedIn(t, {}, <<>>, <<<<Root, <<>>>>>>)
<1>1. PICK e : e = <<Root, <<>>>> OBVIOUS
<1>2. e \in Entry /\ e[1] = Root /\ e[2] = <<>>
  <2>1. <<>> \in Seq(Names) /\ Root \in Spot BY DEF Spot
  <2>2. e \in Entry BY <1>1, <2>1 DEF Entry
  <2> QED BY <1>1, <2>2
<1>3. PICK todo : todo = <<e>> OBVIOUS
<1>4. todo \in Seq(Entry) /\ DOMAIN todo = {1} /\ todo[1] = e BY <1>2, <1>3
<1>5. PICK out : out = <<>> OBVIOUS
<1>6. out \in Seq(Entry) /\ DOMAIN out = {} BY <1>5
<1>7. ASSUME NEW i \in Ids, StableIn(t, {}, i) PROVE ToList(t, out, todo, i)
  <2>1. Root \in Over(t, i) BY <1>7 DEF StableIn, ReachedIn, Rooted
  <2>2. PathOf(t, Root) = <<>> BY TopOver
  <2> QED BY <1>2, <1>4, <1>6, <2>1, <2>2 DEF ToList
<1>8. WalkedIn(t, {}, out, todo) BY <1>4, <1>6, <1>7 DEF WalkedIn, Covered
<1> QED BY <1>1, <1>3, <1>5, <1>8

(* The entries of r are those of s and then those of t.                      *)
Joins(s, t, r) ==
  /\ \A k \in DOMAIN r :
       \/ k \in DOMAIN s /\ r[k] = s[k]
       \/ \E l \in DOMAIN t : k = Len(s) + l /\ r[k] = t[l]
  /\ \A k \in DOMAIN s : k \in DOMAIN r /\ r[k] = s[k]
  /\ \A l \in DOMAIN t : Len(s) + l \in DOMAIN r /\ r[Len(s) + l] = t[l]

LEMMA Joined ==
  ASSUME NEW S, NEW s \in Seq(S), NEW t \in Seq(S)
  PROVE  s \o t \in Seq(S) /\ Joins(s, t, s \o t)
<1>1. s \o t \in Seq(S) /\ Len(s \o t) = Len(s) + Len(t) /\ Len(s) \in Nat /\ Len(t) \in Nat OBVIOUS
<1>2. DOMAIN s = 1 .. Len(s) /\ DOMAIN t = 1 .. Len(t) /\ DOMAIN (s \o t) = 1 .. Len(s \o t) BY <1>1
<1>3. \A k \in 1 .. Len(s) + Len(t) : (s \o t)[k] = IF k <= Len(s) THEN s[k] ELSE t[k - Len(s)] OBVIOUS
<1>4. \A k \in DOMAIN s : k \in DOMAIN (s \o t) /\ (s \o t)[k] = s[k] BY <1>1, <1>2, <1>3
<1>5. ASSUME NEW l \in DOMAIN t PROVE Len(s) + l \in DOMAIN (s \o t) /\ (s \o t)[Len(s) + l] = t[l]
  <2>1. PICK k : k = Len(s) + l OBVIOUS
  <2>2. k \in 1 .. Len(s) + Len(t) /\ ~(k <= Len(s)) /\ k - Len(s) = l BY <1>1, <1>2, <2>1
  <2> QED BY <1>1, <1>2, <1>3, <2>1, <2>2
<1>6. ASSUME NEW k \in DOMAIN (s \o t), k \notin DOMAIN s
      PROVE  \E l \in DOMAIN t : k = Len(s) + l /\ (s \o t)[k] = t[l]
  <2>1. PICK l : l = k - Len(s) OBVIOUS
  <2>2. l \in DOMAIN t /\ k = Len(s) + l BY <1>1, <1>2, <1>6, <2>1
  <2> QED BY <1>5, <2>2
<1> QED BY <1>1, <1>4, <1>5, <1>6 DEF Joins

LEMMA TailAt ==
  ASSUME NEW S, NEW s \in Seq(S), s # <<>>
  PROVE  /\ Tail(s) \in Seq(S) /\ 1 \in DOMAIN s
         /\ \A l \in DOMAIN Tail(s) : l + 1 \in DOMAIN s /\ l + 1 # 1 /\ Tail(s)[l] = s[l + 1]
         /\ \A k \in DOMAIN s : k # 1 => k - 1 \in DOMAIN Tail(s) /\ Tail(s)[k - 1] = s[k]
<1>1. Len(s) \in Nat /\ Len(s) >= 1 BY EmptySeq
<1>2. Tail(s) \in Seq(S) /\ Len(Tail(s)) = Len(s) - 1 BY <1>1
<1>3. DOMAIN s = 1 .. Len(s) /\ DOMAIN Tail(s) = 1 .. Len(s) - 1 BY <1>1, <1>2
<1>4. ASSUME NEW l \in DOMAIN Tail(s) PROVE l + 1 \in DOMAIN s /\ l + 1 # 1 /\ Tail(s)[l] = s[l + 1]
  <2>1. l + 1 \in DOMAIN s /\ l + 1 # 1 BY <1>1, <1>3
  <2>2. Tail(s)[l] = s[l + 1] BY <1>1, <1>3
  <2> QED BY <2>1, <2>2
<1>5. ASSUME NEW k \in DOMAIN s, k # 1 PROVE k - 1 \in DOMAIN Tail(s) /\ Tail(s)[k - 1] = s[k]
  <2>1. PICK l : l = k - 1 OBVIOUS
  <2>2. l \in DOMAIN Tail(s) /\ l + 1 = k BY <1>1, <1>3, <1>5, <2>1
  <2> QED BY <1>4, <2>1, <2>2
<1> QED BY <1>1, <1>2, <1>3, <1>4, <1>5

(* What ListDirectory answers of folder a: its live entries, once each, the  *)
(* m folders first.                                                          *)
Lists(t, a, ids, m) ==
  /\ ids \in Seq(Ids) /\ m \in 0 .. Len(ids)
  /\ \A k \in 1 .. Len(ids) :
       /\ RowIn(t, ids[k]) /\ ~t[ids[k]].trashed /\ t[ids[k]].parent = a
       /\ t[ids[k]].kind = "folder" <=> k <= m
  /\ \A k, l \in 1 .. Len(ids) : ids[k] = ids[l] => k = l
  /\ \A i \in Ids : RowIn(t, i) /\ ~t[i].trashed /\ t[i].parent = a => \E k \in 1 .. Len(ids) : ids[k] = i

(* The entries it adds, under the path of the folder.                        *)
Adds(t, path, ids, n, A) ==
  /\ A \in Seq(Entry) /\ Len(A) = n
  /\ \A k \in 1 .. n : A[k][1] = ids[k] /\ A[k][2] = Append(path, t[ids[k]].name)

(* Reading folder todo[1] leaves an entry covered that is not below it.      *)
LEMMA ReadElsewhere ==
  ASSUME NEW t, Table(t), NEW out \in Seq(Entry), NEW todo \in Seq(Entry), todo # <<>>,
         NEW i \in Ids, ReachedIn(t, i), Covered(t, out, todo, i), todo[1][1] \notin Over(t, i),
         NEW ids, NEW m, Lists(t, todo[1][1], ids, m),
         NEW A, Adds(t, todo[1][2], ids, Len(ids), A), NEW B, Adds(t, todo[1][2], ids, m, B)
  PROVE  Covered(t, out \o A, B \o Tail(todo), i)
<1> DEFINE a == todo[1][1]
           o == out \o A
           d == B \o Tail(todo)
<1>1. Len(ids) \in Nat /\ m \in Nat /\ m <= Len(ids) BY DEF Lists
<1>2. A \in Seq(Entry) /\ DOMAIN A = 1 .. Len(ids) /\ B \in Seq(Entry) /\ DOMAIN B = 1 .. m BY <1>1 DEF Adds
<1>3. WayOK(t, i) /\ RowIn(t, i) BY RootedWay DEF ReachedIn, Rooted
<1>4. t[i].parent \in Over(t, i) BY RootedUp DEF ReachedIn
<1>5. \A k \in DOMAIN A : A[k][1] # i
  <2>1. \A k \in 1 .. Len(ids) : t[ids[k]].parent = a BY DEF Lists
  <2> QED BY <1>2, <1>4, <2>1 DEF Adds
<1>6. \A k \in DOMAIN B : B[k][1] \notin Over(t, i)
  <2> SUFFICES ASSUME NEW k \in 1 .. m, B[k][1] \in Over(t, i) PROVE FALSE BY <1>2
  <2>1. k \in 1 .. Len(ids) BY <1>1
  <2>2. RowIn(t, ids[k]) /\ t[ids[k]].parent = a BY <2>1 DEF Lists
  <2>3. ids[k] \in Over(t, i) BY DEF Adds
  <2>4. ids[k] # Root BY <2>2, TopOver
  <2> QED BY <1>3, <2>2, <2>3, <2>4 DEF WayOK
<1>7. Joins(out, A, o) BY <1>2, Joined
<1>8. /\ Tail(todo) \in Seq(Entry) /\ 1 \in DOMAIN todo
      /\ \A l \in DOMAIN Tail(todo) : l + 1 \in DOMAIN todo /\ l + 1 # 1 /\ Tail(todo)[l] = todo[l + 1]
      /\ \A k \in DOMAIN todo : k # 1 => k - 1 \in DOMAIN Tail(todo) /\ Tail(todo)[k - 1] = todo[k]
  BY TailAt
<1>9. Joins(B, Tail(todo), d)
  <2>1. Tail(todo) \in Seq(Entry) BY <1>8
  <2> QED BY <1>2, <2>1, Joined
<1> HIDE DEF o, d
<1>10. CASE ListedOnce(t, out, todo, i)
  <2>1. PICK k \in DOMAIN out : out[k] = <<i, PathOf(t, i)>> /\ \A l \in DOMAIN out : out[l][1] = i => l = k
    BY <1>10 DEF ListedOnce
  <2>2. k \in DOMAIN o /\ o[k] = <<i, PathOf(t, i)>> /\ \A l \in DOMAIN o : o[l][1] = i => l = k
    BY <1>5, <1>7, <2>1 DEF Joins
  <2>3. \A l \in DOMAIN todo : todo[l][1] \notin Over(t, i) BY <1>10 DEF ListedOnce
  <2>4. \A l \in DOMAIN d : d[l][1] \notin Over(t, i) BY <1>6, <1>8, <1>9, <2>3 DEF Joins
  <2>5. ListedOnce(t, o, d, i) BY <2>2, <2>4 DEF ListedOnce
  <2> QED BY <2>5 DEF Covered, o, d
<1>11. CASE ToList(t, out, todo, i)
  <2>1. \A l \in DOMAIN o : o[l][1] # i BY <1>5, <1>7, <1>11 DEF ToList, Joins
  <2>2. PICK k \in DOMAIN todo :
          /\ todo[k][1] \in Over(t, i) /\ todo[k][2] = PathOf(t, todo[k][1])
          /\ \A l \in DOMAIN todo : todo[l][1] \in Over(t, i) => l = k
    BY <1>11 DEF ToList
  <2>3. k # 1 BY <2>2
  <2>4. PICK j : j = k - 1 OBVIOUS
  <2>5. j \in DOMAIN Tail(todo) /\ Tail(todo)[j] = todo[k] BY <1>8, <2>3, <2>4
  <2>6. PICK q : q = Len(B) + j OBVIOUS
  <2>7. q \in DOMAIN d /\ d[q] = todo[k] BY <1>9, <2>5, <2>6 DEF Joins
  <2>8. ASSUME NEW l \in DOMAIN d, d[l][1] \in Over(t, i) PROVE l = q
    <3>1. l \notin DOMAIN B \/ d[l] # B[l] BY <1>6, <2>8
    <3>2. PICK r \in DOMAIN Tail(todo) : l = Len(B) + r /\ d[l] = Tail(todo)[r] BY <1>9, <3>1 DEF Joins
    <3>3. PICK v : v = r + 1 OBVIOUS
    <3>4. v \in DOMAIN todo /\ Tail(todo)[r] = todo[v] BY <1>8, <3>3
    <3>5. v = k BY <2>2, <2>8, <3>2, <3>4
    <3>6. r \in Int /\ k \in Int BY <1>8, <3>2
    <3>7. r = j BY <2>4, <3>3, <3>5, <3>6
    <3> QED BY <2>6, <3>2, <3>7
  <2>9. ToList(t, o, d, i) BY <2>1, <2>2, <2>7, <2>8 DEF ToList
  <2> QED BY <2>9 DEF Covered, o, d
<1> QED BY <1>10, <1>11 DEF Covered

(* Reading the folder through which an entry is still to be listed.          *)
LEMMA ReadOnWay ==
  ASSUME NEW t, Table(t), NEW out \in Seq(Entry), NEW todo \in Seq(Entry), todo # <<>>,
         NEW i \in Ids, ReachedIn(t, i), ToList(t, out, todo, i), todo[1][1] \in Over(t, i),
         NEW ids, NEW m, Lists(t, todo[1][1], ids, m),
         NEW A, Adds(t, todo[1][2], ids, Len(ids), A), NEW B, Adds(t, todo[1][2], ids, m, B)
  PROVE  Covered(t, out \o A, B \o Tail(todo), i)
<1> DEFINE a == todo[1][1]
           o == out \o A
           d == B \o Tail(todo)
<1>1. Len(ids) \in Nat /\ m \in Nat /\ m <= Len(ids) BY DEF Lists
<1>2. A \in Seq(Entry) /\ DOMAIN A = 1 .. Len(ids) /\ B \in Seq(Entry) /\ DOMAIN B = 1 .. m BY <1>1 DEF Adds
<1>3. WayOK(t, i) /\ RowIn(t, i) BY RootedWay DEF ReachedIn, Rooted
<1>4. PICK c : OnWay(t, i, a, c) BY <1>3 DEF WayOK
<1>5. /\ Tail(todo) \in Seq(Entry) /\ 1 \in DOMAIN todo
      /\ \A l \in DOMAIN Tail(todo) : l + 1 \in DOMAIN todo /\ l + 1 # 1 /\ Tail(todo)[l] = todo[l + 1]
  BY TailAt
<1>6. todo[1][2] = PathOf(t, a) /\ \A l \in DOMAIN todo : todo[l][1] \in Over(t, i) => l = 1
  BY <1>5 DEF ToList
<1>7. \A l \in DOMAIN Tail(todo) : Tail(todo)[l][1] \notin Over(t, i) BY <1>5, <1>6
<1>8. Joins(out, A, o) BY <1>2, Joined
<1>9. Joins(B, Tail(todo), d)
  <2>1. Tail(todo) \in Seq(Entry) BY <1>5
  <2> QED BY <1>2, <2>1, Joined
<1>10. \A l \in DOMAIN out : out[l][1] # i BY DEF ToList
<1>11. c \in {i} \cup Over(t, i) /\ RowIn(t, c) /\ t[c].parent = a /\ c \in Ids /\ c # Root
  BY <1>4, TopOver DEF OnWay, RowIn
<1>12. Rooted(t, c)
  <2>1. CASE c = i BY <2>1 DEF ReachedIn
  <2>2. CASE c # i BY <1>3, <1>11, <2>2 DEF WayOK
  <2> QED BY <2>1, <2>2
<1>13. PathOf(t, c) = Append(PathOf(t, a), t[c].name) BY <1>11, <1>12, RootedUp
<1>14. ~t[c].trashed BY <1>11 DEF ReachedIn
<1>15. PICK q \in 1 .. Len(ids) : ids[q] = c BY <1>11, <1>14 DEF Lists
<1>16. /\ A[q][1] = c /\ A[q][2] = PathOf(t, c)
       /\ \A l \in 1 .. Len(ids) : A[l][1] \in {i} \cup Over(t, i) => l = q
  <2>1. A[q][1] = c /\ A[q][2] = PathOf(t, c) BY <1>6, <1>13, <1>15 DEF Adds
  <2>2. ASSUME NEW l \in 1 .. Len(ids), A[l][1] \in {i} \cup Over(t, i) PROVE l = q
    <3>1. A[l][1] = ids[l] BY DEF Adds
    <3>2. RowIn(t, ids[l]) /\ t[ids[l]].parent = a BY DEF Lists
    <3>3. ids[l] = c BY <1>4, <2>2, <3>1, <3>2 DEF OnWay
    <3> QED BY <1>15, <3>3 DEF Lists
  <2> QED BY <2>1, <2>2
<1>17. \A l \in 1 .. m : B[l][1] = A[l][1] /\ B[l][2] = A[l][2] /\ l \in 1 .. Len(ids)
  <2> SUFFICES ASSUME NEW l \in 1 .. m PROVE B[l][1] = A[l][1] /\ B[l][2] = A[l][2] /\ l \in 1 .. Len(ids)
    OBVIOUS
  <2>1. l \in 1 .. Len(ids) BY <1>1
  <2>2. B[l][1] = ids[l] /\ B[l][2] = Append(todo[1][2], t[ids[l]].name) BY DEF Adds
  <2>3. A[l][1] = ids[l] /\ A[l][2] = Append(todo[1][2], t[ids[l]].name) BY <2>1 DEF Adds
  <2> QED BY <2>1, <2>2, <2>3
<1> HIDE DEF o, d
<1>18. CASE c = i
  <2>1. PICK k : k = Len(out) + q OBVIOUS
  <2>2. k \in DOMAIN o /\ o[k] = A[q] BY <1>2, <1>8, <2>1 DEF Joins
  <2>3. A[q] = <<i, PathOf(t, i)>>
    <3>1. A[q] \in Entry BY <1>2
    <3> QED BY <1>16, <1>18, <3>1 DEF Entry
  <2>4. \A l \in DOMAIN o : o[l][1] = i => l = k BY <1>2, <1>8, <1>10, <1>16, <2>1 DEF Joins
  <2>5. \A l \in DOMAIN d : d[l][1] \notin Over(t, i)
    <3>1. ASSUME NEW l \in DOMAIN B, B[l][1] \in Over(t, i) PROVE FALSE
      <4>1. A[l][1] = c BY <1>2, <1>16, <1>17, <3>1
      <4> QED BY <1>2, <1>3, <1>17, <1>18, <3>1, <4>1 DEF WayOK
    <3> QED BY <1>7, <1>9, <3>1 DEF Joins
  <2>6. ListedOnce(t, o, d, i) BY <2>2, <2>3, <2>4, <2>5 DEF ListedOnce
  <2> QED BY <2>6 DEF Covered, o, d
<1>19. CASE c # i
  <2>1. c \in Over(t, i) /\ t[c].kind = "folder" BY <1>11, <1>19 DEF ReachedIn
  <2>2. q \in 1 .. m BY <1>1, <1>15, <2>1 DEF Lists
  <2>3. q \in DOMAIN d /\ d[q] = B[q] BY <1>2, <1>9, <2>2 DEF Joins
  <2>4. d[q][1] = c /\ d[q][2] = PathOf(t, c) BY <1>16, <1>17, <2>2, <2>3
  <2>5. \A l \in DOMAIN d : d[l][1] \in Over(t, i) => l = q
    <3> SUFFICES ASSUME NEW l \in DOMAIN d, d[l][1] \in Over(t, i) PROVE l = q OBVIOUS
    <3>1. l \in DOMAIN B /\ d[l] = B[l] BY <1>7, <1>9 DEF Joins
    <3>2. l \in 1 .. Len(ids) /\ A[l][1] \in Over(t, i) BY <1>2, <1>17, <3>1
    <3> QED BY <1>16, <3>2
  <2>6. \A l \in DOMAIN o : o[l][1] # i
    <3>1. ASSUME NEW l \in DOMAIN A, A[l][1] = i PROVE FALSE
      <4>1. l = q BY <1>2, <1>16, <3>1
      <4> QED BY <1>16, <1>19, <3>1, <4>1
    <3> QED BY <1>8, <1>10, <3>1 DEF Joins
  <2>7. ToList(t, o, d, i) BY <2>1, <2>3, <2>4, <2>5, <2>6 DEF ToList
  <2> QED BY <2>7 DEF Covered, o, d
<1> QED BY <1>18, <1>19

(* One folder of the walk.                                                   *)
LEMMA WalkReads ==
  ASSUME NEW t, Table(t), NEW x, NEW out, NEW todo, WalkedIn(t, x, out, todo), todo # <<>>,
         NEW ids, NEW m, Lists(t, todo[1][1], ids, m),
         NEW A, Adds(t, todo[1][2], ids, Len(ids), A), NEW B, Adds(t, todo[1][2], ids, m, B)
  PROVE  WalkedIn(t, x, out \o A, B \o Tail(todo))
<1>1. out \in Seq(Entry) /\ todo \in Seq(Entry) /\ A \in Seq(Entry) /\ B \in Seq(Entry) BY DEF WalkedIn, Adds
<1>2. out \o A \in Seq(Entry) BY <1>1, Joined
<1>3. B \o Tail(todo) \in Seq(Entry)
  <2>1. Tail(todo) \in Seq(Entry) BY <1>1, TailAt
  <2> QED BY <1>1, <2>1, Joined
<1>4. ASSUME NEW i \in Ids, StableIn(t, x, i) PROVE Covered(t, out \o A, B \o Tail(todo), i)
  <2>1. ReachedIn(t, i) /\ Covered(t, out, todo, i) BY <1>4 DEF StableIn, WalkedIn
  <2>2. CASE todo[1][1] \notin Over(t, i) BY <1>1, <2>1, <2>2, ReadElsewhere
  <2>3. CASE todo[1][1] \in Over(t, i)
    <3>1. 1 \in DOMAIN todo BY <1>1, TailAt
    <3>2. ToList(t, out, todo, i) BY <2>1, <2>3, <3>1 DEF Covered, ListedOnce
    <3> QED BY <1>1, <2>1, <2>3, <3>2, ReadOnWay
  <2> QED BY <2>2, <2>3
<1> QED BY <1>2, <1>3, <1>4 DEF WalkedIn

-----------------------------------------------------------------------------
(* REST requests.                                                           *)

LEMMA JobAt ==
  ASSUME JobsOK, NEW w \in Workers
  PROVE  IsJob(job[w]) /\ JobOK(job[w])
BY DEF JobsOK

(* The request goes on at another statement.                                 *)
LEMMA AtPc ==
  ASSUME NEW j, IsJob(j), NEW pc
  PROVE  LET d == [j EXCEPT !.pc = pc]
         IN  /\ IsJob(d) /\ d.pc = pc /\ d.op = j.op /\ d.path = j.path /\ d.dest = j.dest
             /\ d.src = j.src /\ d.dst = j.dst /\ d.name = j.name /\ d.kind = j.kind
             /\ d.todo = j.todo /\ d.at = j.at
BY DEF IsJob

LEMMA CreateKeeps ==
  ASSUME TreeIInv, NEW w \in Workers, NEW k \in {"file", "folder"}, Create(w, k), UNCHANGED <<locks, held>>
  PROVE  TreeIInv'
<1>1. PICK p \in Places, n \in Names :
        Given(p) /\ Arrive(w, [Idle EXCEPT !.op = "create", !.pc = "lookup", !.dst = p, !.name = n, !.kind = k])
  BY DEF Create, Places, Given
<1>2. PICK j : j = [Idle EXCEPT !.op = "create", !.pc = "lookup", !.dst = p, !.name = n, !.kind = k] OBVIOUS
<1>3. /\ IsJob(j) /\ j.op = "create" /\ j.pc = "lookup" /\ j.dst = p /\ j.name = n /\ j.kind = k
  BY <1>2 DEF Idle, IsJob
<1>4. JobOK(j) BY <1>1, <1>3 DEF JobOK
<1>5. ~Counting(j) /\ ~Checked(j) BY <1>3 DEF Counting, Checked
<1>6. Arrive(w, j) BY <1>1, <1>2
<1> QED BY <1>3, <1>4, <1>5, <1>6, Arrived

LEMMA UpdateArrives ==
  ASSUME TreeIInv, NEW w \in Workers, NEW i \in Ids, NEW p \in Ids \cup {None}, NEW n \in Names \cup {None},
         NEW pc \in {"parent", "name", "update"}, pc = "update" => n # None,
         Given(p), Arrive(w, [Idle EXCEPT !.op = "update", !.src = i, !.dst = p, !.name = n, !.pc = pc]),
         UNCHANGED <<locks, held>>
  PROVE  TreeIInv'
<1>1. PICK j : j = [Idle EXCEPT !.op = "update", !.src = i, !.dst = p, !.name = n, !.pc = pc] OBVIOUS
<1>2. IsJob(j) /\ j.op = "update" /\ j.pc = pc /\ j.dst = p /\ j.name = n /\ j.kind = "file"
  BY <1>1 DEF Idle, IsJob
<1>3. JobOK(j) BY <1>2 DEF JobOK, Places
<1>4. ~Counting(j) /\ ~Checked(j) BY <1>2 DEF Counting, Checked
<1>5. Arrive(w, j) BY <1>1
<1> QED BY <1>2, <1>3, <1>4, <1>5, Arrived

LEMMA RemoveArrives ==
  ASSUME TreeIInv, NEW w \in Workers, NEW i \in Ids, NEW op \in {"trash", "restore", "purge"},
         RemoveEntry(w, i, op), UNCHANGED <<locks, held>>
  PROVE  TreeIInv'
<1>1. PICK j : j = [Idle EXCEPT !.op = op, !.src = i, !.pc = op] OBVIOUS
<1>2. IsJob(j) /\ j.op = op /\ j.pc = op /\ j.kind = "file" /\ j.dst = Root BY <1>1 DEF Idle, IsJob
<1>3. JobOK(j) BY <1>2, GivenRoot DEF JobOK
<1>4. ~Counting(j) /\ ~Checked(j) BY <1>2 DEF Counting, Checked
<1>5. Arrive(w, j) BY <1>1 DEF RemoveEntry
<1> QED BY <1>2, <1>3, <1>4, <1>5, Arrived

LEMMA RestArrives ==
  ASSUME TreeIInv, NEW w \in Workers, UNCHANGED <<locks, held>>,
         \/ createFile(w) \/ createFolder(w) \/ updateFile(w) \/ updateFolder(w)
         \/ deleteFile(w) \/ deleteFolder(w) \/ restoreItem(w) \/ permanentDelete(w) \/ ListAllFiles(w)
  PROVE  TreeIInv'
<1>1. CASE createFile(w) \/ createFolder(w) BY <1>1, CreateKeeps DEF createFile, createFolder
<1>2. CASE updateFile(w)
  <2>1. PICK i \in Ids, p \in Ids \cup {None}, n \in Names \cup {None} :
          /\ (p # None \/ n # None) /\ Given(p)
          /\ Arrive(w, [Idle EXCEPT !.op = "update", !.src = i, !.dst = p, !.name = n,
                                    !.pc = IF p # None THEN "parent" ELSE "update"])
    BY <1>2 DEF updateFile, Given
  <2>2. PICK pc \in {"parent", "name", "update"} : pc = IF p # None THEN "parent" ELSE "update" OBVIOUS
  <2> QED BY <2>1, <2>2, UpdateArrives
<1>3. CASE updateFolder(w)
  <2>1. PICK i \in Ids, p \in Ids \cup {None}, n \in Names \cup {None} :
          /\ (p # None \/ n # None) /\ Given(p)
          /\ Arrive(w, [Idle EXCEPT !.op = "update", !.src = i, !.dst = p, !.name = n,
                                    !.pc = IF p # None /\ n = None THEN "name" ELSE "update"])
    BY <1>3 DEF updateFolder, Given
  <2>2. PICK pc \in {"parent", "name", "update"} : pc = IF p # None /\ n = None THEN "name" ELSE "update" OBVIOUS
  <2> QED BY <2>1, <2>2, UpdateArrives
<1>4. CASE deleteFile(w) \/ deleteFolder(w) \/ restoreItem(w) \/ permanentDelete(w)
  BY <1>4, RemoveArrives DEF deleteFile, deleteFolder, restoreItem, permanentDelete
<1>5. CASE ListAllFiles(w)
  <2>1. PICK j : j = [Idle EXCEPT !.op = "walk", !.pc = "walk", !.todo = <<<<Root, <<>>>>>>] OBVIOUS
  <2>2. IsJob(j) /\ j.op = "walk" /\ j.pc = "walk" /\ j.kind = "file" /\ j.dst = Root BY <2>1 DEF Idle, IsJob
  <2>3. JobOK(j) BY <2>2, GivenRoot DEF JobOK
  <2>4. ~Counting(j) /\ ~Checked(j) BY <2>2 DEF Counting, Checked
  <2>5. Arrive(w, j) BY <1>5, <2>1 DEF ListAllFiles
  <2> QED BY <2>2, <2>3, <2>4, <2>5, Arrived
<1> QED BY <1>1, <1>2, <1>3, <1>4, <1>5

(* A lookup that ends the request or goes on to statement pc.                *)
LEMMA LookupKeeps ==
  ASSUME TreeIInv, NEW w \in Workers, NEW pc, Became(w, Idle) \/ Became(w, [job[w] EXCEPT !.pc = pc]),
         (job[w].pc = "lookup" /\ pc = "insert") \/ (job[w].pc = "copyLookup" /\ pc = "copyRoot"),
         UNCHANGED <<file, next, manifests, refs, touched, requests, locks, held>>
  PROVE  TreeIInv'
<1>1. CASE Became(w, Idle) BY <1>1, Ended DEF Became, Finish
<1>2. CASE Became(w, [job[w] EXCEPT !.pc = pc])
  <2>1. PICK j : j = [job[w] EXCEPT !.pc = pc] OBVIOUS
  <2>2. IsJob(job[w]) /\ JobOK(job[w]) BY JobAt DEF TreeIInv
  <2>3. /\ IsJob(j) /\ j.pc = pc /\ j.op = job[w].op /\ j.dst = job[w].dst /\ j.name = job[w].name
        /\ j.kind = job[w].kind /\ j.todo = job[w].todo
    BY <2>1, <2>2, AtPc
  <2>4. JobOK(j) BY <2>2, <2>3 DEF JobOK
  <2>5. (Counting(j) => Counting(job[w])) /\ ~Checked(j) BY <2>3 DEF Counting, Checked
  <2>6. LocksStep(w, j) BY <2>5 DEF LocksStep
  <2>7. touched' \in [Workers -> SUBSET Ids] /\ requests' \in 0 .. MaxRequests BY DEF TreeIInv, TreeTypes
  <2>8. Became(w, j) BY <1>2, <2>1
  <2> QED BY <2>3, <2>4, <2>5, <2>6, <2>7, <2>8, Quiet
<1> QED BY <1>1, <1>2

LEMMA CreateLookupKeeps ==
  ASSUME TreeIInv, NEW w \in Workers, CreateLookup(w), UNCHANGED <<locks, held>>
  PROVE  TreeIInv'
<1>1. Became(w, Idle) \/ Became(w, [job[w] EXCEPT !.pc = "insert"])
  BY DEF CreateLookup, Became, TreeIInv, JobsOK
<1>2. job[w].pc = "lookup" /\ UNCHANGED <<file, next, manifests, refs, touched, requests>>
  BY DEF CreateLookup
<1> QED BY <1>1, <1>2, LookupKeeps

LEMMA CopyLookupKeeps ==
  ASSUME TreeIInv, NEW w \in Workers, CopyLookup(w), UNCHANGED <<locks, held>>
  PROVE  TreeIInv'
<1>1. Became(w, Idle) \/ Became(w, [job[w] EXCEPT !.pc = "copyRoot"])
  BY DEF CopyLookup, Became, TreeIInv, JobsOK
<1>2. job[w].pc = "copyLookup" /\ UNCHANGED <<file, next, manifests, refs, touched, requests>>
  BY DEF CopyLookup
<1> QED BY <1>1, <1>2, LookupKeeps

LEMMA CreateInsertKeeps ==
  ASSUME TreeIInv, NEW w \in Workers, CreateInsert(w), UNCHANGED <<locks, held>>
  PROVE  TreeIInv'
<1>1. IsJob(job[w]) /\ JobOK(job[w]) BY JobAt DEF TreeIInv
<1>2. PICK r : r = [parent |-> job[w].dst, name |-> job[w].name,
                    kind |-> job[w].kind, trashed |-> FALSE, link |-> None] OBVIOUS
<1>3. r \in Row /\ r.link = None /\ Given(r.parent)
  <2>1. job[w].dst \in Places /\ job[w].name \in Names /\ job[w].kind \in {"file", "folder"}
         /\ Given(job[w].dst)
    BY <1>1 DEF JobOK, CreateInsert
  <2> QED BY <1>2, <2>1 DEF Row, Places
<1>4. PICK d : d = IF job[w].op = "put" THEN [job[w] EXCEPT !.src = next, !.pc = "manifest"] ELSE Idle OBVIOUS
<1>5. CreateFile(w, r, d, Idle) BY <1>2, <1>4 DEF CreateInsert
<1>6. CASE job[w].op = "put"
  <2>1. IsJob(d) /\ d.pc = "manifest" /\ d.op = "put" /\ d.src = next /\ d.kind = job[w].kind
        /\ d.dst = job[w].dst
    BY <1>1, <1>4, <1>6 DEF IsJob
  <2>2. next < next + 1 BY TreeAssumption DEF TreeIInv, TreeTypes
  <2>3. ASSUME next' = next + 1 PROVE JobOK(d)'
    <3>1. Given(job[w].dst) BY <1>1 DEF JobOK
    <3>2. Given(d.dst)' BY <2>1, <2>3, <3>1, GivenMore DEF TreeIInv
    <3> QED BY <1>1, <2>1, <2>2, <2>3, <3>2 DEF JobOK
  <2>4. Counting(job[w]) BY <1>6 DEF Counting, CreateInsert
  <2>5. ~Checked(d) BY <2>1 DEF Checked
  <2> QED BY <1>3, <1>5, <2>1, <2>3, <2>4, <2>5, Created DEF CreateInsert
<1>7. CASE job[w].op # "put"
  <2>1. IsJob(d) /\ JobOK(d)' /\ ~Counting(d) /\ ~Checked(d) BY <1>4, <1>7, IdleOK
  <2> QED BY <1>3, <1>5, <2>1, Created DEF CreateInsert
<1> QED BY <1>6, <1>7

LEMMA updateParentKeeps ==
  ASSUME TreeIInv, NEW w \in Workers, updateParent(w), UNCHANGED <<locks, held>>
  PROVE  TreeIInv'
<1>1. IsJob(job[w]) /\ JobOK(job[w]) BY JobAt DEF TreeIInv
<1>2. PICK pc : pc = IF job[w].name = None THEN "name" ELSE "update" OBVIOUS
<1>3. Became(w, Idle) \/ Became(w, [job[w] EXCEPT !.pc = pc])
  BY <1>2 DEF updateParent, Became, TreeIInv, JobsOK
<1>4. CASE Became(w, Idle) BY <1>4, Ended DEF Became, Finish, updateParent
<1>5. CASE Became(w, [job[w] EXCEPT !.pc = pc])
  <2>1. PICK j : j = [job[w] EXCEPT !.pc = pc] OBVIOUS
  <2>2. /\ IsJob(j) /\ j.pc = pc /\ j.op = job[w].op /\ j.dst = job[w].dst /\ j.name = job[w].name
        /\ j.kind = job[w].kind
    BY <1>1, <2>1, AtPc
  <2>3. /\ j.op = "update" /\ j.pc \in {"name", "update"} /\ (j.pc = "update" => j.name \in Names)
        /\ j.dst \in Places \cup {None} /\ Given(j.dst) /\ j.kind \in {"file", "folder"}
    BY <1>1, <1>2, <2>2 DEF JobOK, updateParent
  <2>4. JobOK(j) BY <2>3 DEF JobOK
  <2>5. ~Counting(j) /\ ~Checked(j) BY <2>3 DEF Counting, Checked
  <2>6. LocksStep(w, j) BY <2>5 DEF LocksStep
  <2>7. touched' \in [Workers -> SUBSET Ids] /\ requests' \in 0 .. MaxRequests
    BY DEF TreeIInv, TreeTypes, updateParent
  <2>8. Became(w, j) BY <1>5, <2>1
  <2> QED BY <2>2, <2>4, <2>5, <2>6, <2>7, <2>8, Quiet DEF updateParent
<1> QED BY <1>3, <1>4, <1>5

LEMMA MoveNameKeeps ==
  ASSUME TreeIInv, NEW w \in Workers, MoveName(w), UNCHANGED <<locks, held>>
  PROVE  TreeIInv'
<1>1. IsJob(job[w]) /\ JobOK(job[w]) BY JobAt DEF TreeIInv
<1>2. \/ Became(w, Idle)
      \/ IsRow(job[w].src) /\ Became(w, [job[w] EXCEPT !.name = file[job[w].src].name, !.pc = "update"])
  BY DEF MoveName, Became, TreeIInv, JobsOK
<1>3. CASE Became(w, Idle) BY <1>3, Ended DEF Became, Finish, MoveName
<1>4. CASE IsRow(job[w].src) /\ Became(w, [job[w] EXCEPT !.name = file[job[w].src].name, !.pc = "update"])
  <2>1. PICK j : j = [job[w] EXCEPT !.name = file[job[w].src].name, !.pc = "update"] OBVIOUS
  <2>2. /\ IsJob(j) /\ j.pc = "update" /\ j.op = job[w].op /\ j.dst = job[w].dst
        /\ j.name = file[job[w].src].name /\ j.kind = job[w].kind
    BY <1>1, <2>1 DEF IsJob
  <2>3. j.name \in Names
    <3>1. file[job[w].src] \in Row BY <1>4 DEF IsRow, TreeIInv, TreeTypes
    <3> QED BY <2>2, <3>1 DEF Row
  <2>4. j.op = "update" /\ j.dst \in Places \cup {None} /\ Given(j.dst) /\ j.kind \in {"file", "folder"}
    BY <1>1, <2>2 DEF JobOK, MoveName
  <2>5. JobOK(j) BY <2>2, <2>3, <2>4 DEF JobOK
  <2>6. ~Counting(j) /\ ~Checked(j) BY <2>4 DEF Counting, Checked
  <2>7. LocksStep(w, j) BY <2>6 DEF LocksStep
  <2>8. touched' \in [Workers -> SUBSET Ids] /\ requests' \in 0 .. MaxRequests
    BY DEF TreeIInv, TreeTypes, MoveName
  <2>9. Became(w, j) BY <1>4, <2>1
  <2> QED BY <2>2, <2>5, <2>6, <2>7, <2>8, <2>9, Quiet DEF MoveName
<1> QED BY <1>2, <1>3, <1>4

LEMMA MoveFileKeeps ==
  ASSUME TreeIInv, NEW w \in Workers, MoveFile(w), UNCHANGED <<locks, held>>
  PROVE  TreeIInv'
<1>1. TreeTypes /\ NamesDistinct /\ RowsOK BY DEF TreeIInv
<1>2. job[w].name \in Names /\ job[w].dst \in Places \cup {None} /\ Given(job[w].dst)
  BY JobAt DEF TreeIInv, JobOK, MoveFile
<1>3. PICK i : i = job[w].src OBVIOUS
<1>4. PICK p : p = IF job[w].dst # None THEN job[w].dst ELSE IF IsRow(i) THEN file[i].parent ELSE Root OBVIOUS
<1>5. PICK n : n = job[w].name OBVIOUS
<1>6. PICK fk \in FKModes : IF IsRow(i) THEN UpdateRow(w, i, Changed(i, p, n), fk) ELSE UNCHANGED <<file, touched>>
  BY <1>3, <1>4, <1>5 DEF MoveFile
<1>7. CASE ~IsRow(i) BY <1>6, <1>7, Ended DEF MoveFile
<1>8. CASE IsRow(i)
  <2>1. i \in Ids /\ file[i] # None /\ file[i] \in Row BY <1>1, <1>8 DEF IsRow, TreeTypes
  <2>2. p \in Places /\ Given(p)
    <3>1. file[i].parent \in Places /\ Given(file[i].parent) BY <1>1, <1>8, <2>1 DEF Row, Places, RowsOK
    <3> QED BY <1>2, <1>4, <1>8, <3>1
  <2>3. PICK r : r = Changed(i, p, n) OBVIOUS
  <2>4. r \in Row /\ r.parent = p /\ r.name = n /\ r.link = file[i].link
    BY <1>2, <1>5, <2>1, <2>2, <2>3 DEF Changed, Row, Places
  <2>5. UpdateRow(w, i, r, fk) BY <1>6, <1>8, <2>3
  <2>6. Write(w, file') BY <2>5 DEF UpdateRow, Write
  <2>7. \/ NameFree(i, r.parent, r.name) /\ file' = [file EXCEPT ![i] = r]
        \/ file' = file
    BY <2>5 DEF UpdateRow, Write
  <2>8. UNCHANGED <<next, manifests, refs, requests>> BY DEF MoveFile
  <2>9. TableKept
    <3>1. CASE file' = file BY <1>1, <2>8, <3>1, TableSame
    <3>2. CASE NameFree(i, r.parent, r.name) /\ file' = [file EXCEPT ![i] = r]
      BY <1>1, <2>1, <2>2, <2>4, <2>8, <3>2, Replaced
    <3> QED BY <2>7, <3>1, <3>2
  <2> QED BY <2>6, <2>8, <2>9, Written DEF MoveFile
<1> QED BY <1>7, <1>8

(* An UPDATE of a column that is neither parent nor name.                    *)
LEMMA ColumnSet ==
  ASSUME TreeIInv, NEW w \in Workers, NEW i \in Ids, NEW r \in Row, file[i] # None,
         Write(w, [file EXCEPT ![i] = r]), r.parent = file[i].parent, r.name = file[i].name,
         r.link = file[i].link \/ Here(r.link), Finish(w),
         UNCHANGED <<next, manifests, refs, requests, locks, held>>
  PROVE  TreeIInv'
<1>1. TreeTypes /\ NamesDistinct /\ RowsOK BY DEF TreeIInv
<1>2. file' = [file EXCEPT ![i] = r] /\ Write(w, file') BY DEF Write
<1>3. Given(r.parent) BY <1>1 DEF RowsOK, IsRow
<1>4. TableKept BY <1>1, <1>2, <1>3, Replaced
<1> QED BY <1>2, <1>4, Written

LEMMA NoRow ==
  ASSUME TreeIInv, NEW w \in Workers, Write(w, file), Finish(w),
         UNCHANGED <<next, manifests, refs, requests, locks, held>>
  PROVE  TreeIInv'
<1>1. file' = file /\ Write(w, file') BY DEF Write
<1>2. TableKept BY <1>1, TableSame DEF TreeIInv
<1> QED BY <1>1, <1>2, Written

LEMMA TrashKeeps ==
  ASSUME TreeIInv, NEW w \in Workers, SoftDelete(w) \/ RestoreFromTrash(w), UNCHANGED <<locks, held>>
  PROVE  TreeIInv'
<1>1. PICK i : i = job[w].src OBVIOUS
<1>2. PICK b \in BOOLEAN :
        /\ Write(w, IF IsRow(i) THEN [file EXCEPT ![i].trashed = b] ELSE file)
        /\ Finish(w) /\ UNCHANGED <<next, manifests, refs, requests>>
  BY <1>1 DEF SoftDelete, RestoreFromTrash
<1>3. CASE ~IsRow(i)
  <2>1. Write(w, file) BY <1>2, <1>3
  <2> QED BY <1>2, <2>1, NoRow
<1>4. CASE IsRow(i)
  <2>1. i \in Ids /\ file[i] # None /\ file[i] \in Row /\ DOMAIN file = Ids
    BY <1>4 DEF IsRow, TreeTypes, TreeIInv
  <2>2. PICK r : r = [file[i] EXCEPT !.trashed = b] OBVIOUS
  <2>3. r \in Row /\ r.parent = file[i].parent /\ r.name = file[i].name /\ r.link = file[i].link
    BY <2>1, <2>2 DEF Row
  <2>4. [file EXCEPT ![i].trashed = b] = [file EXCEPT ![i] = r] BY <2>1, <2>2
  <2>5. Write(w, [file EXCEPT ![i] = r]) BY <1>2, <1>4, <2>4
  <2> QED BY <1>2, <2>1, <2>3, <2>5, ColumnSet
<1> QED BY <1>3, <1>4

LEMMA DeletePermanentKeeps ==
  ASSUME TreeIInv, NEW w \in Workers, DeletePermanent(w), UNCHANGED <<locks, held>>
  PROVE  TreeIInv'
<1>1. PICK gone :
        /\ Write(w, [j \in Ids |-> IF j \in gone THEN None ELSE file[j]])
        /\ manifests' = manifests \/ manifests' = manifests \ gone
  BY DEF DeletePermanent, PermanentDelete
<1>2. /\ file' = [j \in Ids |-> IF j \in gone THEN None ELSE file[j]] /\ Write(w, file')
  BY <1>1 DEF Write
<1>3. TableKept BY <1>1, <1>2, Removed DEF TreeIInv, DeletePermanent
<1> QED BY <1>1, <1>2, <1>3, Written DEF DeletePermanent

-----------------------------------------------------------------------------
(* Copies and walks.                                                        *)

LEMMA TodoParts ==
  ASSUME NEW todo, TodoOK(todo), todo # <<>>
  PROVE  /\ Head(todo) \in Item
         /\ Given(Head(todo)[3]) /\ (Head(todo)[2].link # None => Here(Head(todo)[2].link))
         /\ TodoOK(Tail(todo))
<1>1. todo \in Seq(Item) BY DEF TodoOK
<1>2. /\ Head(todo) \in Item /\ Tail(todo) \in Seq(Item) /\ Len(Tail(todo)) = Len(todo) - 1
      /\ \A i \in 1 .. Len(Tail(todo)) : Tail(todo)[i] = todo[i + 1]
  BY <1>1, HeadTailProperties
<1>3. Len(todo) \in Nat \ {0} BY <1>1, EmptySeq
<1>4. Head(todo) = todo[1] /\ 1 \in DOMAIN todo BY <1>1, <1>3
<1>5. ASSUME NEW k \in DOMAIN Tail(todo)
      PROVE  Given(Tail(todo)[k][3]) /\ (Tail(todo)[k][2].link # None => Here(Tail(todo)[k][2].link))
  <2>1. k \in 1 .. Len(Tail(todo)) BY <1>2
  <2>2. Tail(todo)[k] = todo[k + 1] BY <1>2, <2>1
  <2>3. k + 1 \in DOMAIN todo
    <3>1. DOMAIN todo = 1 .. Len(todo) BY <1>1
    <3> QED BY <1>2, <1>3, <2>1, <3>1
  <2> QED BY <1>5, <2>2, <2>3 DEF TodoOK
<1> QED BY <1>2, <1>4, <1>5 DEF TodoOK

LEMMA TodoEmpty == TodoOK(<<>>)
<1>1. <<>> \in Seq(Item) /\ DOMAIN <<>> = {} OBVIOUS
<1> QED BY <1>1 DEF TodoOK

LEMMA AfterCopyOK ==
  ASSUME TreeTypes, NEW j, IsJob(j), j.kind \in {"file", "folder"}, Given(j.dst), NEW item, NEW rest, TodoOK(rest),
         NEW d, d = AfterCopy(j, item, rest)
  PROVE  /\ IsJob(d) /\ ~Counting(d) /\ ~Checked(d)
         /\ next \in Ids /\ next' = next + 1 /\ Grows => JobOK(d)'
<1> DEFINE k == [j EXCEPT !.todo = rest, !.scope = @ \cup {item[1], next}]
<1>1. IsJob(k) /\ k.todo = rest /\ k.kind = j.kind /\ k.dst = j.dst BY DEF IsJob
<1>2. d = IF item[2].kind = "folder"
          THEN [k EXCEPT !.at = item[1], !.dst = next, !.pc = "copyList"]
          ELSE [k EXCEPT !.pc = IF rest = <<>> THEN "copied" ELSE "copyItem"]
  BY DEF AfterCopy
<1> HIDE DEF k
<1>3. CASE item[2].kind = "folder"
  <2>1. d = [k EXCEPT !.at = item[1], !.dst = next, !.pc = "copyList"] BY <1>2, <1>3
  <2>2. IsJob(d) /\ d.todo = rest /\ d.kind = j.kind /\ d.dst = next /\ d.pc = "copyList"
    BY <1>1, <2>1 DEF IsJob
  <2>3. ASSUME next \in Ids, next' = next + 1, Grows PROVE JobOK(d)'
    <3>1. TodoOK(rest)' BY <2>3, TodoKept
    <3>2. Given(d.dst)' BY <2>2, <2>3, GivenMore
    <3> QED BY <2>2, <2>3, <3>1, <3>2 DEF JobOK, Places, Ids
  <2>4. ~Counting(d) /\ ~Checked(d) BY <2>2 DEF Counting, Checked
  <2> QED BY <2>2, <2>3, <2>4
<1>4. CASE item[2].kind # "folder"
  <2>1. PICK pc : pc = IF rest = <<>> THEN "copied" ELSE "copyItem" OBVIOUS
  <2>2. d = [k EXCEPT !.pc = pc] BY <1>2, <1>4, <2>1
  <2>3. IsJob(d) /\ d.todo = rest /\ d.kind = j.kind /\ d.dst = j.dst /\ d.pc = pc BY <1>1, <2>2 DEF IsJob
  <2>4. JobOK(d) BY <2>1, <2>3 DEF JobOK
  <2>5. Grows => JobOK(d)' BY <2>4, JobKept
  <2>6. ~Counting(d) /\ ~Checked(d) BY <2>1, <2>3 DEF Counting, Checked
  <2> QED BY <2>3, <2>5, <2>6
<1> QED BY <1>3, <1>4

LEMMA CopySourceKeeps ==
  ASSUME TreeIInv, NEW w \in Workers, CopySource(w), UNCHANGED <<locks, held>>
  PROVE  TreeIInv'
<1>1. IsJob(job[w]) /\ JobOK(job[w]) BY JobAt DEF TreeIInv
<1>2. PICK s : s = job[w].src OBVIOUS
<1>3. PICK todo : todo = <<<<s, file[s], job[w].dst>>>> OBVIOUS
<1>4. PICK j : j = [job[w] EXCEPT !.todo = todo, !.pc = "copyLookup",
                                  !.kind = file[s].kind, !.scope = {s} \cup Below(s)] OBVIOUS
<1>5. Became(w, Idle) \/ (IsRow(s) /\ Became(w, j))
  BY <1>2, <1>3, <1>4 DEF CopySource, Became, TreeIInv, JobsOK
<1>6. CASE Became(w, Idle) BY <1>6, Ended DEF Became, Finish, CopySource
<1>7. CASE IsRow(s) /\ Became(w, j)
  <2>1. s \in Ids /\ file[s] \in Row /\ file[s] # None BY <1>7 DEF IsRow, TreeIInv, TreeTypes
  <2>2. job[w].dst \in Places /\ job[w].name \in Names /\ Given(job[w].dst) BY <1>1 DEF JobOK, CopySource
  <2>3. <<s, file[s], job[w].dst>> \in Item BY <2>1, <2>2 DEF Item
  <2>4. TodoOK(todo)
    <3>1. todo \in Seq(Item) /\ DOMAIN todo = {1} /\ todo[1] = <<s, file[s], job[w].dst>> BY <1>3, <2>3
    <3>2. todo[1][2] = file[s] /\ todo[1][3] = job[w].dst BY <3>1
    <3>3. file[s].link # None => Here(file[s].link) BY <2>1, <1>7 DEF TreeIInv, RowsOK
    <3> QED BY <2>2, <3>1, <3>2, <3>3 DEF TodoOK
  <2>5. todo # <<>> BY <1>3
  <2>6. /\ IsJob(j) /\ j.pc = "copyLookup" /\ j.todo = todo /\ j.kind = file[s].kind
        /\ j.dst = job[w].dst /\ j.name = job[w].name
    BY <1>1, <1>4 DEF IsJob
  <2>7. j.kind \in {"file", "folder"} BY <2>1, <2>6 DEF Row
  <2>8. JobOK(j) BY <2>2, <2>4, <2>5, <2>6, <2>7 DEF JobOK
  <2>9. ~Counting(j) /\ ~Checked(j) BY <2>6 DEF Counting, Checked
  <2>10. LocksStep(w, j) BY <2>9 DEF LocksStep
  <2>11. touched' \in [Workers -> SUBSET Ids] /\ requests' \in 0 .. MaxRequests
    BY DEF TreeIInv, TreeTypes, CopySource
  <2> QED BY <1>7, <2>6, <2>8, <2>9, <2>10, <2>11, Quiet DEF CopySource
<1> QED BY <1>5, <1>6, <1>7

LEMMA CopyRootKeeps ==
  ASSUME TreeIInv, NEW w \in Workers, CopyRoot(w), UNCHANGED <<locks, held>>
  PROVE  TreeIInv'
<1>1. IsJob(job[w]) /\ JobOK(job[w]) BY JobAt DEF TreeIInv
<1>2. /\ TodoOK(job[w].todo) /\ job[w].todo # <<>> /\ job[w].dst \in Places /\ job[w].name \in Names
      /\ job[w].kind \in {"file", "folder"} /\ Given(job[w].dst)
  BY <1>1 DEF JobOK, CopyRoot
<1>3. PICK item : item = Head(job[w].todo) OBVIOUS
<1>4. item \in Item /\ (item[2].link # None => Here(item[2].link)) BY <1>2, <1>3, TodoParts
<1>5. item[2] \in Row BY <1>4 DEF Item
<1>6. PICK r : r = [item[2] EXCEPT !.parent = job[w].dst, !.name = job[w].name, !.trashed = FALSE] OBVIOUS
<1>7. r \in Row /\ r.parent = job[w].dst /\ r.link = item[2].link BY <1>2, <1>5, <1>6 DEF Row, Places
<1>8. PICK j : j = [job[w] EXCEPT !.out = <<<<next, <<>>>>>>] OBVIOUS
<1>9. IsJob(j) /\ j.kind = job[w].kind /\ j.dst = job[w].dst BY <1>1, <1>8 DEF IsJob
<1>10. PICK d : d = AfterCopy(j, item, <<>>) OBVIOUS
<1>11. IsJob(d) /\ (next \in Ids /\ next' = next + 1 /\ Grows => JobOK(d)') /\ ~Counting(d) /\ ~Checked(d)
  BY <1>2, <1>9, <1>10, TodoEmpty, AfterCopyOK DEF TreeIInv
<1>12. CreateFile(w, r, d, Idle) BY <1>3, <1>6, <1>8, <1>10 DEF CopyRoot
<1> QED BY <1>2, <1>4, <1>7, <1>11, <1>12, Created DEF CopyRoot

LEMMA CopyItemKeeps ==
  ASSUME TreeIInv, NEW w \in Workers, CopyItem(w), UNCHANGED <<locks, held>>
  PROVE  TreeIInv'
<1>1. IsJob(job[w]) /\ JobOK(job[w]) BY JobAt DEF TreeIInv
<1>2. /\ TodoOK(job[w].todo) /\ job[w].todo # <<>> /\ job[w].kind \in {"file", "folder"} /\ Given(job[w].dst)
  BY <1>1 DEF JobOK, CopyItem
<1>3. PICK item : item = Head(job[w].todo) OBVIOUS
<1>4. PICK rest : rest = Tail(job[w].todo) OBVIOUS
<1>5. item \in Item /\ Given(item[3]) /\ (item[2].link # None => Here(item[2].link)) /\ TodoOK(rest)
  BY <1>2, <1>3, <1>4, TodoParts
<1>6. item[2] \in Row /\ item[3] \in Places BY <1>5 DEF Item
<1>7. PICK r : r = [item[2] EXCEPT !.parent = item[3], !.trashed = FALSE] OBVIOUS
<1>8. r \in Row /\ r.parent = item[3] /\ r.link = item[2].link BY <1>6, <1>7 DEF Row, Places
<1>9. PICK j : j = job[w] OBVIOUS
<1>10. PICK d : d = AfterCopy(j, item, rest) OBVIOUS
<1>11. IsJob(d) /\ (next \in Ids /\ next' = next + 1 /\ Grows => JobOK(d)') /\ ~Counting(d) /\ ~Checked(d)
  BY <1>1, <1>2, <1>5, <1>9, <1>10, AfterCopyOK DEF TreeIInv
<1>12. CreateFile(w, r, d, Idle) BY <1>3, <1>4, <1>7, <1>9, <1>10 DEF CopyItem
<1> QED BY <1>5, <1>8, <1>11, <1>12, Created DEF CopyItem

LEMMA copyFolderContentsKeeps ==
  ASSUME TreeIInv, NEW w \in Workers, copyFolderContents(w), UNCHANGED <<locks, held>>
  PROVE  TreeIInv'
<1>1. IsJob(job[w]) /\ JobOK(job[w]) BY JobAt DEF TreeIInv
<1>2. TodoOK(job[w].todo) /\ job[w].dst \in Places /\ Given(job[w].dst) /\ job[w].kind \in {"file", "folder"}
  BY <1>1 DEF JobOK, copyFolderContents
<1>3. PICK p : p = job[w].at OBVIOUS
<1>4. PICK items : items = First(ListDirectory(p), CopyLimit) OBVIOUS
<1>5. PICK new : new = [k \in DOMAIN items |-> <<items[k], file[items[k]], job[w].dst>>] OBVIOUS
<1>6. PICK old : old = job[w].todo OBVIOUS
<1>7. PICK todo : todo = new \o old OBVIOUS
<1>8. PICK j : j = [job[w] EXCEPT !.todo = todo, !.cut = @ \cup Cut(p, CopyLimit),
                                  !.pc = IF todo = <<>> THEN "copied" ELSE "copyItem"] OBVIOUS
<1>9. Became(w, j)
  BY <1>3, <1>4, <1>5, <1>6, <1>7, <1>8 DEF copyFolderContents, Became, TreeIInv, JobsOK
<1>10. items \in Seq(Listed(p))
  <2>1. PICK ids : ids = ListDirectory(p) OBVIOUS
  <2>2. ids \in Seq(Listed(p)) BY <2>1, ListingExact DEF TreeIInv
  <2>3. CopyLimit \in Nat BY TreeAssumption
  <2> QED BY <1>4, <2>1, <2>2, <2>3, FirstOf
<1>11. TodoOK(new)
  <2>1. Len(items) \in Nat /\ DOMAIN items = 1 .. Len(items) BY <1>10
  <2>2. ASSUME NEW k \in DOMAIN items
        PROVE  new[k] \in Item /\ Given(new[k][3]) /\ (new[k][2].link # None => Here(new[k][2].link))
    <3>1. items[k] \in Listed(p) BY <1>10
    <3>2. PICK i \in Ids : i = items[k] /\ IsRow(i) BY <3>1 DEF Listed, Live
    <3>3. file[i] \in Row BY <3>2 DEF IsRow, TreeIInv, TreeTypes
    <3>4. new[k] = <<i, file[i], job[w].dst>> BY <1>5, <3>2
    <3>5. new[k] \in Item /\ new[k][2] = file[i] /\ new[k][3] = job[w].dst BY <1>2, <3>2, <3>3, <3>4 DEF Item
    <3>6. file[i].link # None => Here(file[i].link) BY <3>2 DEF TreeIInv, RowsOK
    <3> QED BY <1>2, <3>5, <3>6
  <2>3. new \in [1 .. Len(items) -> Item] BY <1>5, <2>1, <2>2
  <2>4. new \in Seq(Item) /\ DOMAIN new = DOMAIN items BY <2>1, <2>3
  <2> QED BY <2>2, <2>4 DEF TodoOK
<1>12. TodoOK(old) BY <1>2, <1>6
<1>13. TodoOK(todo)
  <2>1. new \in Seq(Item) /\ old \in Seq(Item) BY <1>11, <1>12 DEF TodoOK
  <2>2. /\ todo \in Seq(Item) /\ Len(todo) = Len(new) + Len(old)
        /\ \A i \in 1 .. Len(new) + Len(old) : todo[i] = IF i <= Len(new) THEN new[i] ELSE old[i - Len(new)]
    BY <1>7, <2>1, ConcatProperties
  <2>3. /\ Len(new) \in Nat /\ Len(old) \in Nat /\ DOMAIN todo = 1 .. Len(todo)
        /\ DOMAIN new = 1 .. Len(new) /\ DOMAIN old = 1 .. Len(old)
    BY <2>1, <2>2
  <2>4. ASSUME NEW k \in DOMAIN todo
        PROVE  Given(todo[k][3]) /\ (todo[k][2].link # None => Here(todo[k][2].link))
    <3>1. CASE k <= Len(new)
      <4>1. k \in DOMAIN new /\ todo[k] = new[k] BY <2>2, <2>3, <3>1
      <4> QED BY <1>11, <2>4, <4>1 DEF TodoOK
    <3>2. CASE ~(k <= Len(new))
      <4>1. k - Len(new) \in DOMAIN old /\ todo[k] = old[k - Len(new)] BY <2>2, <2>3, <3>2
      <4> QED BY <1>12, <2>4, <4>1 DEF TodoOK
    <3> QED BY <3>1, <3>2
  <2> QED BY <2>2, <2>4 DEF TodoOK
<1>14. /\ IsJob(j) /\ j.todo = todo /\ j.kind = job[w].kind /\ j.dst = job[w].dst
       /\ j.pc = IF todo = <<>> THEN "copied" ELSE "copyItem"
  BY <1>1, <1>8 DEF IsJob
<1>15. JobOK(j) BY <1>2, <1>13, <1>14 DEF JobOK
<1>16. ~Counting(j) /\ ~Checked(j) BY <1>14 DEF Counting, Checked
<1>17. LocksStep(w, j) BY <1>16 DEF LocksStep
<1>18. touched' \in [Workers -> SUBSET Ids] /\ requests' \in 0 .. MaxRequests
  BY DEF TreeIInv, TreeTypes, copyFolderContents
<1> QED BY <1>9, <1>14, <1>15, <1>16, <1>17, <1>18, Quiet DEF copyFolderContents

LEMMA walkDirKeeps ==
  ASSUME TreeIInv, NEW w \in Workers, walkDir(w), UNCHANGED <<locks, held>>
  PROVE  TreeIInv'
<1>1. IsJob(job[w]) /\ JobOK(job[w]) /\ job[w].pc = "walk" BY JobAt DEF TreeIInv, walkDir
<1>2. PICK out, cut, todo : job' = [job EXCEPT ![w].out = out, ![w].cut = cut, ![w].todo = todo] BY DEF walkDir
<1>3. PICK j : j = [job[w] EXCEPT !.out = out, !.cut = cut, !.todo = todo] OBVIOUS
<1>4. Became(w, j) BY <1>2, <1>3 DEF Became, TreeIInv, JobsOK
<1>5. IsJob(j) /\ j.pc = "walk" /\ j.kind = job[w].kind /\ j.dst = job[w].dst BY <1>1, <1>3 DEF IsJob
<1>6. JobOK(j) BY <1>1, <1>5 DEF JobOK
<1>7. ~Counting(j) /\ ~Checked(j) BY <1>5 DEF Counting, Checked
<1>8. LocksStep(w, j) BY <1>7 DEF LocksStep
<1>9. touched' \in [Workers -> SUBSET Ids] /\ requests' \in 0 .. MaxRequests
  BY DEF TreeIInv, TreeTypes, walkDir
<1> QED BY <1>4, <1>5, <1>6, <1>7, <1>8, <1>9, Quiet DEF walkDir

LEMMA TreeStepKeeps ==
  ASSUME TreeIInv, NEW w \in Workers, TreeStep(w), UNCHANGED <<locks, held>>
  PROVE  TreeIInv'
<1>1. CASE \/ createFile(w) \/ createFolder(w) \/ updateFile(w) \/ updateFolder(w)
           \/ deleteFile(w) \/ deleteFolder(w) \/ restoreItem(w) \/ permanentDelete(w) \/ ListAllFiles(w)
  BY <1>1, RestArrives
<1>2. CASE CreateLookup(w) BY <1>2, CreateLookupKeeps
<1>3. CASE CreateInsert(w) BY <1>3, CreateInsertKeeps
<1>4. CASE updateParent(w) BY <1>4, updateParentKeeps
<1>5. CASE MoveName(w) BY <1>5, MoveNameKeeps
<1>6. CASE MoveFile(w) BY <1>6, MoveFileKeeps
<1>7. CASE SoftDelete(w) \/ RestoreFromTrash(w) BY <1>7, TrashKeeps
<1>8. CASE DeletePermanent(w) BY <1>8, DeletePermanentKeeps
<1>9. CASE CopySource(w) BY <1>9, CopySourceKeeps
<1>10. CASE CopyLookup(w) BY <1>10, CopyLookupKeeps
<1>11. CASE CopyRoot(w) BY <1>11, CopyRootKeeps
<1>12. CASE CopyItem(w) BY <1>12, CopyItemKeeps
<1>13. CASE copyFolderContents(w) BY <1>13, copyFolderContentsKeeps
<1>14. CASE walkDir(w) BY <1>14, walkDirKeeps
<1>15. CASE Reply(w) BY <1>15, Ended DEF Reply
<1> QED BY <1>1, <1>2, <1>3, <1>4, <1>5, <1>6, <1>7, <1>8, <1>9, <1>10, <1>11, <1>12, <1>13, <1>14, <1>15
        DEF TreeStep

-----------------------------------------------------------------------------
(* WebDAV requests.                                                         *)

LEMMA ResolvingFields ==
  ASSUME NEW j, IsJob(j), NEW phase, NEW p
  PROVE  LET d == Resolving(j, phase, p)
         IN  /\ IsJob(d) /\ d.pc = phase /\ d.op = j.op /\ d.path = j.path /\ d.src = j.src
             /\ d.dst = j.dst /\ d.name = j.name /\ d.kind = j.kind
BY DEF Resolving, IsJob

(* A request that starts with a walk.                                        *)
LEMMA WalkArrives ==
  ASSUME TreeIInv, NEW w \in Workers, NEW i, IsJob(i), i.path \in Paths, i.kind \in {"file", "folder"}, Given(i.dst),
         NEW phase, NEW left,
         \/ i.op = "put" /\ phase = "dir" /\ i.name \in Names
         \/ i.op = "mkcol" /\ phase = "full" /\ i.name \in Names
         \/ i.op \in {"delete", "get", "propfind"} /\ phase = "src"
         \/ i.op = "lock" /\ phase = "src" /\ i.name \in Tokens
         \/ i.op \in {"copy", "move"} /\ phase = "src" /\ i.name \in Names,
         Arrive(w, Resolving(i, phase, left)), UNCHANGED locks,
         held' = [held EXCEPT ![w] = {l \in DOMAIN locks : IsLocked(l)}]
  PROVE  TreeIInv'
<1>1. PICK j : j = Resolving(i, phase, left) OBVIOUS
<1>2. IsJob(j) /\ j.pc = phase /\ j.op = i.op /\ j.path = i.path /\ j.name = i.name /\ j.kind = i.kind /\ j.dst = i.dst
  BY <1>1, ResolvingFields
<1>3. WalkOK(j) BY <1>2 DEF WalkOK
<1>4. JobOK(j) BY <1>2, <1>3 DEF JobOK
<1>5. ~Counting(j) /\ ~Checked(j) BY <1>2 DEF Counting, Checked
<1>6. Arrive(w, j) BY <1>1
<1> QED BY <1>2, <1>4, <1>5, <1>6, Arrived

LEMMA LastName ==
  ASSUME NEW p \in Paths, p # <<>>
  PROVE  Last(p) \in Names
<1>1. p \in Seq(Names) BY PathsAssumption
<1>2. Len(p) \in Nat \ {0} BY <1>1, EmptySeq
<1> QED BY <1>1, <1>2 DEF Last

LEMMA ServeHTTPKeeps ==
  ASSUME TreeIInv, NEW w \in Workers, ServeHTTP(w)
  PROVE  TreeIInv'
<1> DEFINE Request(op, p, d, n) == [Idle EXCEPT !.op = op, !.path = p, !.dest = d, !.name = n]
           NoDest(op, p, d, n) == [Request(op, p, d, n) EXCEPT !.dest = <<>>]
           Folder(op, p, d, n) == [NoDest(op, p, d, n) EXCEPT !.kind = "folder"]
           Served(j) == /\ Arrive(w, j) /\ UNCHANGED locks
                        /\ held' = [held EXCEPT ![w] = {k \in DOMAIN locks : IsLocked(k)}]
           Is(i, op, p, n, k) == IsJob(i) /\ i.op = op /\ i.path = p /\ i.name = n /\ i.kind = k /\ i.dst = Root
<1>1. ASSUME NEW op, NEW p, NEW d, NEW n
      PROVE  /\ Is(Request(op, p, d, n), op, p, n, "file") /\ Is(NoDest(op, p, d, n), op, p, n, "file")
             /\ Is(Folder(op, p, d, n), op, p, n, "folder")
  <2>1. PICK i : i = Request(op, p, d, n) OBVIOUS
  <2>2. Is(i, op, p, n, "file") BY <2>1 DEF Idle, IsJob
  <2>3. PICK j : j = [i EXCEPT !.dest = <<>>] OBVIOUS
  <2>4. Is(j, op, p, n, "file") BY <2>2, <2>3 DEF IsJob
  <2>5. PICK k : k = [j EXCEPT !.kind = "folder"] OBVIOUS
  <2>6. Is(k, op, p, n, "folder") BY <2>4, <2>5 DEF IsJob
  <2> QED BY <2>1, <2>2, <2>3, <2>4, <2>5, <2>6
<1>2. PICK p \in Paths, d \in Paths \ {<<>>} :
        \/ p # <<>> /\ Served(Resolving(NoDest("put", p, d, Last(p)), "dir", Front(p)))
        \/ p # <<>> /\ Served(Resolving(Folder("mkcol", p, d, Last(p)), "full", p))
        \/ \E op \in {"delete", "get", "propfind"} : Served(Resolving(NoDest(op, p, d, None), "src", p))
        \/ \E t \in Tokens : Served(Resolving(NoDest("lock", p, d, t), "src", p))
        \/ \E t \in Tokens : Served(handleUnlock(t))
        \/ \E op \in {"copy", "move"} : Served(Resolving(Request(op, p, d, Last(d)), "src", p))
  BY DEF ServeHTTP
<1> HIDE DEF Request, NoDest, Folder, Is, Served
<1>3. Last(d) \in Names /\ (p # <<>> => Last(p) \in Names) BY LastName
<1>4. CASE p # <<>> /\ Served(Resolving(NoDest("put", p, d, Last(p)), "dir", Front(p)))
  <2>1. PICK i : i = NoDest("put", p, d, Last(p)) OBVIOUS
  <2>2. Is(i, "put", p, Last(p), "file") BY <1>1, <2>1
  <2>3. Served(Resolving(i, "dir", Front(p))) BY <1>4, <2>1
  <2> QED BY <1>3, <1>4, <2>2, <2>3, GivenRoot, WalkArrives DEF Is, Served
<1>5. CASE p # <<>> /\ Served(Resolving(Folder("mkcol", p, d, Last(p)), "full", p))
  <2>1. PICK i : i = Folder("mkcol", p, d, Last(p)) OBVIOUS
  <2>2. Is(i, "mkcol", p, Last(p), "folder") BY <1>1, <2>1
  <2>3. Served(Resolving(i, "full", p)) BY <1>5, <2>1
  <2> QED BY <1>3, <1>5, <2>2, <2>3, GivenRoot, WalkArrives DEF Is, Served
<1>6. CASE \E op \in {"delete", "get", "propfind"} : Served(Resolving(NoDest(op, p, d, None), "src", p))
  <2>1. PICK op \in {"delete", "get", "propfind"} : Served(Resolving(NoDest(op, p, d, None), "src", p)) BY <1>6
  <2>2. PICK i : i = NoDest(op, p, d, None) OBVIOUS
  <2>3. Is(i, op, p, None, "file") BY <1>1, <2>2
  <2>4. Served(Resolving(i, "src", p)) BY <2>1, <2>2
  <2> QED BY <2>3, <2>4, GivenRoot, WalkArrives DEF Is, Served
<1>7. CASE \E t \in Tokens : Served(Resolving(NoDest("lock", p, d, t), "src", p))
  <2>1. PICK t \in Tokens : Served(Resolving(NoDest("lock", p, d, t), "src", p)) BY <1>7
  <2>2. PICK i : i = NoDest("lock", p, d, t) OBVIOUS
  <2>3. Is(i, "lock", p, t, "file") BY <1>1, <2>2
  <2>4. Served(Resolving(i, "src", p)) BY <2>1, <2>2
  <2> QED BY <2>3, <2>4, GivenRoot, WalkArrives DEF Is, Served
<1>8. CASE \E t \in Tokens : Served(handleUnlock(t))
  <2>1. PICK t \in Tokens : Served(handleUnlock(t)) BY <1>8
  <2>2. PICK j : j = handleUnlock(t) OBVIOUS
  <2>3. Served(j) BY <2>1, <2>2
  <2>4. IsJob(j) /\ j.op = "unlock" /\ j.pc = "unlock" /\ j.kind = "file" /\ j.dst = Root
    BY <2>2 DEF handleUnlock, Idle, IsJob
  <2>5. JobOK(j) BY <2>4, GivenRoot DEF JobOK
  <2>6. ~Counting(j) /\ ~Checked(j) BY <2>4 DEF Counting, Checked
  <2> QED BY <2>3, <2>4, <2>5, <2>6, Arrived DEF Served
<1>9. CASE \E op \in {"copy", "move"} : Served(Resolving(Request(op, p, d, Last(d)), "src", p))
  <2>1. PICK op \in {"copy", "move"} : Served(Resolving(Request(op, p, d, Last(d)), "src", p)) BY <1>9
  <2>2. PICK i : i = Request(op, p, d, Last(d)) OBVIOUS
  <2>3. Is(i, op, p, Last(d), "file") BY <1>1, <2>2
  <2>4. Served(Resolving(i, "src", p)) BY <2>1, <2>2
  <2> QED BY <1>3, <2>3, <2>4, GivenRoot, WalkArrives DEF Is, Served
<1> QED BY <1>2, <1>4, <1>5, <1>6, <1>7, <1>8, <1>9

(* What a handler does with the result of a path is a request in order; a    *)
(* MOVE that has its target keeps the source it has checked.                 *)
LEMMA ResolvedOK ==
  ASSUME TreeTypes, RowsOK, NEW j, IsJob(j), JobOK(j), j.pc \in {"dir", "full", "src"},
         NEW hit \in Places \cup {None}, hit \in Ids => IsRow(hit)
  PROVE  LET d == Resolved(j, hit)
         IN  IsJob(d) /\ JobOK(d) /\ ~Counting(d) /\ (Checked(d) => Checked(j) /\ d.src = j.src)
<1> DEFINE d == Resolved(j, hit)
           Good(x) == IsJob(x) /\ JobOK(x) /\ ~Counting(x) /\ (Checked(x) => Checked(j) /\ x.src = j.src)
<1>1. WalkOK(j) /\ j.kind \in {"file", "folder"} /\ Given(j.dst) BY DEF JobOK
<1>2. (hit \in Ids => hit < next) /\ Given(hit) BY DEF RowsOK, Given
<1>3. Good(Idle) BY IdleOK
<1>4. ASSUME j.op = "put" PROVE Good(d)
  <2>1. d = handlePut(j, hit) /\ j.pc \in {"dir", "full"} /\ j.name \in Names
    BY <1>1, <1>4 DEF Resolved, WalkOK
  <2>2. CASE j.pc = "dir"
    <3>1. CASE hit = None BY <1>3, <2>1, <2>2, <3>1 DEF handlePut
    <3>2. CASE hit # None
      <4>1. PICK i : i = [j EXCEPT !.dst = hit] OBVIOUS
      <4>2. /\ IsJob(i) /\ i.op = "put" /\ i.dst = hit /\ i.name = j.name /\ i.kind = j.kind
        BY <1>4, <4>1 DEF IsJob
      <4>3. d = Resolving(i, "full", j.path) BY <2>1, <2>2, <3>2, <4>1 DEF handlePut
      <4>4. IsJob(d) /\ d.pc = "full" /\ d.op = "put" /\ d.dst = hit /\ d.name = j.name /\ d.kind = j.kind
        BY <4>2, <4>3, ResolvingFields
      <4> HIDE DEF d
      <4>5. WalkOK(d) BY <2>1, <3>2, <4>4 DEF WalkOK
      <4>6. JobOK(d) BY <1>1, <1>2, <4>4, <4>5 DEF JobOK
      <4>7. ~Counting(d) /\ ~Checked(d) BY <4>4 DEF Counting, Checked
      <4> QED BY <4>4, <4>6, <4>7
    <3> QED BY <3>1, <3>2
  <2>3. CASE j.pc = "full"
    <3>1. d = [j EXCEPT !.src = hit, !.pc = "chunks"] BY <2>1, <2>3 DEF handlePut
    <3>2. j.dst \in Places BY <1>1, <1>4, <2>3 DEF WalkOK
    <3>3. /\ IsJob(d) /\ d.pc = "chunks" /\ d.src = hit /\ d.op = "put" /\ d.dst = j.dst /\ d.name = j.name
          /\ d.kind = j.kind
      <4> HIDE DEF d
      <4> QED BY <1>4, <3>1 DEF IsJob
    <3> HIDE DEF d
    <3>4. JobOK(d) BY <1>1, <1>2, <2>1, <3>2, <3>3 DEF JobOK
    <3>5. ~Counting(d) /\ ~Checked(d) BY <3>3 DEF Counting, Checked
    <3> QED BY <3>3, <3>4, <3>5
  <2> QED BY <2>1, <2>2, <2>3
<1>5. ASSUME j.op = "delete" PROVE Good(d)
  <2>1. d = handleDelete(j, hit) BY <1>5 DEF Resolved
  <2>2. CASE hit = None BY <1>3, <2>1, <2>2 DEF handleDelete
  <2>3. CASE hit # None
    <3>1. d = [j EXCEPT !.src = hit, !.pc = "lockCheck"] BY <2>1, <2>3 DEF handleDelete
    <3> HIDE DEF d
    <3>2. IsJob(d) /\ d.pc = "lockCheck" /\ d.op = "delete" /\ d.kind = j.kind /\ d.dst = j.dst BY <1>5, <3>1 DEF IsJob
    <3>3. JobOK(d) BY <1>1, <1>2, <3>2 DEF JobOK
    <3>4. ~Counting(d) /\ ~Checked(d) BY <3>2 DEF Counting, Checked
    <3> QED BY <3>2, <3>3, <3>4
  <2> QED BY <2>2, <2>3
<1>6. ASSUME j.op = "mkcol" PROVE Good(d)
  <2>1. d = handleMkCol(j, hit) /\ j.pc \in {"dir", "full"} /\ j.name \in Names
    BY <1>1, <1>6 DEF Resolved, WalkOK
  <2>2. CASE j.pc = "full"
    <3>1. CASE hit # None BY <1>3, <2>1, <2>2, <3>1 DEF handleMkCol
    <3>2. CASE hit = None
      <4>1. d = Resolving(j, "dir", Front(j.path)) BY <2>1, <2>2, <3>2 DEF handleMkCol
      <4>2. IsJob(d) /\ d.pc = "dir" /\ d.op = "mkcol" /\ d.name = j.name /\ d.kind = j.kind /\ d.dst = j.dst
        BY <1>6, <4>1, ResolvingFields
      <4> HIDE DEF d
      <4>3. WalkOK(d) BY <2>1, <4>2 DEF WalkOK
      <4>4. JobOK(d) BY <1>1, <1>2, <4>2, <4>3 DEF JobOK
      <4>5. ~Counting(d) /\ ~Checked(d) BY <4>2 DEF Counting, Checked
      <4> QED BY <4>2, <4>4, <4>5
    <3> QED BY <3>1, <3>2
  <2>3. CASE j.pc = "dir"
    <3>1. CASE hit = None BY <1>3, <2>1, <2>3, <3>1 DEF handleMkCol
    <3>2. CASE hit # None
      <4>1. d = [j EXCEPT !.dst = hit, !.pc = "lookup"] BY <2>1, <2>3, <3>2 DEF handleMkCol
      <4> HIDE DEF d
      <4>2. IsJob(d) /\ d.pc = "lookup" /\ d.op = "mkcol" /\ d.dst = hit /\ d.name = j.name /\ d.kind = j.kind
        BY <1>6, <4>1 DEF IsJob
      <4>3. JobOK(d) BY <1>1, <1>2, <2>1, <3>2, <4>2 DEF JobOK
      <4>4. ~Counting(d) /\ ~Checked(d) BY <4>2 DEF Counting, Checked
      <4> QED BY <4>2, <4>3, <4>4
    <3> QED BY <3>1, <3>2
  <2> QED BY <2>1, <2>2, <2>3
<1>7. ASSUME j.op = "copy" PROVE Good(d)
  <2>1. d = handleCopy(j, hit) /\ j.pc \in {"src", "dir"} /\ j.name \in Names
    BY <1>1, <1>7 DEF Resolved, WalkOK
  <2>2. CASE hit = None BY <1>3, <2>1, <2>2 DEF handleCopy
  <2>3. CASE hit # None /\ j.pc = "src"
    <3>1. PICK i : i = [j EXCEPT !.src = hit] OBVIOUS
    <3>2. IsJob(i) /\ i.op = "copy" /\ i.name = j.name /\ i.kind = j.kind /\ i.dst = j.dst BY <1>7, <3>1 DEF IsJob
    <3>3. d = Resolving(i, "dir", Front(j.dest)) BY <2>1, <2>3, <3>1 DEF handleCopy
    <3>4. IsJob(d) /\ d.pc = "dir" /\ d.op = "copy" /\ d.name = j.name /\ d.kind = j.kind /\ d.dst = j.dst
      BY <3>2, <3>3, ResolvingFields
    <3> HIDE DEF d
    <3>5. WalkOK(d) BY <2>1, <3>4 DEF WalkOK
    <3>6. JobOK(d) BY <1>1, <1>2, <3>4, <3>5 DEF JobOK
    <3>7. ~Counting(d) /\ ~Checked(d) BY <3>4 DEF Counting, Checked
    <3> QED BY <3>4, <3>6, <3>7
  <2>4. CASE hit # None /\ j.pc = "dir"
    <3>1. d = [j EXCEPT !.dst = hit, !.pc = "copySource"] BY <2>1, <2>4 DEF handleCopy
    <3> HIDE DEF d
    <3>2. IsJob(d) /\ d.pc = "copySource" /\ d.dst = hit /\ d.name = j.name /\ d.kind = j.kind
      BY <3>1 DEF IsJob
    <3>3. JobOK(d) BY <1>1, <1>2, <2>1, <2>4, <3>2 DEF JobOK
    <3>4. ~Counting(d) /\ ~Checked(d) BY <3>2 DEF Counting, Checked
    <3> QED BY <3>2, <3>3, <3>4
  <2> QED BY <2>1, <2>2, <2>3, <2>4
<1>8. ASSUME j.op = "move" PROVE Good(d)
  <2>1. d = handleMove(j, hit) /\ j.pc \in {"src", "dir"} /\ j.name \in Names
    BY <1>1, <1>8 DEF Resolved, WalkOK
  <2>2. CASE hit = None BY <1>3, <2>1, <2>2 DEF handleMove
  <2>3. CASE hit # None /\ j.pc = "src"
    <3>1. d = [j EXCEPT !.src = hit, !.pc = "lockCheck"] BY <2>1, <2>3 DEF handleMove
    <3> HIDE DEF d
    <3>2. IsJob(d) /\ d.pc = "lockCheck" /\ d.op = "move" /\ d.name = j.name /\ d.kind = j.kind /\ d.dst = j.dst
      BY <1>8, <3>1 DEF IsJob
    <3>3. JobOK(d) BY <1>1, <1>2, <2>1, <3>2 DEF JobOK
    <3>4. ~Counting(d) /\ ~Checked(d) BY <3>2 DEF Counting, Checked
    <3> QED BY <3>2, <3>3, <3>4
  <2>4. CASE hit # None /\ j.pc = "dir"
    <3>1. d = [j EXCEPT !.dst = hit, !.pc = "update"] BY <2>1, <2>4 DEF handleMove
    <3> HIDE DEF d
    <3>2. /\ IsJob(d) /\ d.pc = "update" /\ d.op = "move" /\ d.dst = hit /\ d.name = j.name /\ d.kind = j.kind
          /\ d.src = j.src
      BY <1>8, <3>1 DEF IsJob
    <3>3. JobOK(d) BY <1>1, <1>2, <2>1, <2>4, <3>2 DEF JobOK
    <3>4. ~Counting(d) /\ Checked(j) BY <1>8, <2>4, <3>2 DEF Counting, Checked
    <3> QED BY <3>2, <3>3, <3>4
  <2> QED BY <2>1, <2>2, <2>3, <2>4
<1>9. ASSUME j.op = "lock" PROVE Good(d)
  <2>1. j.name \in Tokens /\ j.path \in Paths BY <1>1, <1>9 DEF WalkOK
  <2>2. PICK r : r = IF hit = None THEN NullResource(j.path) ELSE Resource(hit) OBVIOUS
  <2>3. r \in Resources BY <2>1, <2>2 DEF Resources, Places
  <2>4. d = [j EXCEPT !.src = r, !.pc = "lock"] BY <1>9, <2>2 DEF Resolved, handleLock
  <2> HIDE DEF d
  <2>5. IsJob(d) /\ d.pc = "lock" /\ d.src = r /\ d.name = j.name /\ d.kind = j.kind /\ d.dst = j.dst BY <2>4 DEF IsJob
  <2>6. JobOK(d) BY <1>1, <1>2, <2>1, <2>3, <2>5 DEF JobOK
  <2>7. ~Counting(d) /\ ~Checked(d) BY <2>5 DEF Counting, Checked
  <2> QED BY <2>5, <2>6, <2>7
<1>10. ASSUME j.op \in {"get", "propfind"} PROVE Good(d)
  <2>1. d = Idle \/ \E pc \in {"get", "list"} : d = [j EXCEPT !.src = hit, !.pc = pc]
    <3>1. CASE j.op = "get"
      <4>1. d = handleGet(j, hit) BY <3>1 DEF Resolved
      <4> QED BY <4>1 DEF handleGet
    <3>2. CASE j.op = "propfind"
      <4>1. d = handlePropFind(j, hit) BY <3>2 DEF Resolved
      <4> QED BY <4>1 DEF handlePropFind
    <3> QED BY <1>10, <3>1, <3>2
  <2>2. ASSUME NEW pc \in {"get", "list"}, d = [j EXCEPT !.src = hit, !.pc = pc] PROVE Good(d)
    <3> HIDE DEF d
    <3>1. IsJob(d) /\ d.pc = pc /\ d.kind = j.kind /\ d.dst = j.dst BY <2>2 DEF IsJob
    <3>2. JobOK(d) BY <1>1, <1>2, <3>1 DEF JobOK
    <3>3. ~Counting(d) /\ ~Checked(d) BY <3>1 DEF Counting, Checked
    <3> QED BY <3>1, <3>2, <3>3
  <2> QED BY <1>3, <2>1, <2>2
<1>11. Good(d) BY <1>1, <1>4, <1>5, <1>6, <1>7, <1>8, <1>9, <1>10 DEF WalkOK
<1> QED BY <1>11

LEMMA getFileByPathKeeps ==
  ASSUME TreeIInv, NEW w \in Workers, getFileByPath(w)
  PROVE  TreeIInv'
<1>1. IsJob(job[w]) /\ JobOK(job[w]) BY JobAt DEF TreeIInv
<1>2. PICK j : j = job[w] OBVIOUS
<1>3. IsJob(j) /\ JobOK(j) /\ j.pc \in {"dir", "full", "src"} BY <1>1, <1>2 DEF getFileByPath
<1>4. PICK d : /\ Became(w, d)
               /\ \/ \E hit \in Places \cup {None} : (hit \in Ids => IsRow(hit)) /\ d = Resolved(j, hit)
                  \/ \E i : d = [j EXCEPT !.at = i, !.left = Tail(@)]
  <2>1. CASE j.left = <<>> /\ Became(w, Resolved(j, Root))
    <3>1. Root \in Places \cup {None} /\ Root \notin Ids BY TreeAssumption DEF Places, Ids
    <3> QED BY <2>1, <3>1
  <2>2. CASE Became(w, Resolved(j, None))
    <3>1. None \in Places \cup {None} /\ None \notin Ids BY TreeAssumption DEF Places, Ids
    <3> QED BY <2>2, <3>1
  <2>3. CASE \E i \in GetFileByPath(j.at, Head(j.left)) :
               Became(w, IF Len(j.left) = 1 THEN Resolved(j, i)
                         ELSE IF IsFolder(i) THEN [j EXCEPT !.at = i, !.left = Tail(@)]
                         ELSE Resolved(j, None))
    <3>1. PICK i \in GetFileByPath(j.at, Head(j.left)) :
            Became(w, IF Len(j.left) = 1 THEN Resolved(j, i)
                      ELSE IF IsFolder(i) THEN [j EXCEPT !.at = i, !.left = Tail(@)]
                      ELSE Resolved(j, None))
      BY <2>3
    <3>2. i \in Places \cup {None} /\ IsRow(i) BY DEF GetFileByPath, Live, Places
    <3>3. None \in Places \cup {None} /\ None \notin Ids BY TreeAssumption DEF Places, Ids
    <3>4. CASE Len(j.left) = 1 BY <3>1, <3>2, <3>4
    <3>5. CASE Len(j.left) # 1 /\ IsFolder(i) BY <3>1, <3>5
    <3>6. CASE Len(j.left) # 1 /\ ~IsFolder(i) BY <3>1, <3>3, <3>6
    <3> QED BY <3>4, <3>5, <3>6
  <2> QED BY <1>2, <2>1, <2>2, <2>3 DEF getFileByPath, Became
<1>5. IsJob(d) /\ JobOK(d) /\ (Counting(d) => Counting(j)) /\ (Checked(d) => Checked(j) /\ d.src = j.src)
  <2>1. ASSUME NEW hit \in Places \cup {None}, hit \in Ids => IsRow(hit), d = Resolved(j, hit)
        PROVE  IsJob(d) /\ JobOK(d) /\ ~Counting(d) /\ (Checked(d) => Checked(j) /\ d.src = j.src)
    BY <1>3, <2>1, ResolvedOK DEF TreeIInv
  <2>2. ASSUME NEW i, d = [j EXCEPT !.at = i, !.left = Tail(@)]
        PROVE  IsJob(d) /\ JobOK(d) /\ ~Counting(d) /\ (Checked(d) => Checked(j) /\ d.src = j.src)
    <3>1. /\ IsJob(d) /\ d.pc = j.pc /\ d.op = j.op /\ d.path = j.path /\ d.src = j.src /\ d.dst = j.dst
          /\ d.name = j.name /\ d.kind = j.kind
      BY <1>3, <2>2 DEF IsJob
    <3>2. WalkOK(d) BY <1>3, <3>1 DEF JobOK, WalkOK
    <3>3. JobOK(d) BY <1>3, <3>1, <3>2 DEF JobOK
    <3>4. ~Counting(d) /\ (Checked(d) => Checked(j)) BY <1>3, <3>1 DEF Counting, Checked
    <3> QED BY <3>1, <3>3, <3>4
  <2> QED BY <1>4, <2>1, <2>2
<1>6. Checked(d) => Resource(d.src) \notin held[w] BY <1>2, <1>5 DEF TreeIInv, ChecksOK
<1>7. LocksStep(w, d) BY <1>6 DEF LocksStep, getFileByPath
<1>8. touched' \in [Workers -> SUBSET Ids] /\ requests' \in 0 .. MaxRequests
  BY DEF TreeIInv, TreeTypes, getFileByPath
<1> QED BY <1>2, <1>4, <1>5, <1>7, <1>8, Quiet DEF getFileByPath

LEMMA LockCheckKeeps ==
  ASSUME TreeIInv, NEW w \in Workers, LockCheck(w)
  PROVE  TreeIInv'
<1>1. IsJob(job[w]) /\ JobOK(job[w]) BY JobAt DEF TreeIInv
<1>2. PICK j : j = job[w] OBVIOUS
<1>3. IsJob(j) /\ j.op \in {"delete", "move"} /\ (j.op = "move" => j.name \in Names) /\ j.kind \in {"file", "folder"} /\ Given(j.dst)
  BY <1>1, <1>2 DEF JobOK, LockCheck
<1>4. PICK d : d = IF j.op = "delete" THEN [j EXCEPT !.pc = "trash"] ELSE Resolving(j, "dir", Front(j.dest))
  OBVIOUS
<1>5. Became(w, Idle) \/ (~IsLocked(Resource(j.src)) /\ Became(w, d))
  BY <1>2, <1>4 DEF LockCheck, Became, TreeIInv, JobsOK
<1>6. CASE Became(w, Idle) BY <1>6, Ended DEF Became, Finish, LockCheck
<1>7. CASE ~IsLocked(Resource(j.src)) /\ Became(w, d)
  <2>1. /\ IsJob(d) /\ d.op = j.op /\ d.name = j.name /\ d.src = j.src /\ d.kind = j.kind /\ d.dst = j.dst
        /\ d.pc = IF j.op = "delete" THEN "trash" ELSE "dir"
    <3>1. CASE j.op = "delete" BY <1>3, <1>4, <3>1, AtPc
    <3>2. CASE j.op # "delete" BY <1>3, <1>4, <3>2, ResolvingFields
    <3> QED BY <3>1, <3>2
  <2>2. d.pc = "dir" => WalkOK(d) BY <1>3, <2>1 DEF WalkOK
  <2>3. JobOK(d) BY <1>3, <2>1, <2>2 DEF JobOK
  <2>4. ~Counting(d) BY <1>3, <2>1 DEF Counting
  <2>5. Resource(d.src) \notin held[w] BY <1>7, <2>1 DEF TreeIInv, LockTypes
  <2>6. LocksStep(w, d) BY <2>5 DEF LocksStep, LockCheck
  <2>7. touched' \in [Workers -> SUBSET Ids] /\ requests' \in 0 .. MaxRequests
    BY DEF TreeIInv, TreeTypes, LockCheck
  <2> QED BY <1>7, <2>1, <2>3, <2>4, <2>6, <2>7, Quiet DEF LockCheck
<1> QED BY <1>5, <1>6, <1>7

LEMMA PutChunksKeeps ==
  ASSUME TreeIInv, NEW w \in Workers, PutChunks(w)
  PROVE  TreeIInv'
<1>1. IsJob(job[w]) /\ JobOK(job[w]) BY JobAt DEF TreeIInv
<1>2. PICK pc : pc = IF job[w].src = None THEN "lookup" ELSE "manifest" OBVIOUS
<1>3. PICK j : j = [job[w] EXCEPT !.pc = pc] OBVIOUS
<1>4. (refs' = refs + 1 /\ Became(w, j)) \/ (Finish(w) /\ UNCHANGED refs)
  BY <1>2, <1>3 DEF PutChunks, Became, TreeIInv, JobsOK
<1>5. CASE Finish(w) /\ UNCHANGED refs BY <1>5, Ended DEF PutChunks
<1>6. CASE refs' = refs + 1 /\ Became(w, j)
  <2>1. /\ IsJob(j) /\ j.pc = pc /\ j.op = job[w].op /\ j.dst = job[w].dst /\ j.name = job[w].name
        /\ j.kind = job[w].kind /\ j.src = job[w].src
    BY <1>1, <1>3, AtPc
  <2>2. JobOK(j) BY <1>1, <1>2, <2>1 DEF JobOK, PutChunks
  <2>3. TableKept BY TableSame DEF TreeIInv, PutChunks
  <2>4. JobOK(j)' BY <2>2, <2>3, JobKept DEF TableKept, TreeIInv
  <2>5. CountStep(w, j) BY <1>6 DEF CountStep, PutChunks
  <2>6. ~Checked(j) BY <1>2, <2>1 DEF Checked
  <2>7. LocksStep(w, j) BY <2>6 DEF LocksStep, PutChunks
  <2>8. refs' \in Nat BY <1>6 DEF TreeIInv, TreeTypes
  <2>9. TreeTypes' BY <2>8 DEF TreeIInv, TreeTypes, PutChunks
  <2> QED BY <1>6, <2>1, <2>3, <2>4, <2>5, <2>7, <2>9, Advanced DEF TableKept
<1> QED BY <1>4, <1>5, <1>6

LEMMA PutManifestKeeps ==
  ASSUME TreeIInv, NEW w \in Workers, PutManifest(w)
  PROVE  TreeIInv'
<1>1. IsJob(job[w]) /\ JobOK(job[w]) BY JobAt DEF TreeIInv
<1>2. PICK i : i = job[w].src OBVIOUS
<1>3. PICK j : j = [job[w] EXCEPT !.pc = "link"] OBVIOUS
<1>4. \/ i \in Ids \ manifests /\ manifests' = manifests \cup {i} /\ Became(w, j)
      \/ Finish(w) /\ UNCHANGED manifests
  BY <1>2, <1>3 DEF PutManifest, Became, TreeIInv, JobsOK
<1>5. CASE Finish(w) /\ UNCHANGED manifests BY <1>5, Ended DEF PutManifest
<1>6. CASE i \in Ids \ manifests /\ manifests' = manifests \cup {i} /\ Became(w, j)
  <2>1. IsJob(j) /\ j.pc = "link" /\ j.op = job[w].op /\ j.kind = job[w].kind /\ j.src = i
        /\ j.dst = job[w].dst
    BY <1>1, <1>2, <1>3, AtPc
  <2>2. i \in Ids /\ i < next /\ job[w].op = "put" BY <1>1, <1>2, <1>6 DEF JobOK, PutManifest
  <2>3. UNCHANGED <<file, next, refs, touched, requests, locks, held>> BY DEF PutManifest
  <2>4. Grows BY <1>6, <2>3, TreeAssumption DEF Grows, TreeIInv, TreeTypes
  <2>5. Here(i)' BY <1>6, <2>2, <2>3 DEF Here
  <2>6. JobOK(j)' BY <1>1, <2>1, <2>2, <2>3, <2>5 DEF JobOK, Given
  <2>7. NamesDistinct' BY <2>3 DEF TreeIInv, NamesDistinct, IsRow
  <2>8. RowsOK'
    <3> SUFFICES ASSUME NEW k \in Ids, file'[k] # None
                 PROVE  k < next' /\ Given(file[k].parent)' /\ (file'[k].link # None => Here(file[k].link)')
      BY DEF RowsOK, IsRow
    <3>1. k < next /\ Given(file[k].parent) /\ (file[k].link # None => Here(file[k].link)) BY <2>3 DEF TreeIInv, RowsOK, IsRow
    <3> QED BY <1>6, <2>3, <3>1 DEF Here, IsRow, Given
  <2>9. i \in 1 .. next - 1
    <3>1. i \in Int /\ 1 <= i /\ next \in Int BY <2>2, TreeAssumption DEF Ids, TreeIInv, TreeTypes
    <3> QED BY <2>2, <3>1
  <2>10. TreeTypes' BY <1>6, <2>3, <2>9 DEF TreeIInv, TreeTypes
  <2>11. Counting(job[w]) /\ ~Counting(j) /\ ~Checked(j) BY <2>1, <2>2 DEF Counting, Checked, PutManifest
  <2>12. CountStep(w, j) BY <1>6, <2>3, <2>11 DEF CountStep
  <2>13. LocksStep(w, j) BY <2>3, <2>11 DEF LocksStep
  <2> QED BY <1>6, <2>1, <2>4, <2>6, <2>7, <2>8, <2>10, <2>12, <2>13, Advanced
<1> QED BY <1>4, <1>5, <1>6

LEMMA PutLinkKeeps ==
  ASSUME TreeIInv, NEW w \in Workers, PutLink(w)
  PROVE  TreeIInv'
<1>1. PICK i : i = job[w].src OBVIOUS
<1>2. i \in Ids /\ Here(i) BY <1>1, JobAt DEF TreeIInv, JobOK, PutLink
<1>3. CASE ~IsRow(i)
  <2>1. Write(w, file) BY <1>1, <1>3 DEF PutLink
  <2> QED BY <2>1, NoRow DEF PutLink
<1>4. CASE IsRow(i)
  <2>1. file[i] # None /\ file[i] \in Row /\ DOMAIN file = Ids BY <1>4 DEF IsRow, TreeTypes, TreeIInv
  <2>2. PICK r : r = [file[i] EXCEPT !.link = i] OBVIOUS
  <2>3. r \in Row /\ r.parent = file[i].parent /\ r.name = file[i].name /\ r.link = i
    BY <1>2, <2>1, <2>2 DEF Row
  <2>4. [file EXCEPT ![i].link = i] = [file EXCEPT ![i] = r] BY <1>2, <2>1, <2>2
  <2>5. Write(w, [file EXCEPT ![i] = r]) BY <1>1, <1>4, <2>4 DEF PutLink
  <2> QED BY <1>2, <2>1, <2>3, <2>5, ColumnSet DEF PutLink
<1> QED BY <1>3, <1>4

-----------------------------------------------------------------------------
(* The lock store.                                                          *)

(* New locks are nobody's since the beginning.                               *)
LEMMA Relocked ==
  ASSUME TreeIInv, NEW f, SetLocks(f), \A k \in DOMAIN f : k \in Resources /\ f[k] \in LockRec,
         job' = job \/ \E w \in Workers : Finish(w), UNCHANGED <<file, next, manifests, refs, touched, requests>>
  PROVE  TreeIInv'
<1>1. TableKept BY TableSame DEF TreeIInv
<1>2. TreeTypes' /\ NamesDistinct' /\ RowsOK' BY <1>1 DEF TableKept, TreeIInv, TreeTypes
<1>3. JobsOK' /\ RefsEnough'
  <2>1. CASE job' = job
    <3>1. JobsOK' BY <2>1 DEF TreeIInv, JobsOK, IsJob, JobOK, WalkOK, TodoOK, Here, IsRow, Given
    <3>2. RefsEnough' BY <2>1 DEF TreeIInv, RefsEnough, Pending, Counting
    <3> QED BY <3>1, <3>2
  <2>2. ASSUME NEW w \in Workers, Finish(w) PROVE JobsOK' /\ RefsEnough'
    <3>1. PICK j : j = Idle OBVIOUS
    <3>2. IsJob(j) /\ JobOK(j)' /\ ~Counting(j) BY <3>1, IdleOK
    <3>3. Became(w, j) BY <2>2, <3>1 DEF Became, Finish
    <3>4. JobsOK' BY <1>1, <3>2, <3>3, JobsKept DEF TableKept, TreeIInv
    <3>5. CountStep(w, j) BY <3>2 DEF CountStep
    <3>6. RefsEnough' BY <3>3, <3>5, RefsKept DEF TreeIInv
    <3> QED BY <3>4, <3>6
  <2> QED BY <2>1, <2>2
<1>4. \A v \in Workers : held'[v] = {k \in held[v] : k \in DOMAIN f /\ f[k].alive} BY DEF SetLocks
<1>5. LockTypes'
  <2>1. held' = [v \in Workers |-> held'[v]] BY DEF SetLocks
  <2>2. \A v \in Workers : \A k \in held'[v] : k \in DOMAIN locks' /\ locks'[k].alive BY <1>4 DEF SetLocks
  <2> QED BY <2>1, <2>2 DEF LockTypes, SetLocks, IsLocked
<1>6. ASSUME NEW v \in Workers, Checked(job'[v]) PROVE Resource(job'[v].src) \notin held'[v]
  <2>1. job'[v] = job[v] \/ job'[v] = Idle BY DEF Finish, TreeIInv, JobsOK
  <2>2. job'[v] = job[v] BY <1>6, <2>1, IdleOK
  <2> QED BY <1>4, <1>6, <2>2 DEF TreeIInv, ChecksOK
<1>7. ChecksOK' BY <1>6 DEF ChecksOK, Checked, Resource
<1> QED BY <1>2, <1>3, <1>5, <1>7 DEF TreeIInv

LEMMA LockKeeps ==
  ASSUME TreeIInv, NEW w \in Workers, Lock(w)
  PROVE  TreeIInv'
<1>1. job[w].src \in Resources /\ job[w].name \in Tokens BY JobAt DEF TreeIInv, JobOK, Lock
<1>2. PICK f : f = [k \in DOMAIN locks \cup {job[w].src} |->
                     IF k = job[w].src THEN [token |-> job[w].name, alive |-> TRUE] ELSE locks[k]] OBVIOUS
<1>3. SetLocks(f) BY <1>2 DEF Lock
<1>4. \A k \in DOMAIN f : k \in Resources /\ f[k] \in LockRec
  BY <1>1, <1>2 DEF TreeIInv, LockTypes, LockRec
<1> QED BY <1>3, <1>4, Relocked DEF Lock

LEMMA UnlockKeeps ==
  ASSUME TreeIInv, NEW w \in Workers, Unlock(w)
  PROVE  TreeIInv'
<1>1. CASE UNCHANGED <<locks, held>> BY <1>1, Ended DEF Unlock
<1>2. CASE \E k \in DOMAIN locks : SetLocks([l \in DOMAIN locks \ {k} |-> locks[l]])
  <2>1. PICK k \in DOMAIN locks : SetLocks([l \in DOMAIN locks \ {k} |-> locks[l]]) BY <1>2
  <2>2. PICK f : f = [l \in DOMAIN locks \ {k} |-> locks[l]] OBVIOUS
  <2>3. SetLocks(f) BY <2>1, <2>2
  <2>4. \A l \in DOMAIN f : l \in Resources /\ f[l] \in LockRec BY <2>2 DEF TreeIInv, LockTypes
  <2> QED BY <2>3, <2>4, Relocked DEF Unlock
<1> QED BY <1>1, <1>2 DEF Unlock

LEMMA ExpireKeeps ==
  ASSUME TreeIInv, Expire
  PROVE  TreeIInv'
<1>1. PICK k \in DOMAIN locks : SetLocks([locks EXCEPT ![k].alive = FALSE]) BY DEF Expire
<1>2. PICK f : f = [locks EXCEPT ![k].alive = FALSE] OBVIOUS
<1>3. SetLocks(f) BY <1>1, <1>2
<1>4. \A l \in DOMAIN f : l \in Resources /\ f[l] \in LockRec
  <2>1. DOMAIN f = DOMAIN locks /\ \A l \in DOMAIN locks : f[l] = IF l = k THEN [locks[k] EXCEPT !.alive = FALSE] ELSE locks[l]
    BY <1>2
  <2>2. \A l \in DOMAIN locks : l \in Resources /\ locks[l] \in LockRec BY DEF TreeIInv, LockTypes
  <2>3. [locks[k] EXCEPT !.alive = FALSE] \in LockRec BY <2>2 DEF LockRec
  <2> QED BY <2>1, <2>2, <2>3
<1> QED BY <1>3, <1>4, Relocked DEF Expire, treeVars

LEMMA cleanupLoopKeeps ==
  ASSUME TreeIInv, cleanupLoop
  PROVE  TreeIInv'
<1>1. PICK f : f = [k \in {l \in DOMAIN locks : locks[l].alive} |-> locks[k]] OBVIOUS
<1>2. SetLocks(f) BY <1>1 DEF cleanupLoop
<1>3. \A l \in DOMAIN f : l \in Resources /\ f[l] \in LockRec BY <1>1 DEF TreeIInv, LockTypes
<1> QED BY <1>2, <1>3, Relocked DEF cleanupLoop, treeVars

-----------------------------------------------------------------------------
(* Theorems.                                                                *)

LEMMA TreeInitially == DavInit => TreeIInv
<1> SUFFICES ASSUME DavInit PROVE TreeIInv OBVIOUS
<1>1. PICK s \in Seeds :
        /\ file = [i \in Ids |-> IF i <= Len(s) THEN s[i] ELSE None]
        /\ next = Len(s) + 1
        /\ manifests = {i \in DOMAIN s : s[i].link = i}
        /\ refs = Cardinality({i \in DOMAIN s : s[i].link = i})
  BY DEF DavInit, Init
<1>2. /\ job = [w \in Workers |-> Idle] /\ touched = [w \in Workers |-> {}] /\ requests = 0
      /\ locks = <<>> /\ held = [w \in Workers |-> {}]
  BY DEF DavInit, Init, LockInit
<1>3. s \in Seq(Row) /\ Len(s) <= MaxIds BY SeedAssumption
<1>4. Len(s) \in Nat /\ DOMAIN s = 1 .. Len(s) /\ \A i \in DOMAIN s : s[i] \in Row BY <1>3
<1>5. \A i \in Ids : IF i \in DOMAIN s THEN file[i] = s[i] ELSE file[i] = None
  <2>1. \A i \in Ids : i <= Len(s) <=> i \in DOMAIN s BY <1>4, TreeAssumption DEF Ids
  <2> QED BY <1>1, <2>1
<1>6. DOMAIN s \subseteq Ids BY <1>3, <1>4, TreeAssumption DEF Ids
<1>7. IsFiniteSet(manifests) /\ refs = Cardinality(manifests) /\ refs \in Nat
  <2>1. IsFiniteSet(DOMAIN s) BY <1>4, FS_Interval
  <2>2. manifests \subseteq DOMAIN s BY <1>1
  <2>3. IsFiniteSet(manifests) BY <2>1, <2>2, FS_Subset
  <2> QED BY <1>1, <2>3, FS_CardinalityType
<1>8. TreeTypes
  <2>1. file \in [Ids -> Row \cup {None}]
    <3>1. \A i \in Ids : file[i] \in Row \cup {None} BY <1>4, <1>5
    <3> QED BY <1>1, <3>1
  <2>2. next \in 1 .. MaxIds + 1 BY <1>1, <1>3, <1>4, TreeAssumption
  <2>3. manifests \subseteq 1 .. next - 1
    <3>1. next - 1 = Len(s) BY <1>1, <1>4
    <3> QED BY <1>1, <1>4, <3>1
  <2>4. requests \in 0 .. MaxRequests BY <1>2, TreeAssumption
  <2>5. touched \in [Workers -> SUBSET Ids] BY <1>2
  <2> QED BY <1>7, <2>1, <2>2, <2>3, <2>4, <2>5 DEF TreeTypes
<1>9. NamesDistinct
  <2> SUFFICES ASSUME NEW i \in Ids, NEW j \in Ids, file[i] # None, file[j] # None, i # j,
                      file[i].parent # Root, file[i].parent = file[j].parent
               PROVE  file[i].name # file[j].name
    BY DEF NamesDistinct, IsRow
  <2>1. i \in DOMAIN s /\ j \in DOMAIN s /\ file[i] = s[i] /\ file[j] = s[j] BY <1>5
  <2> QED BY <2>1, SeedAssumption
<1>10. RowsOK
  <2> SUFFICES ASSUME NEW i \in Ids, file[i] # None
               PROVE  i < next /\ Given(file[i].parent) /\ (file[i].link # None => Here(file[i].link))
    BY DEF RowsOK, IsRow
  <2>1. i \in DOMAIN s /\ file[i] = s[i] BY <1>5
  <2>2. i < next BY <1>1, <1>4, <2>1
  <2>3. s[i].link \in {i, None} BY <2>1, SeedAssumption
  <2>4. s[i].link # None => i \in manifests /\ s[i].link = i BY <1>1, <2>1, <2>3
  <2>5. Given(s[i].parent)
    <3>1. s[i].parent \in {Root} \cup DOMAIN s BY <2>1, SeedAssumption
    <3>2. \A k \in DOMAIN s : k < next BY <1>1, <1>4
    <3> QED BY <3>1, <3>2, GivenRoot DEF Given
  <2> QED BY <2>1, <2>2, <2>4, <2>5 DEF Here
<1>11. JobsOK BY <1>2, IdleOK DEF JobsOK
<1>12. RefsEnough
  <2>1. Pending = {} BY <1>2, IdleOK DEF Pending
  <2>2. Cardinality(Pending) = 0 BY <2>1, FS_EmptySet
  <2> QED BY <1>7, <2>2 DEF RefsEnough
<1>13. LockTypes BY <1>2 DEF LockTypes
<1>14. ChecksOK BY <1>2 DEF ChecksOK
<1> QED BY <1>8, <1>9, <1>10, <1>11, <1>12, <1>13, <1>14 DEF TreeIInv

LEMMA TreeStepsKeep == TreeIInv /\ [DavNext]_vars => TreeIInv'
<1> SUFFICES ASSUME TreeIInv, [DavNext]_vars PROVE TreeIInv' OBVIOUS
<1>1. CASE UNCHANGED vars
  <2>1. UNCHANGED <<file, next, manifests, refs, job, touched, requests, locks, held>>
    BY <1>1 DEF vars, treeVars
  <2> QED BY <2>1 DEF TreeIInv, TreeTypes, NamesDistinct, RowsOK, JobsOK, RefsEnough, LockTypes, ChecksOK,
                      IsRow, Here, Given, IsJob, JobOK, WalkOK, TodoOK, Pending, Counting, IsLocked, Checked, Resource
<1>2. ASSUME NEW w \in Workers, Rest(w) PROVE TreeIInv' BY <1>2, TreeStepKeeps DEF Rest
<1>3. ASSUME NEW w \in Workers, ServeHTTP(w) PROVE TreeIInv' BY <1>3, ServeHTTPKeeps
<1>4. ASSUME NEW w \in Workers, getFileByPath(w) PROVE TreeIInv' BY <1>4, getFileByPathKeeps
<1>5. ASSUME NEW w \in Workers, LockCheck(w) PROVE TreeIInv' BY <1>5, LockCheckKeeps
<1>6. ASSUME NEW w \in Workers, PutChunks(w) PROVE TreeIInv' BY <1>6, PutChunksKeeps
<1>7. ASSUME NEW w \in Workers, PutManifest(w) PROVE TreeIInv' BY <1>7, PutManifestKeeps
<1>8. ASSUME NEW w \in Workers, PutLink(w) PROVE TreeIInv' BY <1>8, PutLinkKeeps
<1>9. ASSUME NEW w \in Workers, Answer(w) PROVE TreeIInv' BY <1>9, Ended DEF Answer
<1>10. ASSUME NEW w \in Workers, Lock(w) PROVE TreeIInv' BY <1>10, LockKeeps
<1>11. ASSUME NEW w \in Workers, Unlock(w) PROVE TreeIInv' BY <1>11, UnlockKeeps
<1>12. CASE Expire BY <1>12, ExpireKeeps
<1>13. CASE cleanupLoop BY <1>13, cleanupLoopKeeps
<1> QED BY <1>1, <1>2, <1>3, <1>4, <1>5, <1>6, <1>7, <1>8, <1>9, <1>10, <1>11, <1>12, <1>13 DEF DavNext

LEMMA TreeImplies == TreeIInv => TreeInv /\ ContentReachable /\ RefsCover
<1> SUFFICES ASSUME TreeIInv PROVE TreeInv /\ ContentReachable /\ RefsCover OBVIOUS
<1>1. TypeOK
  <2>1. DOMAIN job = Workers BY DEF TreeIInv, JobsOK
  <2>2. \A w \in Workers : DOMAIN job[w] = DOMAIN Idle
    <3>1. \A w \in Workers : IsJob(job[w]) BY DEF TreeIInv, JobsOK
    <3> QED BY <3>1 DEF IsJob, Idle
  <2> QED BY <2>1, <2>2 DEF TreeIInv, TreeTypes, RowsOK, IsRow, TypeOK
<1>2. LocksOK BY DEF TreeIInv, LockTypes, LocksOK, LockRec
<1>3. ContentReachable
  <2> SUFFICES ASSUME NEW i \in Ids, IsRow(i), file[i].link # None
               PROVE  file[i].link \in manifests \/ (file[i].link # i /\ ~IsRow(file[i].link))
    BY DEF ContentReachable
  <2>1. Here(file[i].link) BY DEF TreeIInv, RowsOK
  <2> QED BY <2>1 DEF Here
<1>4. RefsCover
  <2>1. IsFiniteSet(manifests)
    <3>1. next - 1 \in Int BY TreeAssumption DEF TreeIInv, TreeTypes
    <3>2. IsFiniteSet(1 .. next - 1) BY <3>1, FS_Interval
    <3> QED BY <3>2, FS_Subset DEF TreeIInv, TreeTypes
  <2>2. IsFiniteSet(Pending) BY TreeAssumption, FS_Subset DEF Pending
  <2>3. Cardinality(manifests) \in Nat /\ Cardinality(Pending) \in Nat BY <2>1, <2>2, FS_CardinalityType
  <2>4. refs \in Nat /\ refs >= Cardinality(manifests) + Cardinality(Pending)
    BY DEF TreeIInv, TreeTypes, RefsEnough
  <2> QED BY <2>3, <2>4 DEF RefsCover
<1> QED BY <1>1, <1>2, <1>3, <1>4 DEF TreeInv, TreeIInv

LEMMA TreeAlways == Spec => []TreeIInv
BY TreeInitially, TreeStepsKeep, PTL DEF Spec

(* Whatever requests interleave, a name belongs to one row of a folder, and  *)
(* a resource a request has seen locked throughout is locked: TreeInv of     *)
(* vfs/vfs.go, db/files.go and webdav/handler.go.                            *)
THEOREM TreeCorrect == Spec => []TreeInv
BY TreeAlways, TreeImplies, PTL

(* A file keeps the manifest it is linked to, unless it is a copy of a file  *)
(* deleted for good: no interleaving of puts, copies, moves and deletions    *)
(* links a file to a manifest that is not there yet.                         *)
THEOREM ContentKept == Spec => []ContentReachable
BY TreeAlways, TreeImplies, PTL

(* listFolders filters the page it has read, and answers the pages of the    *)
(* list of folders all the same, whatever requests do to the tree.           *)
THEOREM FoldersPaged == Spec => []FolderPages
<1>1. TreeIInv => FolderPages
  <2> SUFFICES ASSUME TreeIInv, NEW p, NEW limit, NEW offset \in 0 .. 1
               PROVE  listFolders(p, limit, offset) = Page(Folders(ListDirectory(p)), limit, offset)
    BY DEF FolderPages
  <2>1. TreeTypes /\ offset \in Nat BY DEF TreeIInv
  <2> QED BY <2>1, FolderPagesExact
<1> QED BY <1>1, TreeAlways, PTL

(* The references counted cover the manifests, with every put between its    *)
(* chunk and its manifest: handlePut counts first and takes nothing back.    *)
THEOREM RefsAlwaysCover == Spec => []RefsCover
BY TreeAlways, TreeImplies, PTL

(* One check of IsLocked, some steps before the statement, is enough for a   *)
(* DELETE or MOVE not to take away what was locked all along.                *)
THEOREM LocksRespected == Spec => LockRespected
<1>1. TreeIInv /\ [DavNext]_vars =>
        [\A w \in Workers :
           job[w].op \in {"delete", "move"} /\ job[w].pc \in {"trash", "update"} /\ job'[w] = Idle
           => \/ Resource(job[w].src) \notin held[w]
              \/ file' = file]_vars
  BY DEF TreeIInv, ChecksOK, Checked
<1> QED BY <1>1, TreeAlways, PTL DEF Spec, LockRespected

-----------------------------------------------------------------------------
(* What a walk has listed and has yet to read, of every worker that walks.   *)
Walks(f, x, g) ==
  \A w \in Workers : g[w].pc = "walk" /\ g[w].cut = {} => WalkedIn(f, x[w], g[w].out, g[w].todo)
WalkIInv == Walks(file, touched, job)

(* A step of one worker: the others see which rows it changed, and only      *)
(* ListAllFiles and walkDir leave a worker with a walk, only the steps of a  *)
(* copy leave it with one.                                                   *)
Changes(w) ==
  \/ UNCHANGED <<file, touched>>
  \/ UNCHANGED file /\ touched' = [touched EXCEPT ![w] = {}]
  \/ Write(w, file')
Copying == {"copyLookup", "copyRoot", "copyItem", "copyList", "copied"}
Busy == {"walk"} \cup Copying
StepsTo(w, j, A) == Became(w, j) /\ Changes(w) /\ j.pc \notin A
Elsewhere(w, A) == \E j : StepsTo(w, j, A)
CopyStep(w) == CopySource(w) \/ CopyLookup(w) \/ CopyRoot(w) \/ CopyItem(w) \/ copyFolderContents(w)

LEMMA IdlePc == Idle.pc = "idle" /\ Idle.pc \notin Busy
BY DEF Idle, Busy, Copying

LEMMA FinishElsewhere ==
  ASSUME NEW w \in Workers, NEW A, A \subseteq Busy, Finish(w), Changes(w)
  PROVE  Elsewhere(w, A)
<1> USE DEF Busy, Copying
<1>1. PICK j : j = Idle OBVIOUS
<1>2. j.pc \notin A BY <1>1, IdlePc
<1>3. Became(w, j) BY <1>1 DEF Finish, Became
<1> QED BY <1>2, <1>3 DEF Elsewhere, StepsTo

LEMMA ArriveElsewhere ==
  ASSUME NEW w \in Workers, NEW A, A \subseteq Busy, NEW j, Arrive(w, j), j.pc \notin A
  PROVE  Elsewhere(w, A)
BY DEF Elsewhere, StepsTo, Arrive, Became, Changes

(* A request that goes on at pc, or ends.                                    *)
LEMMA PcElsewhere ==
  ASSUME NEW w \in Workers, NEW A, A \subseteq Busy, IsJob(job[w]), NEW pc, pc \notin A, Changes(w),
         Became(w, Idle) \/ Became(w, [job[w] EXCEPT !.pc = pc])
  PROVE  Elsewhere(w, A)
<1> USE DEF Busy, Copying
<1>1. CASE Became(w, Idle) BY <1>1, FinishElsewhere DEF Became, Finish
<1>2. CASE Became(w, [job[w] EXCEPT !.pc = pc])
  <2>1. PICK j : j = [job[w] EXCEPT !.pc = pc] OBVIOUS
  <2>2. j.pc \notin A BY <2>1 DEF IsJob
  <2> QED BY <1>2, <2>1, <2>2 DEF Elsewhere, StepsTo
<1> QED BY <1>1, <1>2

LEMMA CreateFileElsewhere ==
  ASSUME NEW w \in Workers, NEW A, A \subseteq Busy, NEW r, NEW d, d.pc \notin A, CreateFile(w, r, d, Idle)
  PROVE  Elsewhere(w, A)
<1>1. \/ Write(w, file') /\ Became(w, d)
      \/ UNCHANGED <<file, touched>> /\ Finish(w)
  <2>1. CreateFile(w, r, d, Idle) OBVIOUS
  <2> QED BY ONLY <2>1 DEF CreateFile, Became, Finish, Write
<1>2. CASE Write(w, file') /\ Became(w, d) BY <1>2 DEF Elsewhere, StepsTo, Changes
<1>3. CASE UNCHANGED <<file, touched>> /\ Finish(w) BY <1>3, FinishElsewhere DEF Changes
<1> QED BY <1>1, <1>2, <1>3

LEMMA RestElsewhere ==
  ASSUME NEW w \in Workers,
         \/ createFile(w) \/ createFolder(w) \/ updateFile(w) \/ updateFolder(w)
         \/ deleteFile(w) \/ deleteFolder(w) \/ restoreItem(w) \/ permanentDelete(w)
  PROVE  Elsewhere(w, Busy)
<1> USE DEF Busy, Copying
<1>1. ASSUME NEW k, Create(w, k) PROVE Elsewhere(w, Busy)
  <2>1. PICK p, n : Arrive(w, [Idle EXCEPT !.op = "create", !.pc = "lookup", !.dst = p, !.name = n, !.kind = k])
    BY <1>1 DEF Create
  <2>2. PICK j : j = [Idle EXCEPT !.op = "create", !.pc = "lookup", !.dst = p, !.name = n, !.kind = k] OBVIOUS
  <2>3. j.pc = "lookup" BY <2>2 DEF Idle
  <2> QED BY <2>1, <2>2, <2>3, ArriveElsewhere
<1>2. ASSUME NEW i, NEW p, NEW n, NEW pc \in {"parent", "name", "update"},
             Arrive(w, [Idle EXCEPT !.op = "update", !.src = i, !.dst = p, !.name = n, !.pc = pc])
      PROVE  Elsewhere(w, Busy)
  <2>1. PICK j : j = [Idle EXCEPT !.op = "update", !.src = i, !.dst = p, !.name = n, !.pc = pc] OBVIOUS
  <2>2. j.pc = pc BY <2>1 DEF Idle
  <2> QED BY <1>2, <2>1, <2>2, ArriveElsewhere
<1>3. ASSUME NEW i, NEW op \in {"trash", "restore", "purge"}, RemoveEntry(w, i, op) PROVE Elsewhere(w, Busy)
  <2>1. PICK j : j = [Idle EXCEPT !.op = op, !.src = i, !.pc = op] OBVIOUS
  <2>2. j.pc = op BY <2>1 DEF Idle
  <2> QED BY <1>3, <2>1, <2>2, ArriveElsewhere DEF RemoveEntry
<1>4. CASE createFile(w) \/ createFolder(w) BY <1>1, <1>4 DEF createFile, createFolder
<1>5. CASE updateFile(w)
  <2>1. PICK i \in Ids, p \in Ids \cup {None}, n \in Names \cup {None} :
          Arrive(w, [Idle EXCEPT !.op = "update", !.src = i, !.dst = p, !.name = n,
                                 !.pc = IF p # None THEN "parent" ELSE "update"])
    BY <1>5 DEF updateFile
  <2>2. PICK pc \in {"parent", "name", "update"} : pc = IF p # None THEN "parent" ELSE "update" OBVIOUS
  <2> QED BY <1>2, <2>1, <2>2
<1>6. CASE updateFolder(w)
  <2>1. PICK i, p, n :
          Arrive(w, [Idle EXCEPT !.op = "update", !.src = i, !.dst = p, !.name = n,
                                 !.pc = IF p # None /\ n = None THEN "name" ELSE "update"])
    BY <1>6 DEF updateFolder
  <2>2. PICK pc \in {"parent", "name", "update"} : pc = IF p # None /\ n = None THEN "name" ELSE "update" OBVIOUS
  <2> QED BY <1>2, <2>1, <2>2
<1>7. CASE deleteFile(w) \/ deleteFolder(w) \/ restoreItem(w) \/ permanentDelete(w)
  BY <1>3, <1>7 DEF deleteFile, deleteFolder, restoreItem, permanentDelete
<1> QED BY <1>4, <1>5, <1>6, <1>7

LEMMA AfterCopyPc ==
  ASSUME NEW j, IsJob(j), NEW item, NEW rest
  PROVE  AfterCopy(j, item, rest).pc # "walk"
<1> DEFINE k == [j EXCEPT !.todo = rest, !.scope = @ \cup {item[1], next}]
           d == AfterCopy(j, item, rest)
<1>1. IsJob(k) BY DEF IsJob
<1>2. d = IF item[2].kind = "folder"
          THEN [k EXCEPT !.at = item[1], !.dst = next, !.pc = "copyList"]
          ELSE [k EXCEPT !.pc = IF rest = <<>> THEN "copied" ELSE "copyItem"]
  BY DEF AfterCopy
<1> HIDE DEF k, d
<1>3. CASE item[2].kind = "folder"
  <2>1. d.pc = "copyList" BY <1>1, <1>2, <1>3 DEF IsJob
  <2> QED BY <2>1 DEF d
<1>4. CASE item[2].kind # "folder"
  <2>1. PICK pc : pc = IF rest = <<>> THEN "copied" ELSE "copyItem" OBVIOUS
  <2>2. d = [k EXCEPT !.pc = pc] BY <1>2, <1>4, <2>1
  <2>3. d.pc = pc BY <1>1, <2>2 DEF IsJob
  <2> QED BY <2>1, <2>3 DEF d
<1> QED BY <1>3, <1>4

LEMMA CopyElsewhere ==
  ASSUME JobsOK, NEW w \in Workers, CopyStep(w)
  PROVE  Elsewhere(w, {"walk"})
<1> USE DEF Busy, Copying
<1>1. IsJob(job[w]) BY JobAt
<1>2. CASE CopySource(w)
  <2>1. PICK s : s = job[w].src OBVIOUS
  <2>2. PICK todo : todo = <<<<s, file[s], job[w].dst>>>> OBVIOUS
  <2>3. PICK j : j = [job[w] EXCEPT !.todo = todo, !.pc = "copyLookup",
                                    !.kind = file[s].kind, !.scope = {s} \cup Below(s)] OBVIOUS
  <2>4. Became(w, Idle) \/ Became(w, j) BY <1>2, <2>1, <2>2, <2>3 DEF CopySource, Became, JobsOK
  <2>5. Changes(w) BY <1>2 DEF CopySource, Changes
  <2>6. CASE Became(w, Idle) BY <2>5, <2>6, FinishElsewhere DEF Became, Finish
  <2>7. CASE Became(w, j)
    <3>1. j.pc = "copyLookup" BY <1>1, <2>3 DEF IsJob
    <3> QED BY <2>5, <2>7, <3>1 DEF Elsewhere, StepsTo
  <2> QED BY <2>4, <2>6, <2>7
<1>3. CASE CopyLookup(w)
  <2>1. Became(w, Idle) \/ Became(w, [job[w] EXCEPT !.pc = "copyRoot"]) BY <1>3 DEF CopyLookup, Became, JobsOK
  <2>2. Changes(w) BY <1>3 DEF CopyLookup, Changes
  <2> QED BY <1>1, <2>1, <2>2, PcElsewhere
<1>4. CASE CopyRoot(w)
  <2>1. PICK item : item = Head(job[w].todo) OBVIOUS
  <2>2. PICK j : j = [job[w] EXCEPT !.out = <<<<next, <<>>>>>>] OBVIOUS
  <2>3. IsJob(j) BY <1>1, <2>2 DEF IsJob
  <2>4. PICK r : CreateFile(w, r, AfterCopy(j, item, <<>>), Idle) BY <1>4, <2>1, <2>2 DEF CopyRoot
  <2>5. AfterCopy(j, item, <<>>).pc # "walk" BY <2>3, AfterCopyPc
  <2> QED BY <2>4, <2>5, CreateFileElsewhere
<1>5. CASE CopyItem(w)
  <2>1. PICK item : item = Head(job[w].todo) OBVIOUS
  <2>2. PICK rest : rest = Tail(job[w].todo) OBVIOUS
  <2>3. PICK r : CreateFile(w, r, AfterCopy(job[w], item, rest), Idle) BY <1>5, <2>1, <2>2 DEF CopyItem
  <2>4. AfterCopy(job[w], item, rest).pc # "walk" BY <1>1, AfterCopyPc
  <2> QED BY <2>3, <2>4, CreateFileElsewhere
<1>6. CASE copyFolderContents(w)
  <2>1. PICK todo, cut : job' = [job EXCEPT ![w].todo = todo, ![w].cut = cut,
                                            ![w].pc = IF todo = <<>> THEN "copied" ELSE "copyItem"]
    BY <1>6 DEF copyFolderContents
  <2>2. PICK pc : pc = IF todo = <<>> THEN "copied" ELSE "copyItem" OBVIOUS
  <2>3. PICK j : j = [job[w] EXCEPT !.todo = todo, !.cut = cut, !.pc = pc] OBVIOUS
  <2>4. j.pc # "walk" BY <1>1, <2>2, <2>3 DEF IsJob
  <2>5. Became(w, j) BY <2>1, <2>2, <2>3 DEF Became, JobsOK
  <2>6. Changes(w) BY <1>6 DEF copyFolderContents, Changes
  <2> QED BY <2>4, <2>5, <2>6 DEF Elsewhere, StepsTo
<1> QED BY <1>2, <1>3, <1>4, <1>5, <1>6 DEF CopyStep

LEMMA TreeElsewhere ==
  ASSUME JobsOK, NEW w \in Workers, TreeStep(w)
  PROVE  Elsewhere(w, Busy) \/ CopyStep(w) \/ ListAllFiles(w) \/ walkDir(w)
<1> USE DEF Busy, Copying
<1>1. IsJob(job[w]) BY JobAt
<1>2. CASE CreateLookup(w)
  <2>1. Became(w, Idle) \/ Became(w, [job[w] EXCEPT !.pc = "insert"]) BY <1>2 DEF CreateLookup, Became, JobsOK
  <2>2. Changes(w) BY <1>2 DEF CreateLookup, Changes
  <2> QED BY <1>1, <2>1, <2>2, PcElsewhere
<1>3. CASE CreateInsert(w)
  <2>1. PICK d : d = IF job[w].op = "put" THEN [job[w] EXCEPT !.src = next, !.pc = "manifest"] ELSE Idle OBVIOUS
  <2>2. d.pc \notin Busy
    <3>1. CASE job[w].op = "put"
      <4>1. d = [job[w] EXCEPT !.src = next, !.pc = "manifest"] BY <2>1, <3>1
      <4> QED BY <1>1, <4>1 DEF IsJob
    <3>2. CASE job[w].op # "put" BY <2>1, <3>2, IdlePc
    <3> QED BY <3>1, <3>2
  <2>3. PICK r : CreateFile(w, r, d, Idle) BY <1>3, <2>1 DEF CreateInsert
  <2> QED BY <2>2, <2>3, CreateFileElsewhere
<1>4. CASE updateParent(w)
  <2>1. PICK pc \in {"name", "update"} : Became(w, Idle) \/ Became(w, [job[w] EXCEPT !.pc = pc])
    <3>1. PICK pc \in {"name", "update"} : pc = IF job[w].name = None THEN "name" ELSE "update" OBVIOUS
    <3>2. Became(w, Idle) \/ Became(w, [job[w] EXCEPT !.pc = pc])
      BY <1>4, <3>1 DEF updateParent, Became, JobsOK
    <3> QED BY <3>2
  <2>2. Changes(w) BY <1>4 DEF updateParent, Changes
  <2> QED BY <1>1, <2>1, <2>2, PcElsewhere
<1>5. CASE MoveName(w)
  <2>1. PICK j : j = [job[w] EXCEPT !.name = file[job[w].src].name, !.pc = "update"] OBVIOUS
  <2>2. Became(w, Idle) \/ Became(w, j) BY <1>5, <2>1 DEF MoveName, Became, JobsOK
  <2>3. j.pc = "update" BY <1>1, <2>1 DEF IsJob
  <2>4. Changes(w) BY <1>5 DEF MoveName, Changes
  <2>5. CASE Became(w, Idle) BY <2>4, <2>5, FinishElsewhere DEF Became, Finish
  <2>6. CASE Became(w, j) BY <2>3, <2>4, <2>6 DEF Elsewhere, StepsTo
  <2> QED BY <2>2, <2>5, <2>6
<1>6. CASE MoveFile(w)
  <2>1. Finish(w) BY <1>6 DEF MoveFile
  <2>2. Write(w, file') \/ UNCHANGED <<file, touched>> BY <1>6 DEF MoveFile, UpdateRow, Write
  <2> QED BY <2>1, <2>2, FinishElsewhere DEF Changes
<1>7. CASE SoftDelete(w) \/ RestoreFromTrash(w) \/ DeletePermanent(w)
  <2>1. Finish(w) BY <1>7 DEF SoftDelete, RestoreFromTrash, DeletePermanent
  <2>2. Write(w, file')
    <3>1. CASE SoftDelete(w) \/ RestoreFromTrash(w) BY <3>1 DEF SoftDelete, RestoreFromTrash, Write
    <3>2. CASE DeletePermanent(w) BY <3>2 DEF DeletePermanent, PermanentDelete, Write
    <3> QED BY <1>7, <3>1, <3>2
  <2> QED BY <2>1, <2>2, FinishElsewhere DEF Changes
<1>8. CASE Reply(w) BY <1>8, FinishElsewhere DEF Reply, Changes
<1> QED BY <1>2, <1>3, <1>4, <1>5, <1>6, <1>7, <1>8, RestElsewhere DEF TreeStep, CopyStep

LEMMA ResolvedPc ==
  ASSUME NEW j, IsJob(j), WalkOK(j), NEW hit
  PROVE  Resolved(j, hit).pc \notin Busy
<1> USE DEF Busy, Copying
<1> DEFINE d == Resolved(j, hit)
           Away(x) == x.pc \notin Busy
<1>1. ASSUME NEW phase \in {"dir", "full"}, NEW p, NEW i, IsJob(i), d = Resolving(i, phase, p) PROVE Away(d)
  <2> HIDE DEF d
  <2> QED BY <1>1, ResolvingFields
<1>2. ASSUME NEW pc \in {"chunks", "lockCheck", "lookup", "copySource", "update", "get", "list"},
             d = [j EXCEPT !.src = hit, !.pc = pc] \/ d = [j EXCEPT !.dst = hit, !.pc = pc]
      PROVE  Away(d)
  <2> HIDE DEF d
  <2>1. CASE d = [j EXCEPT !.src = hit, !.pc = pc] BY <1>2, <2>1 DEF IsJob
  <2>2. CASE d = [j EXCEPT !.dst = hit, !.pc = pc] BY <1>2, <2>2 DEF IsJob
  <2> QED BY <1>2, <2>1, <2>2
<1>3. d = Idle => Away(d) BY IdlePc
<1>4. ASSUME j.op = "put" PROVE Away(d)
  <2>1. d = handlePut(j, hit) /\ j.pc \in {"dir", "full"} BY <1>4 DEF Resolved, WalkOK
  <2>2. CASE j.pc = "dir" /\ hit = None
    <3>1. d = Idle BY <2>1, <2>2 DEF handlePut
    <3> QED BY <1>3, <3>1
  <2>3. CASE j.pc = "dir" /\ hit # None
    <3>1. PICK i : i = [j EXCEPT !.dst = hit] OBVIOUS
    <3>2. IsJob(i) BY <3>1 DEF IsJob
    <3>3. d = Resolving(i, "full", j.path) BY <2>1, <2>3, <3>1 DEF handlePut
    <3> QED BY <1>1, <3>2, <3>3
  <2>4. CASE j.pc = "full"
    <3>1. d = [j EXCEPT !.src = hit, !.pc = "chunks"] BY <2>1, <2>4 DEF handlePut
    <3> HIDE DEF d, Away
    <3> QED BY <1>2, <3>1
  <2> QED BY <2>1, <2>2, <2>3, <2>4
<1>5. ASSUME j.op = "delete" PROVE Away(d)
  <2>1. d = handleDelete(j, hit) BY <1>5 DEF Resolved
  <2>2. CASE hit = None
    <3>1. d = Idle BY <2>1, <2>2 DEF handleDelete
    <3> QED BY <1>3, <3>1
  <2>3. CASE hit # None
    <3>1. d = [j EXCEPT !.src = hit, !.pc = "lockCheck"] BY <2>1, <2>3 DEF handleDelete
    <3> HIDE DEF d, Away
    <3> QED BY <1>2, <3>1
  <2> QED BY <2>2, <2>3
<1>6. ASSUME j.op = "mkcol" PROVE Away(d)
  <2>1. d = handleMkCol(j, hit) /\ j.pc \in {"dir", "full"} BY <1>6 DEF Resolved, WalkOK
  <2>2. CASE (j.pc = "full" /\ hit # None) \/ (j.pc = "dir" /\ hit = None)
    <3>1. d = Idle BY <2>1, <2>2 DEF handleMkCol
    <3> QED BY <1>3, <3>1
  <2>3. CASE j.pc = "full" /\ hit = None
    <3>1. d = Resolving(j, "dir", Front(j.path)) BY <2>1, <2>3 DEF handleMkCol
    <3> QED BY <1>1, <3>1
  <2>4. CASE j.pc = "dir" /\ hit # None
    <3>1. d = [j EXCEPT !.dst = hit, !.pc = "lookup"] BY <2>1, <2>4 DEF handleMkCol
    <3> HIDE DEF d, Away
    <3> QED BY <1>2, <3>1
  <2> QED BY <2>1, <2>2, <2>3, <2>4
<1>7. ASSUME j.op = "copy" PROVE Away(d)
  <2>1. d = handleCopy(j, hit) /\ j.pc \in {"src", "dir"} BY <1>7 DEF Resolved, WalkOK
  <2>2. CASE hit = None
    <3>1. d = Idle BY <2>1, <2>2 DEF handleCopy
    <3> QED BY <1>3, <3>1
  <2>3. CASE hit # None /\ j.pc = "src"
    <3>1. PICK i : i = [j EXCEPT !.src = hit] OBVIOUS
    <3>2. IsJob(i) BY <3>1 DEF IsJob
    <3>3. d = Resolving(i, "dir", Front(j.dest)) BY <2>1, <2>3, <3>1 DEF handleCopy
    <3> QED BY <1>1, <3>2, <3>3
  <2>4. CASE hit # None /\ j.pc = "dir"
    <3>1. d = [j EXCEPT !.dst = hit, !.pc = "copySource"] BY <2>1, <2>4 DEF handleCopy
    <3> HIDE DEF d, Away
    <3> QED BY <1>2, <3>1
  <2> QED BY <2>1, <2>2, <2>3, <2>4
<1>8. ASSUME j.op = "move" PROVE Away(d)
  <2>1. d = handleMove(j, hit) /\ j.pc \in {"src", "dir"} BY <1>8 DEF Resolved, WalkOK
  <2>2. CASE hit = None
    <3>1. d = Idle BY <2>1, <2>2 DEF handleMove
    <3> QED BY <1>3, <3>1
  <2>3. CASE hit # None /\ j.pc = "src"
    <3>1. d = [j EXCEPT !.src = hit, !.pc = "lockCheck"] BY <2>1, <2>3 DEF handleMove
    <3> HIDE DEF d, Away
    <3> QED BY <1>2, <3>1
  <2>4. CASE hit # None /\ j.pc = "dir"
    <3>1. d = [j EXCEPT !.dst = hit, !.pc = "update"] BY <2>1, <2>4 DEF handleMove
    <3> HIDE DEF d, Away
    <3> QED BY <1>2, <3>1
  <2> QED BY <2>1, <2>2, <2>3, <2>4
<1>9. ASSUME j.op = "lock" PROVE Away(d)
  <2>1. PICK r : r = IF hit = None THEN NullResource(j.path) ELSE Resource(hit) OBVIOUS
  <2>2. d = [j EXCEPT !.src = r, !.pc = "lock"] BY <1>9, <2>1 DEF Resolved, handleLock
  <2> HIDE DEF d
  <2> QED BY <2>2 DEF IsJob
<1>10. ASSUME j.op \in {"get", "propfind"} PROVE Away(d)
  <2>1. d = Idle \/ \E pc \in {"get", "list"} : d = [j EXCEPT !.src = hit, !.pc = pc]
    <3>1. CASE j.op = "get"
      <4>1. d = handleGet(j, hit) BY <3>1 DEF Resolved
      <4> QED BY <4>1 DEF handleGet
    <3>2. CASE j.op = "propfind"
      <4>1. d = handlePropFind(j, hit) BY <3>2 DEF Resolved
      <4> QED BY <4>1 DEF handlePropFind
    <3> QED BY <1>10, <3>1, <3>2
  <2> HIDE DEF d, Away
  <2> QED BY <1>2, <1>3, <2>1
<1>11. Away(d)
  <2> HIDE DEF d, Away
  <2> QED BY <1>4, <1>5, <1>6, <1>7, <1>8, <1>9, <1>10 DEF WalkOK
<1> QED BY <1>11

LEMMA DavElsewhere ==
  ASSUME JobsOK, NEW w \in Workers,
         \/ ServeHTTP(w) \/ getFileByPath(w) \/ LockCheck(w) \/ PutChunks(w) \/ PutManifest(w)
         \/ PutLink(w) \/ Answer(w) \/ Lock(w) \/ Unlock(w)
  PROVE  Elsewhere(w, Busy)
<1> USE DEF Busy, Copying
<1>1. IsJob(job[w]) /\ JobOK(job[w]) BY JobAt
<1>2. CASE ServeHTTP(w)
  <2> DEFINE Request(op, p, d, n) == [Idle EXCEPT !.op = op, !.path = p, !.dest = d, !.name = n]
             NoDest(op, p, d, n) == [Request(op, p, d, n) EXCEPT !.dest = <<>>]
             Folder(op, p, d, n) == [NoDest(op, p, d, n) EXCEPT !.kind = "folder"]
  <2>1. ASSUME NEW op, NEW p, NEW d, NEW n
        PROVE  IsJob(Request(op, p, d, n)) /\ IsJob(NoDest(op, p, d, n)) /\ IsJob(Folder(op, p, d, n))
    <3>1. PICK i : i = Request(op, p, d, n) OBVIOUS
    <3>2. IsJob(i) BY <3>1 DEF Idle, IsJob
    <3>3. PICK j : j = [i EXCEPT !.dest = <<>>] OBVIOUS
    <3>4. IsJob(j) BY <3>2, <3>3 DEF IsJob
    <3>5. PICK k : k = [j EXCEPT !.kind = "folder"] OBVIOUS
    <3>6. IsJob(k) BY <3>4, <3>5 DEF IsJob
    <3> QED BY <3>1, <3>2, <3>3, <3>4, <3>5, <3>6
  <2>2. PICK p \in Paths, d \in Paths \ {<<>>} :
          \/ Arrive(w, Resolving(NoDest("put", p, d, Last(p)), "dir", Front(p)))
          \/ Arrive(w, Resolving(Folder("mkcol", p, d, Last(p)), "full", p))
          \/ \E op \in {"delete", "get", "propfind"} : Arrive(w, Resolving(NoDest(op, p, d, None), "src", p))
          \/ \E t \in Tokens : Arrive(w, Resolving(NoDest("lock", p, d, t), "src", p))
          \/ \E t \in Tokens : Arrive(w, handleUnlock(t))
          \/ \E op \in {"copy", "move"} : Arrive(w, Resolving(Request(op, p, d, Last(d)), "src", p))
    BY <1>2 DEF ServeHTTP
  <2> HIDE DEF Request, NoDest, Folder
  <2>3. ASSUME NEW i, NEW phase \in {"dir", "full", "src"}, NEW left, IsJob(i), Arrive(w, Resolving(i, phase, left))
        PROVE  Elsewhere(w, Busy)
    <3>1. PICK j : j = Resolving(i, phase, left) OBVIOUS
    <3>2. j.pc = phase BY <2>3, <3>1, ResolvingFields
    <3>3. Arrive(w, j) BY <2>3, <3>1
    <3> QED BY <3>2, <3>3, ArriveElsewhere
  <2>4. ASSUME NEW t, Arrive(w, handleUnlock(t)) PROVE Elsewhere(w, Busy)
    <3>1. PICK j : j = handleUnlock(t) OBVIOUS
    <3>2. j.pc = "unlock" BY <3>1 DEF handleUnlock, Idle
    <3> QED BY <2>4, <3>1, <3>2, ArriveElsewhere
  <2>5. CASE Arrive(w, Resolving(NoDest("put", p, d, Last(p)), "dir", Front(p)))
    <3>1. PICK i : i = NoDest("put", p, d, Last(p)) OBVIOUS
    <3>2. IsJob(i) /\ Arrive(w, Resolving(i, "dir", Front(p))) BY <2>1, <2>5, <3>1
    <3> QED BY <2>3, <3>2
  <2>6. CASE Arrive(w, Resolving(Folder("mkcol", p, d, Last(p)), "full", p))
    <3>1. PICK i : i = Folder("mkcol", p, d, Last(p)) OBVIOUS
    <3>2. IsJob(i) /\ Arrive(w, Resolving(i, "full", p)) BY <2>1, <2>6, <3>1
    <3> QED BY <2>3, <3>2
  <2>7. ASSUME NEW op, NEW n, Arrive(w, Resolving(NoDest(op, p, d, n), "src", p)) PROVE Elsewhere(w, Busy)
    <3>1. PICK i : i = NoDest(op, p, d, n) OBVIOUS
    <3>2. IsJob(i) /\ Arrive(w, Resolving(i, "src", p)) BY <2>1, <2>7, <3>1
    <3> QED BY <2>3, <3>2
  <2>8. ASSUME NEW op, Arrive(w, Resolving(Request(op, p, d, Last(d)), "src", p)) PROVE Elsewhere(w, Busy)
    <3>1. PICK i : i = Request(op, p, d, Last(d)) OBVIOUS
    <3>2. IsJob(i) /\ Arrive(w, Resolving(i, "src", p)) BY <2>1, <2>8, <3>1
    <3> QED BY <2>3, <3>2
  <2> QED BY <2>2, <2>4, <2>5, <2>6, <2>7, <2>8
<1>3. CASE getFileByPath(w)
  <2>1. PICK j : j = job[w] OBVIOUS
  <2>2. IsJob(j) /\ WalkOK(j) /\ j.pc \notin Busy BY <1>1, <1>3, <2>1 DEF getFileByPath, JobOK
  <2>3. Changes(w) BY <1>3 DEF getFileByPath, Changes
  <2>4. \/ \E hit : Became(w, Resolved(j, hit))
        \/ \E i : Became(w, [j EXCEPT !.at = i, !.left = Tail(@)])
    <3>1. CASE j.left = <<>> /\ Became(w, Resolved(j, Root)) BY <3>1
    <3>2. CASE j.left # <<>> /\ Became(w, Resolved(j, None)) BY <3>2
    <3>3. CASE \E i \in GetFileByPath(j.at, Head(j.left)) :
                 Became(w, IF Len(j.left) = 1 THEN Resolved(j, i)
                           ELSE IF IsFolder(i) THEN [j EXCEPT !.at = i, !.left = Tail(@)]
                           ELSE Resolved(j, None))
      <4>1. PICK i : Became(w, IF Len(j.left) = 1 THEN Resolved(j, i)
                               ELSE IF IsFolder(i) THEN [j EXCEPT !.at = i, !.left = Tail(@)]
                               ELSE Resolved(j, None)) BY <3>3
      <4> QED BY <4>1
    <3> QED BY <1>3, <2>1, <3>1, <3>2, <3>3 DEF getFileByPath, Became
  <2>5. ASSUME NEW hit, Became(w, Resolved(j, hit)) PROVE Elsewhere(w, Busy)
    <3>1. PICK d : d = Resolved(j, hit) OBVIOUS
    <3>2. d.pc \notin Busy BY <2>2, <3>1, ResolvedPc
    <3> QED BY <2>3, <2>5, <3>1, <3>2 DEF Elsewhere, StepsTo
  <2>6. ASSUME NEW i, Became(w, [j EXCEPT !.at = i, !.left = Tail(@)]) PROVE Elsewhere(w, Busy)
    <3>1. PICK d : d = [j EXCEPT !.at = i, !.left = Tail(@)] OBVIOUS
    <3>2. d.pc = j.pc BY <2>2, <3>1 DEF IsJob
    <3> QED BY <2>2, <2>3, <2>6, <3>1, <3>2 DEF Elsewhere, StepsTo
  <2> QED BY <2>4, <2>5, <2>6
<1>4. CASE LockCheck(w)
  <2>1. Changes(w) BY <1>4 DEF LockCheck, Changes
  <2>2. PICK p : p = Front(job[w].dest) OBVIOUS
  <2>3. \/ Became(w, Idle) \/ Became(w, [job[w] EXCEPT !.pc = "trash"])
        \/ Became(w, Resolving(job[w], "dir", p))
    BY <1>4, <2>2 DEF LockCheck, Became, JobsOK
  <2>4. CASE Became(w, Resolving(job[w], "dir", p))
    <3>1. Resolving(job[w], "dir", p).pc \notin Busy BY <1>1, ResolvingFields
    <3> QED BY <2>1, <2>4, <3>1 DEF Elsewhere, StepsTo
  <2> QED BY <1>1, <2>1, <2>3, <2>4, PcElsewhere
<1>5. CASE PutChunks(w)
  <2>1. Changes(w) BY <1>5 DEF PutChunks, Changes
  <2>2. PICK pc : pc = IF job[w].src = None THEN "lookup" ELSE "manifest" OBVIOUS
  <2>3. Became(w, Idle) \/ Became(w, [job[w] EXCEPT !.pc = pc])
    BY <1>5, <2>2 DEF PutChunks, Became, Finish, JobsOK
  <2> QED BY <1>1, <2>1, <2>2, <2>3, PcElsewhere
<1>6. CASE PutManifest(w)
  <2>1. Changes(w) BY <1>6 DEF PutManifest, Changes
  <2>2. Became(w, Idle) \/ Became(w, [job[w] EXCEPT !.pc = "link"])
    BY <1>6 DEF PutManifest, Became, Finish, JobsOK
  <2> QED BY <1>1, <2>1, <2>2, PcElsewhere
<1>7. CASE PutLink(w)
  <2>1. Finish(w) /\ Write(w, file') BY <1>7 DEF PutLink, Write
  <2> QED BY <2>1, FinishElsewhere DEF Changes
<1>8. CASE Answer(w) BY <1>8, FinishElsewhere DEF Answer, Changes
<1>9. CASE Lock(w) BY <1>9, FinishElsewhere DEF Lock, Changes
<1>10. CASE Unlock(w) BY <1>10, FinishElsewhere DEF Unlock, Changes
<1> QED BY <1>2, <1>3, <1>4, <1>5, <1>6, <1>7, <1>8, <1>9, <1>10

(* The walks of the other workers know of the rows that changed.             *)
LEMMA OthersNote ==
  ASSUME TreeTypes, NEW w \in Workers, Changes(w), NEW v \in Workers, v # w
  PROVE  touched[v] \subseteq touched'[v] /\ \A a \in Ids : file[a] # file'[a] => a \in touched'[v]
<1>1. CASE UNCHANGED <<file, touched>> BY <1>1
<1>2. CASE UNCHANGED file /\ touched' = [touched EXCEPT ![w] = {}] BY <1>2 DEF TreeTypes
<1>3. CASE Write(w, file')
  <2>1. touched' = [u \in Workers |-> touched[u] \cup (IF u = w THEN {} ELSE {i \in Ids : file'[i] # file[i]})]
    BY <1>3 DEF Write
  <2>2. touched'[v] = touched[v] \cup {i \in Ids : file'[i] # file[i]} BY <2>1
  <2> QED BY <2>2
<1> QED BY <1>1, <1>2, <1>3 DEF Changes

LEMMA OthersWalk ==
  ASSUME TreeTypes, TreeTypes', JobsOK, WalkIInv, NEW w \in Workers, NEW j, Became(w, j), Changes(w),
         NEW v \in Workers, v # w, job'[v].pc = "walk", job'[v].cut = {}
  PROVE  WalkedIn(file', touched'[v], job'[v].out, job'[v].todo)
<1>1. job'[v] = job[v] BY DEF Became, JobsOK
<1>2. WalkedIn(file, touched[v], job[v].out, job[v].todo) BY <1>1 DEF WalkIInv, Walks
<1>3. Table(file) /\ Table(file') BY DEF TreeTypes, Table
<1>4. PICK f : f = file' OBVIOUS
<1>5. PICK y : y = touched'[v] OBVIOUS
<1>6. touched[v] \subseteq y /\ \A a \in Ids : file[a] # f[a] => a \in y BY <1>4, <1>5, OthersNote
<1>7. Table(f) BY <1>3, <1>4
<1>8. WalkedIn(f, y, job[v].out, job[v].todo) BY <1>2, <1>3, <1>6, <1>7, WalkedStays
<1> QED BY <1>1, <1>4, <1>5, <1>8

(* ListDirectory and the folders of it, as a walk reads them.                *)
LEMMA ListingRead ==
  ASSUME TreeTypes, NEW a
  PROVE  LET ids == ListDirectory(a)
         IN  \E m \in 0 .. Len(ids) : Lists(file, a, ids, m) /\ Folders(ids) = SubSeq(ids, 1, m)
<1> DEFINE ids == ListDirectory(a)
<1>1. /\ ids \in Seq(Listed(a))
      /\ \A k, l \in DOMAIN ids : k < l => ids[k] # ids[l]
      /\ \A i \in Listed(a) : \E k \in DOMAIN ids : ids[k] = i
  BY ListingExact
<1>2. \E m \in 0 .. Len(ids) : FoldersFirst(ids, m) BY ListsFoldersFirst
<1> HIDE DEF ids
<1>3. PICK m \in 0 .. Len(ids) : FoldersFirst(ids, m) BY <1>2
<1>4. Folders(ids) = SubSeq(ids, 1, m) BY <1>1, <1>3, FoldersPrefix
<1>5. Len(ids) \in Nat /\ DOMAIN ids = 1 .. Len(ids) BY <1>1
<1>6. \A i \in Ids : i \in Listed(a) <=> RowIn(file, i) /\ ~file[i].trashed /\ file[i].parent = a
  BY DEF Listed, Live, IsRow, RowIn
<1>7. Listed(a) \subseteq Ids BY DEF Listed
<1>8. ids \in Seq(Ids)
  <2>1. ids \in [1 .. Len(ids) -> Listed(a)] BY <1>1
  <2>2. ids \in [1 .. Len(ids) -> Ids] BY <1>7, <2>1
  <2> QED BY <1>5, <2>2
<1>9. \A k \in 1 .. Len(ids) : /\ RowIn(file, ids[k]) /\ ~file[ids[k]].trashed /\ file[ids[k]].parent = a
                               /\ file[ids[k]].kind = "folder" <=> k <= m
  <2> SUFFICES ASSUME NEW k \in 1 .. Len(ids)
               PROVE  /\ RowIn(file, ids[k]) /\ ~file[ids[k]].trashed /\ file[ids[k]].parent = a
                      /\ file[ids[k]].kind = "folder" <=> k <= m
    OBVIOUS
  <2>1. ids[k] \in Listed(a) /\ ids[k] \in Ids BY <1>1, <1>7
  <2>2. IsFolder(ids[k]) <=> k <= m BY <1>3 DEF FoldersFirst
  <2> QED BY <1>6, <2>1, <2>2 DEF IsFolder
<1>10. ASSUME NEW k \in 1 .. Len(ids), NEW l \in 1 .. Len(ids), ids[k] = ids[l] PROVE k = l
  <2>1. ~(k < l) /\ ~(l < k) BY <1>1, <1>5, <1>10
  <2>2. k \in Nat /\ l \in Nat OBVIOUS
  <2> HIDE DEF ids
  <2> QED BY <2>1, <2>2
<1>11. ASSUME NEW i \in Ids, RowIn(file, i) /\ ~file[i].trashed /\ file[i].parent = a
       PROVE  \E k \in 1 .. Len(ids) : ids[k] = i
  BY <1>1, <1>5, <1>6, <1>11
<1>12. Lists(file, a, ids, m) BY <1>3, <1>8, <1>9, <1>10, <1>11 DEF Lists
<1> QED BY <1>4, <1>12 DEF ids

LEMMA SeenAdds ==
  ASSUME TreeTypes, NEW a, NEW ids, NEW m, Lists(file, a, ids, m), NEW path \in Seq(Names), NEW n \in 0 .. Len(ids),
         NEW s, s \in Seq(Ids), Len(s) = n, \A k \in 1 .. n : s[k] = ids[k]
  PROVE  Adds(file, path, ids, n, [k \in DOMAIN s |-> <<s[k], Append(path, file[s[k]].name)>>])
<1> DEFINE A == [k \in DOMAIN s |-> <<s[k], Append(path, file[s[k]].name)>>]
<1>1. Len(ids) \in Nat /\ n \in Nat /\ DOMAIN s = 1 .. n BY DEF Lists
<1>2. \A k \in 1 .. n : k \in 1 .. Len(ids) BY <1>1
<1>3. ASSUME NEW k \in 1 .. n PROVE A[k] = <<ids[k], Append(path, file[ids[k]].name)>> /\ A[k] \in Entry
  <2>1. A[k] = <<ids[k], Append(path, file[ids[k]].name)>> BY <1>1
  <2>2. RowIn(file, ids[k]) BY <1>2 DEF Lists
  <2>3. Table(file) BY DEF TreeTypes, Table
  <2>4. ids[k] \in Spot /\ file[ids[k]].name \in Names BY <2>2, <2>3, ParentSpot
  <2>5. PICK q : q = Append(path, file[ids[k]].name) OBVIOUS
  <2>6. q \in Seq(Names) BY <2>4, <2>5
  <2>7. <<ids[k], q>> \in Entry BY <2>4, <2>6 DEF Entry
  <2> QED BY <2>1, <2>5, <2>7
<1>4. A \in Seq(Entry) /\ Len(A) = n
  <2>1. DOMAIN A = 1 .. n BY <1>1
  <2>2. A = [k \in 1 .. n |-> A[k]] BY <1>1
  <2> HIDE DEF A
  <2>3. A \in [1 .. n -> Entry] BY <1>3, <2>2
  <2> QED BY <1>1, <2>3
<1> QED BY <1>3, <1>4 DEF Adds

(* A listing that nothing was cut from.                                      *)
LEMMA WholeListing ==
  ASSUME TreeTypes, NEW a, NEW limit \in Nat, Cut(a, limit) = {}
  PROVE  First(ListDirectory(a), limit) = ListDirectory(a)
<1>1. PICK ids : ids = ListDirectory(a) OBVIOUS
<1>2. ids \in Seq(Listed(a)) BY <1>1, ListingExact
<1>3. ~(Len(ids) > limit) BY <1>1 DEF Cut
<1>4. Len(ids) <= limit BY <1>2, <1>3
<1> QED BY <1>1, <1>2, <1>4, FirstOf

LEMMA walkDirWalks ==
  ASSUME TreeTypes, JobsOK, WalkIInv, NEW w \in Workers, walkDir(w)
  PROVE  /\ \E j : Became(w, j) /\ Changes(w) /\ j.pc = "walk"
         /\ job'[w].cut = {} => WalkedIn(file', touched'[w], job'[w].out, job'[w].todo)
<1> DEFINE out == job[w].out
           todo == job[w].todo
           ids == First(ListDirectory(todo[1][1]), WalkLimit)
           sub == Folders(ids)
           A == [k \in DOMAIN ids |-> <<ids[k], Append(todo[1][2], file[ids[k]].name)>>]
           B == [k \in DOMAIN sub |-> <<sub[k], Append(todo[1][2], file[sub[k]].name)>>]
<1>1. IsJob(job[w]) /\ job[w].pc = "walk" /\ todo # <<>> /\ UNCHANGED <<file, touched>>
  BY JobAt DEF walkDir
<1>2. Head(todo) = todo[1] OBVIOUS
<1>3. PICK cut : cut = job[w].cut \cup Cut(todo[1][1], WalkLimit) OBVIOUS
<1>4. job' = [job EXCEPT ![w].out = out \o A, ![w].cut = cut, ![w].todo = B \o Tail(todo)]
  BY <1>2, <1>3 DEF walkDir
<1>5. ASSUME cut = {} PROVE WalkedIn(file, touched[w], out \o A, B \o Tail(todo))
  <2>1. job[w].cut = {} /\ Cut(todo[1][1], WalkLimit) = {} BY <1>3, <1>5
  <2>2. WalkedIn(file, touched[w], out, todo) BY <1>1, <2>1 DEF WalkIInv, Walks
  <2>3. todo \in Seq(Entry) BY <2>2 DEF WalkedIn
  <2>4. todo[1] \in Entry
    <3>1. 1 \in DOMAIN todo BY <1>1, <2>3, TailAt
    <3> HIDE DEF todo
    <3> QED BY <2>3, <3>1
  <2>5. todo[1][2] \in Seq(Names)
    <3> HIDE DEF todo
    <3> QED BY <2>4 DEF Entry
  <2>6. ids = ListDirectory(todo[1][1])
    <3>1. WalkLimit \in Nat BY TreeAssumption
    <3> HIDE DEF todo
    <3> QED BY <2>1, <3>1, WholeListing
  <2>7. PICK m \in 0 .. Len(ids) : Lists(file, todo[1][1], ids, m) /\ sub = SubSeq(ids, 1, m) BY <2>6, ListingRead
  <2> HIDE DEF ids
  <2>8. ids \in Seq(Ids) /\ Len(ids) \in Nat /\ m \in Nat /\ m <= Len(ids) BY <2>7 DEF Lists
  <2>9. sub \in Seq(Ids) /\ Len(sub) = m /\ \A k \in 1 .. m : sub[k] = ids[k]
    <3>1. SubSeq(ids, 1, m) \in Seq(Ids) /\ Len(SubSeq(ids, 1, m)) = m BY <2>8
    <3>2. \A k \in 1 .. m : SubSeq(ids, 1, m)[k] = ids[k] BY <2>8
    <3> HIDE DEF sub
    <3> QED BY <2>7, <3>1, <3>2
  <2> HIDE DEF sub
  <2>10. Adds(file, todo[1][2], ids, Len(ids), A)
    <3>1. Len(ids) \in 0 .. Len(ids) BY <2>8
    <3> QED BY <2>5, <2>7, <2>8, <3>1, SeenAdds
  <2>11. Adds(file, todo[1][2], ids, m, B) BY <2>5, <2>7, <2>9, SeenAdds
  <2>12. Table(file) BY DEF TreeTypes, Table
  <2> HIDE DEF A, B, out, todo
  <2> QED BY <1>1, <2>2, <2>7, <2>10, <2>11, <2>12, WalkReads
<1> HIDE DEF ids, sub, A, B
<1>6. PICK d : d = out \o A OBVIOUS
<1>7. PICK e : e = B \o Tail(todo) OBVIOUS
<1>8. PICK j : j = [job[w] EXCEPT !.out = d, !.cut = cut, !.todo = e] OBVIOUS
<1>9. Became(w, j) BY <1>4, <1>6, <1>7, <1>8 DEF Became, JobsOK
<1>10. j.out = d /\ j.todo = e /\ j.pc = "walk" /\ j.cut = cut BY <1>1, <1>8 DEF IsJob
<1>11. job'[w] = j BY <1>9 DEF Became, JobsOK
<1>12. Changes(w) BY <1>1 DEF Changes
<1>13. touched'[w] = touched[w] /\ file' = file BY <1>1
<1>14. cut = {} => WalkedIn(file, touched[w], d, e) BY <1>5, <1>6, <1>7
<1> QED BY <1>9, <1>10, <1>11, <1>12, <1>13, <1>14

LEMMA ListAllFilesWalks ==
  ASSUME TreeTypes, JobsOK, NEW w \in Workers, ListAllFiles(w)
  PROVE  /\ \E j : Became(w, j) /\ Changes(w) /\ j.pc = "walk"
         /\ job'[w].cut = {} => WalkedIn(file', touched'[w], job'[w].out, job'[w].todo)
<1>1. PICK todo : todo = <<<<Root, <<>>>>>> OBVIOUS
<1>2. PICK j : j = [Idle EXCEPT !.op = "walk", !.pc = "walk", !.todo = todo] OBVIOUS
<1>3. Arrive(w, j) BY <1>1, <1>2 DEF ListAllFiles
<1>4. j.out = <<>> /\ j.todo = todo /\ j.pc = "walk" BY <1>2 DEF Idle
<1>5. Became(w, j) /\ Changes(w) BY <1>3 DEF Arrive, Became, Changes
<1>6. job'[w] = j BY <1>5 DEF Became, JobsOK
<1>7. touched'[w] = {} /\ file' = file BY <1>3 DEF Arrive, TreeTypes
<1>8. WalkedIn(file, {}, <<>>, todo)
  <2>1. Table(file) BY DEF TreeTypes, Table
  <2> QED BY <1>1, <2>1, WalkStarts
<1> QED BY <1>4, <1>5, <1>6, <1>7, <1>8

LEMMA WalksKeep ==
  ASSUME TreeIInv, TreeTypes', WalkIInv, [DavNext]_vars
  PROVE  Walks(file', touched', job')
<1>1. TreeTypes /\ JobsOK BY DEF TreeIInv
<1>2. CASE UNCHANGED <<file, touched, job>> BY <1>2 DEF WalkIInv
<1>3. ASSUME NEW w \in Workers, Elsewhere(w, Busy) \/ CopyStep(w) PROVE Walks(file', touched', job')
  <2>1. PICK j : Became(w, j) /\ Changes(w) /\ j.pc # "walk"
    BY <1>1, <1>3, CopyElsewhere DEF Elsewhere, StepsTo, Busy
  <2>2. job'[w].pc # "walk" BY <1>1, <2>1 DEF Became, JobsOK
  <2> QED BY <1>1, <2>1, <2>2, OthersWalk DEF Walks
<1>4. ASSUME NEW w \in Workers, ListAllFiles(w) \/ walkDir(w) PROVE Walks(file', touched', job')
  <2>1. /\ \E j : Became(w, j) /\ Changes(w)
        /\ job'[w].cut = {} => WalkedIn(file', touched'[w], job'[w].out, job'[w].todo)
    BY <1>1, <1>4, walkDirWalks, ListAllFilesWalks
  <2>2. PICK j : Became(w, j) /\ Changes(w) BY <2>1
  <2> QED BY <1>1, <2>1, <2>2, OthersWalk DEF Walks
<1>5. CASE UNCHANGED vars BY <1>2, <1>5 DEF vars, treeVars
<1>6. CASE Expire \/ cleanupLoop BY <1>2, <1>6 DEF Expire, cleanupLoop, treeVars
<1>7. ASSUME NEW w \in Workers, Rest(w) PROVE Walks(file', touched', job')
  <2>1. Elsewhere(w, Busy) \/ CopyStep(w) \/ ListAllFiles(w) \/ walkDir(w) BY <1>1, <1>7, TreeElsewhere DEF Rest
  <2> QED BY <1>3, <1>4, <2>1
<1>8. ASSUME NEW w \in Workers,
             \/ ServeHTTP(w) \/ getFileByPath(w) \/ LockCheck(w) \/ PutChunks(w) \/ PutManifest(w)
             \/ PutLink(w) \/ Answer(w) \/ Lock(w) \/ Unlock(w)
      PROVE  Walks(file', touched', job')
  BY <1>1, <1>3, <1>8, DavElsewhere
<1> QED BY <1>5, <1>6, <1>7, <1>8 DEF DavNext

(* A walk that is done has listed what stayed put.                           *)
LEMMA WalkDoneExact ==
  ASSUME TreeTypes, NEW w \in Workers, WalkedIn(file, touched[w], job[w].out, job[w].todo), job[w].todo = <<>>,
         NEW i \in Reached(Root), ({i} \cup GetBreadcrumbs(i)) \cap touched[w] = {}
  PROVE  /\ Cardinality({k \in DOMAIN job[w].out : job[w].out[k][1] = i}) = 1
         /\ <<i, GetFolderPath(i)>> \in Range(job[w].out)
<1> DEFINE out == job[w].out
<1>1. Table(file) BY DEF TreeTypes, Table
<1>2. GetBreadcrumbs(i) = Over(file, i) /\ GetFolderPath(i) = PathOf(file, i)
  BY BreadcrumbsIn, FolderPathIn DEF Over, PathOf
<1>3. i \in Ids /\ IsRow(i) /\ Root \in GetBreadcrumbs(i) /\ ~file[i].trashed
  BY DEF Reached, Below, Live
<1>4. Rooted(file, i) BY <1>2, <1>3 DEF Rooted, RowIn, IsRow
<1>5. ReachedIn(file, i)
  <2> SUFFICES ASSUME NEW a \in Over(file, i), a # Root
               PROVE  RowIn(file, a) /\ ~file[a].trashed /\ file[a].kind = "folder"
    BY <1>3, <1>4 DEF ReachedIn
  <2>1. Rooted(file, a) BY <1>1, <1>4, RootedWay DEF WayOK
  <2>2. a \in Ids /\ IsRow(a) BY <2>1 DEF Rooted, RowIn, IsRow
  <2>3. GetBreadcrumbs(a) = Over(file, a) BY BreadcrumbsIn DEF Over
  <2>4. a \in Below(Root) BY <2>1, <2>2, <2>3 DEF Below, Rooted
  <2>5. a \in GetBreadcrumbs(i) BY <1>2
  <2>6. Live(a) /\ IsFolder(a) BY <2>4, <2>5 DEF Reached
  <2> QED BY <2>1, <2>6 DEF Live, IsFolder, Rooted
<1>6. StableIn(file, touched[w], i) BY <1>2, <1>5 DEF StableIn
<1>7. Covered(file, out, <<>>, i) BY <1>3, <1>6 DEF WalkedIn
<1>8. ListedOnce(file, out, <<>>, i)
  <2>1. DOMAIN <<>> = {} OBVIOUS
  <2>2. ~ToList(file, out, <<>>, i) BY <2>1 DEF ToList
  <2> QED BY <1>7, <2>2 DEF Covered
<1> HIDE DEF out
<1>9. PICK k \in DOMAIN out : out[k] = <<i, PathOf(file, i)>> /\ \A l \in DOMAIN out : out[l][1] = i => l = k
  BY <1>8 DEF ListedOnce
<1>10. {l \in DOMAIN out : out[l][1] = i} = {k} BY <1>9
<1>11. Cardinality({k}) = 1 BY FS_Singleton
<1>12. <<i, GetFolderPath(i)>> \in Range(out) BY <1>2, <1>9 DEF Range
<1> QED BY <1>10, <1>11, <1>12 DEF out

LEMMA WalksExactly == TreeIInv /\ WalkIInv => WalkExact
<1> SUFFICES ASSUME TreeIInv, WalkIInv, NEW w \in Workers, WalkDone(job[w]), job[w].cut = {},
                    NEW i \in Reached(Root), ({i} \cup GetBreadcrumbs(i)) \cap touched[w] = {}
             PROVE  /\ Cardinality({k \in DOMAIN job[w].out : job[w].out[k][1] = i}) = 1
                    /\ <<i, GetFolderPath(i)>> \in Range(job[w].out)
  BY DEF WalkExact, Stayed
<1>1. WalkedIn(file, touched[w], job[w].out, job[w].todo) /\ job[w].todo = <<>>
  BY DEF WalkIInv, Walks, WalkDone
<1>2. TreeTypes BY DEF TreeIInv
<1> QED BY <1>1, <1>2, WalkDoneExact

LEMMA WalksInitially == DavInit => WalkIInv
<1> SUFFICES ASSUME DavInit, NEW w \in Workers PROVE job[w].pc # "walk" BY DEF WalkIInv, Walks
<1>1. job[w] = Idle BY DEF DavInit, Init
<1> QED BY <1>1, IdlePc

LEMMA WalksAlways == Spec => [](TreeIInv /\ WalkIInv)
<1>1. DavInit => TreeIInv /\ WalkIInv BY TreeInitially, WalksInitially
<1>2. TreeIInv /\ WalkIInv /\ [DavNext]_vars => (TreeIInv /\ WalkIInv)'
  <2> SUFFICES ASSUME TreeIInv, WalkIInv, [DavNext]_vars PROVE TreeIInv' /\ WalkIInv' OBVIOUS
  <2>1. TreeIInv' BY TreeStepsKeep
  <2>2. TreeTypes' BY <2>1 DEF TreeIInv
  <2>3. Walks(file', touched', job') BY <2>2, WalksKeep
  <2>4. WalkIInv' BY <2>3 DEF WalkIInv, Walks
  <2> QED BY <2>1, <2>4
<1> QED BY <1>1, <1>2, PTL DEF Spec

(* ListAllFiles reads folder by folder while other requests create, move,    *)
(* copy and delete: an entry that stayed put, with the folders above it, is  *)
(* listed exactly once, under its path.                                      *)
THEOREM WalksExact == Spec => []WalkExact
BY WalksAlways, WalksExactly, PTL

-----------------------------------------------------------------------------
(* Copies of folders.  Table t, and x the rows others have changed since the *)
(* copy began: it answers for the other rows.                                *)
EntryIn(t, i, p) == RowIn(t, i) /\ ~t[i].trashed /\ t[i].parent = p
FolderIn(t, i) == t[i].kind = "folder"
Alike(t, a, b) == t[b].name = t[a].name /\ t[b].kind = t[a].kind /\ t[b].link = t[a].link

(* Row b below the copy's root is the copy of o[b], in the copy of the       *)
(* folder of o[b].                                                           *)
OneCopy(t, o, b) ==
  /\ t[b].parent \in DOMAIN o /\ Alike(t, o[b], b)
  /\ EntryIn(t, o[b], o[t[b].parent]) /\ FolderIn(t, o[t[b].parent])

(* The rows made so far are those of DOMAIN o; r, the first, is the copy of  *)
(* s.  No row but these is below one of them.                                *)
CopyOf(t, x, o, r, s) ==
  /\ r \in DOMAIN o /\ o[r] = s /\ s < r /\ FolderIn(t, s)
  /\ \A b \in DOMAIN o :
       /\ b \in Ids \ x /\ o[b] \in Ids \ x /\ r <= b
       /\ RowIn(t, b) /\ ~t[b].trashed /\ t[b].kind = t[o[b]].kind
       /\ t[b].parent \in Ids => t[b].parent < b
       /\ b # r => OneCopy(t, o, b)
  /\ \A i \in Ids \ x : RowIn(t, i) /\ ~t[i].trashed /\ i \notin DOMAIN o =>
       i < r /\ (t[i].parent \in Ids => t[i].parent < r)

CopiedTo(t, o, b, i) == \E c \in DOMAIN o : o[c] = i /\ t[c].parent = b

(* Every entry older than the copy b of its folder has its copy in b.        *)
OldCopied(t, x, o) ==
  \A b \in DOMAIN o, i \in Ids \ x :
    EntryIn(t, i, o[b]) /\ FolderIn(t, o[b]) /\ i <= b => CopiedTo(t, o, b, i)

LEMMA CopyBack ==
  ASSUME NEW t, NEW x, NEW o, NEW r, NEW s, CopyOf(t, x, o, r, s), NEW b \in DOMAIN o,
         NEW i \in Ids \ x, EntryIn(t, i, b)
  PROVE  i \in DOMAIN o /\ i # r /\ OneCopy(t, o, i) /\ b < i
<1>1. b \in Ids /\ r <= b /\ r \in Ids /\ r \in DOMAIN o BY DEF CopyOf
<1>2. b \in Nat /\ r \in Nat BY <1>1 DEF Ids
<1>3. t[i].parent = b /\ RowIn(t, i) /\ ~t[i].trashed BY DEF EntryIn
<1>4. i \in DOMAIN o
  <2>1. SUFFICES ASSUME i \notin DOMAIN o PROVE FALSE OBVIOUS
  <2>2. b < r BY <1>1, <1>3, <2>1 DEF CopyOf
  <2> QED BY <1>1, <1>2, <2>2
<1>5. b < i BY <1>1, <1>3, <1>4 DEF CopyOf
<1>6. i # r BY <1>1, <1>2, <1>5
<1> QED BY <1>4, <1>5, <1>6 DEF CopyOf

(* A way down from a to b: folders, but for its end.                         *)
Way(t, x, f, n, a, b) ==
  /\ f \in [0 .. n -> Ids \ x] /\ f[0] = a /\ f[n] = b
  /\ \A k \in 0 .. n : k < n => FolderIn(t, f[k]) /\ EntryIn(t, f[k + 1], f[k])

LEMMA WayFromSource ==
  ASSUME NEW t, NEW x, NEW o, NEW r, NEW s, CopyOf(t, x, o, r, s), NEW b \in DOMAIN o
  PROVE  \E n \in Nat : \E f : Way(t, x, f, n, s, o[b])
<1> DEFINE T == {c \in DOMAIN o : ~\E n \in Nat : \E f : Way(t, x, f, n, s, o[c])}
<1>1. DOMAIN o \subseteq Nat BY DEF CopyOf, Ids
<1>2. SUFFICES ASSUME T # {} PROVE FALSE OBVIOUS
<1>3. PICK c \in T : \A m \in T : c <= m
  <2>1. T \in SUBSET Nat BY <1>1
  <2> HIDE DEF T
  <2> QED BY <1>2, <2>1, Least
<1>4. c \in DOMAIN o /\ ~\E n \in Nat : \E f : Way(t, x, f, n, s, o[c]) BY <1>3
<1>5. CASE c = r
  <2>1. PICK f : f = [k \in 0 .. 0 |-> s] OBVIOUS
  <2>2. o[c] = s /\ s \in Ids \ x BY <1>5 DEF CopyOf
  <2>3. f \in [0 .. 0 -> Ids \ x] /\ f[0] = s BY <2>1, <2>2
  <2>4. Way(t, x, f, 0, s, o[c]) BY <2>2, <2>3 DEF Way
  <2> QED BY <1>4, <2>4
<1>6. CASE c # r
  <2>1. PICK p : p = t[c].parent OBVIOUS
  <2>2. p \in DOMAIN o /\ EntryIn(t, o[c], o[p]) /\ FolderIn(t, o[p]) BY <1>4, <1>6, <2>1 DEF CopyOf, OneCopy
  <2>3. p < c BY <1>4, <2>1, <2>2 DEF CopyOf
  <2>4. p \notin T
    <3>1. p \in Nat /\ c \in Nat BY <1>1, <1>4, <2>2
    <3> HIDE DEF T
    <3> QED BY <1>3, <2>3, <3>1
  <2>4a. PICK n \in Nat : \E f : Way(t, x, f, n, s, o[p]) BY <2>2, <2>4
  <2>5. PICK f : Way(t, x, f, n, s, o[p]) BY <2>4a
  <2>6. PICK e : e = o[c] OBVIOUS
  <2>7. e \in Ids \ x BY <1>4, <2>6 DEF CopyOf
  <2>8. PICK g : g = [k \in 0 .. n + 1 |-> IF k <= n THEN f[k] ELSE e] OBVIOUS
  <2>9. f \in [0 .. n -> Ids \ x] /\ f[0] = s /\ f[n] = o[p] BY <2>5 DEF Way
  <2>10. \A k \in 0 .. n : g[k] = f[k] BY <2>8
  <2>11. g[n + 1] = e /\ n + 1 \in Nat BY <2>8
  <2>12. g \in [0 .. n + 1 -> Ids \ x] BY <2>7, <2>8, <2>9
  <2>13. g[0] = s BY <2>9, <2>10
  <2>14. ASSUME NEW k \in 0 .. n + 1, k < n + 1 PROVE FolderIn(t, g[k]) /\ EntryIn(t, g[k + 1], g[k])
    <3>1. k \in 0 .. n /\ g[k] = f[k] BY <2>10, <2>14
    <3>2. CASE k = n BY <2>2, <2>6, <2>9, <2>11, <3>1, <3>2
    <3>3. CASE k # n
      <4>1. k < n /\ k + 1 \in 0 .. n BY <3>1, <3>3
      <4> QED BY <2>5, <2>10, <3>1, <4>1 DEF Way
    <3> QED BY <3>2, <3>3
  <2>15. Way(t, x, g, n + 1, s, e) BY <2>11, <2>12, <2>13, <2>14 DEF Way
  <2> QED BY <1>4, <2>6, <2>11, <2>15
<1> QED BY <1>5, <1>6

(* Whatever leads from a row down to its copy leads on to the copy of the    *)
(* next folder: ids would never end.  So no copy is below its original, and  *)
(* a folder is not copied into itself without end.                           *)
LEMMA WayGoesOn ==
  ASSUME NEW t, NEW x, NEW o, NEW r, NEW s, CopyOf(t, x, o, r, s), OldCopied(t, x, o),
         NEW b \in DOMAIN o, NEW n \in Nat, n # 0, NEW f, Way(t, x, f, n, o[b], b)
  PROVE  \E c \in DOMAIN o : \E g : b < c /\ Way(t, x, g, n, o[c], c)
<1>1. f \in [0 .. n -> Ids \ x] /\ f[0] = o[b] /\ f[n] = b BY DEF Way
<1>2. PICK y : y = f[1] OBVIOUS
<1>3. 0 \in 0 .. n /\ 1 \in 0 .. n /\ 0 < n /\ n \in 0 .. n OBVIOUS
<1>4. FolderIn(t, o[b]) /\ EntryIn(t, y, o[b]) /\ y \in Ids \ x
  <2>1. FolderIn(t, f[0]) /\ EntryIn(t, f[0 + 1], f[0]) BY <1>3 DEF Way
  <2> QED BY <1>1, <1>2, <1>3, <2>1
<1>5. b \in Nat /\ r \in Nat /\ y \in Nat /\ r <= b /\ b \in Ids BY <1>4 DEF CopyOf, Ids
<1>6. y <= b
  <2>1. SUFFICES ASSUME b < y PROVE FALSE BY <1>5
  <2> DEFINE G == {k \in 0 .. n : k # 0 => f[k] \in DOMAIN o /\ y <= f[k]}
  <2>2. 0 \in G OBVIOUS
  <2>3. ASSUME NEW k \in 0 .. n, k < n, k \in G PROVE k + 1 \in G
    <3>1. k + 1 \in 0 .. n BY <2>3
    <3>2. CASE k = 0
      <4>1. y \in DOMAIN o
        <5>1. RowIn(t, y) /\ ~t[y].trashed BY <1>4 DEF EntryIn
        <5>2. y \notin DOMAIN o => y < r BY <1>4, <5>1 DEF CopyOf
        <5> QED BY <1>5, <2>1, <5>2
      <4>2. f[k + 1] = y BY <1>2, <3>2
      <4> QED BY <1>5, <3>1, <4>1, <4>2
    <3>3. CASE k # 0
      <4>1. f[k] \in DOMAIN o /\ y <= f[k] BY <2>3, <3>3
      <4>2. EntryIn(t, f[k + 1], f[k]) BY <2>3 DEF Way
      <4>3. f[k + 1] \in Ids \ x BY <1>1, <3>1
      <4>4. f[k + 1] \in DOMAIN o /\ f[k] < f[k + 1] BY <4>1, <4>2, <4>3, CopyBack
      <4>5. f[k] \in Nat /\ f[k + 1] \in Nat BY <1>1, <3>1, <4>3 DEF Ids
      <4>6. y <= f[k + 1] BY <1>5, <4>1, <4>4, <4>5
      <4> QED BY <3>1, <4>4, <4>6
    <3> QED BY <3>2, <3>3
  <2>4. 0 .. n \subseteq G
    <3> HIDE DEF G
    <3> QED BY <2>2, <2>3, Inductive
  <2>5. y <= f[n] BY <1>3, <2>4
  <2> QED BY <1>1, <1>5, <2>1, <2>5
<1>7. PICK c \in DOMAIN o : o[c] = y /\ t[c].parent = b BY <1>4, <1>6 DEF OldCopied, CopiedTo
<1>8. c \in Ids \ x /\ EntryIn(t, c, b) BY <1>7 DEF CopyOf, EntryIn
<1>9. b < c BY <1>5, <1>7, <1>8 DEF CopyOf
<1>10. FolderIn(t, b) BY <1>4 DEF CopyOf, FolderIn
<1>11. PICK g : g = [k \in 0 .. n |-> IF k < n THEN f[k + 1] ELSE c] OBVIOUS
<1>12. \A k \in 0 .. n : k < n => k + 1 \in 0 .. n /\ g[k] = f[k + 1] BY <1>11
<1>13. g[n] = c BY <1>3, <1>11
<1>14. g \in [0 .. n -> Ids \ x] BY <1>1, <1>8, <1>11, <1>12
<1>15. g[0] = y BY <1>2, <1>3, <1>12
<1>16. ASSUME NEW k \in 0 .. n, k < n PROVE FolderIn(t, g[k]) /\ EntryIn(t, g[k + 1], g[k])
  <2>1. k + 1 \in 0 .. n /\ g[k] = f[k + 1] BY <1>12, <1>16
  <2>2. CASE k + 1 = n
    <3>1. g[k] = b /\ g[k + 1] = c BY <1>1, <1>13, <2>1, <2>2
    <3> QED BY <1>8, <1>10, <3>1
  <2>3. CASE k + 1 # n
    <3>1. k + 1 < n BY <2>1, <2>3
    <3>2. g[k + 1] = f[(k + 1) + 1] BY <1>12, <2>1, <3>1
    <3> QED BY <2>1, <3>1, <3>2 DEF Way
  <2> QED BY <2>2, <2>3
<1>17. Way(t, x, g, n, o[c], c) BY <1>7, <1>13, <1>14, <1>15, <1>16 DEF Way
<1> QED BY <1>9, <1>17

LEMMA NeverBelow ==
  ASSUME NEW t, NEW x, NEW o, NEW r, NEW s, CopyOf(t, x, o, r, s), OldCopied(t, x, o), NEW b \in DOMAIN o
  PROVE  ~\E n \in Nat : \E f : n # 0 /\ Way(t, x, f, n, o[b], b)
<1> DEFINE Bad(c) == c \in DOMAIN o /\ \E n \in Nat : \E f : n # 0 /\ Way(t, x, f, n, o[c], c)
           T == {m \in 0 .. MaxIds : Bad(MaxIds - m)}
<1>1. SUFFICES ASSUME Bad(b) PROVE FALSE OBVIOUS
<1>2. MaxIds \in Nat /\ \A c \in DOMAIN o : c \in Nat /\ c <= MaxIds BY TreeAssumption DEF CopyOf, Ids
<1>3. ASSUME NEW c, Bad(c) PROVE MaxIds - c \in T
  <2>1. c \in Nat /\ c <= MaxIds BY <1>2, <1>3
  <2>2. MaxIds - c \in 0 .. MaxIds /\ MaxIds - (MaxIds - c) = c BY <1>2, <2>1
  <2> HIDE DEF Bad
  <2> QED BY <1>3, <2>2
<1>4. PICK m \in T : \A l \in T : m <= l
  <2>1. T \in SUBSET Nat /\ T # {} BY <1>1, <1>3
  <2> HIDE DEF T
  <2> QED BY <2>1, Least
<1>5. PICK c : c = MaxIds - m OBVIOUS
<1>6. Bad(c) /\ m \in 0 .. MaxIds BY <1>4, <1>5
<1>7. PICK n \in Nat : \E f : n # 0 /\ Way(t, x, f, n, o[c], c) BY <1>6
<1>7a. PICK f : n # 0 /\ Way(t, x, f, n, o[c], c) BY <1>7
<1>8. PICK d \in DOMAIN o : \E g : c < d /\ Way(t, x, g, n, o[d], d)
  <2> HIDE DEF Bad
  <2>1. c \in DOMAIN o BY <1>6 DEF Bad
  <2> QED BY <1>7a, <2>1, WayGoesOn
<1>9. MaxIds - d \in T
  <2>1. Bad(d) BY <1>7a, <1>8
  <2> HIDE DEF Bad, T
  <2> QED BY <1>3, <2>1
<1>10. m <= MaxIds - d BY <1>4, <1>9
<1>11. d \in Nat /\ m \in Nat BY <1>2, <1>6
<1> QED BY <1>2, <1>5, <1>8, <1>10, <1>11

(* So the entries of a copied folder are all older than its copy, and all of *)
(* them are copied.                                                          *)
LEMMA AllCopied ==
  ASSUME NEW t, NEW x, NEW o, NEW r, NEW s, CopyOf(t, x, o, r, s), OldCopied(t, x, o),
         NEW b \in DOMAIN o, NEW i \in Ids \ x, EntryIn(t, i, o[b]), FolderIn(t, o[b])
  PROVE  CopiedTo(t, o, b, i)
<1> DEFINE M == {e \in DOMAIN o : \E c \in DOMAIN o : o[c] = e}
<1>1. /\ DOMAIN o \subseteq Nat /\ i \in Nat /\ r \in DOMAIN o /\ o[r] = s /\ s < r /\ s \in Nat
      /\ \A c \in DOMAIN o : r <= c
  BY DEF CopyOf, Ids
<1>2. SUFFICES ASSUME b < i PROVE FALSE BY <1>1 DEF OldCopied
<1>3. RowIn(t, i) /\ ~t[i].trashed /\ t[i].parent = o[b] BY DEF EntryIn
<1>4. i \in DOMAIN o
  <2>1. i \notin DOMAIN o => i < r BY <1>3 DEF CopyOf
  <2> QED BY <1>1, <1>2, <2>1
<1>5. i # r BY <1>1, <1>2
<1>6. o[b] \in M BY <1>3, <1>4, <1>5 DEF CopyOf, OneCopy
<1>7. PICK e \in M : \A m \in M : e <= m
  <2>1. M \in SUBSET Nat /\ M # {} BY <1>1, <1>6
  <2> HIDE DEF M
  <2> QED BY <2>1, Least
<1>8. PICK c \in DOMAIN o : e \in DOMAIN o /\ o[c] = e BY <1>7
<1>9. c # r BY <1>1, <1>8
<1>10. PICK p : p = t[c].parent OBVIOUS
<1>11. p \in DOMAIN o /\ EntryIn(t, e, o[p]) BY <1>8, <1>9, <1>10 DEF CopyOf, OneCopy
<1>12. e = r
  <2>1. SUFFICES ASSUME e # r PROVE FALSE OBVIOUS
  <2>2. t[e].parent \in DOMAIN o BY <1>8, <2>1 DEF CopyOf, OneCopy
  <2>3. t[e].parent = o[p] BY <1>11 DEF EntryIn
  <2>4. o[p] \in M BY <1>11, <2>2, <2>3
  <2>5. o[p] < e BY <1>8, <2>2, <2>3 DEF CopyOf
  <2>6. e \in Nat /\ o[p] \in Nat BY <1>1, <1>8, <2>2, <2>3
  <2> HIDE DEF M
  <2> QED BY <1>7, <2>4, <2>5, <2>6
<1>12a. PICK n \in Nat : \E f : Way(t, x, f, n, s, r) BY <1>8, <1>12, WayFromSource
<1>13. PICK f : Way(t, x, f, n, s, r) BY <1>12a
<1>14. n # 0
  <2>1. f[0] = s /\ f[n] = r BY <1>13 DEF Way
  <2> QED BY <1>1, <2>1
<1> QED BY <1>1, <1>13, <1>14, NeverBelow

-----------------------------------------------------------------------------
(* What is below a folder, level by level, in a table.                       *)
LevelRow(t, top, u, n) ==
  IF n = 0 THEN {<<top, <<>>>>}
  ELSE UNION {{<<i, Append(y[2], t[i].name)>> : i \in {j \in Ids : EntryIn(t, j, y[1])}} :
                y \in {z \in u[n - 1] : n = 1 \/ FolderIn(t, z[1])}}
LevelsTo(t, top, m, u) == u = [n \in 0 .. m |-> LevelRow(t, top, u, n)]
Levels(t, top, u) ==
  u = [n \in 0 .. MaxIds |->
         IF n = 0 THEN {<<top, <<>>>>}
         ELSE UNION {{<<i, Append(y[2], t[i].name)>> : i \in {j \in Ids : EntryIn(t, j, y[1])}} :
                       y \in {z \in u[n - 1] : n = 1 \/ FolderIn(t, z[1])}}]
LevelIn(t, top, n) == (CHOOSE u : Levels(t, top, u))[n]
ContentsIn(t, top) == UNION {LevelIn(t, top, n) : n \in 1 .. MaxIds}

LEMMA ContentsAre ==
  ASSUME NEW top
  PROVE  Contents(top) = ContentsIn(file, top)
BY Zenon DEF Contents, ContentsIn, LevelIn, Levels, EntryIn, RowIn, FolderIn, Live, IsRow, IsFolder

LEMMA LevelsToOne ==
  ASSUME NEW t, NEW top, NEW m \in Nat, NEW u, LevelsTo(t, top, m, u), NEW n \in 0 .. m
  PROVE  u[n] = LevelRow(t, top, u, n)
BY Zenon DEF LevelsTo

LEMMA LevelRowSame ==
  ASSUME NEW t, NEW top, NEW u, NEW v, NEW n, n # 0 => u[n - 1] = v[n - 1]
  PROVE  LevelRow(t, top, u, n) = LevelRow(t, top, v, n)
<1>1. CASE n = 0 BY <1>1 DEF LevelRow
<1>2. CASE n # 0 BY Zenon, <1>2 DEF LevelRow
<1> QED BY <1>1, <1>2

LEMMA LevelsToMore ==
  ASSUME NEW t, NEW top, NEW m \in Nat, NEW u, LevelsTo(t, top, m, u),
         NEW v, v = [n \in 0 .. m + 1 |-> IF n <= m THEN u[n] ELSE LevelRow(t, top, u, n)]
  PROVE  LevelsTo(t, top, m + 1, v)
<1>1. \A n \in 0 .. m : v[n] = u[n] OBVIOUS
<1>2. ASSUME NEW n \in 0 .. m + 1 PROVE v[n] = LevelRow(t, top, v, n)
  <2>1. v[n] = LevelRow(t, top, u, n)
    <3>1. CASE n <= m
      <4>1. n \in 0 .. m BY <3>1
      <4> QED BY <1>1, <4>1, LevelsToOne
    <3>2. CASE ~(n <= m) BY <3>2
    <3> QED BY <3>1, <3>2
  <2>2. n # 0 => n - 1 \in 0 .. m OBVIOUS
  <2>3. n # 0 => u[n - 1] = v[n - 1] BY <1>1, <2>2
  <2> QED BY <2>1, <2>3, LevelRowSame
<1>3. v = [n \in 0 .. m + 1 |-> v[n]] OBVIOUS
<1> QED BY Zenon, <1>2, <1>3 DEF LevelsTo

LEMMA LevelsExist ==
  ASSUME NEW t, NEW top
  PROVE  \E u : Levels(t, top, u)
<1> DEFINE G == {m \in Nat : \E u : LevelsTo(t, top, m, u)}
<1>1. 0 \in G
  <2> DEFINE u == [n \in 0 .. 0 |-> {<<top, <<>>>>}]
  <2>1. ASSUME NEW n \in 0 .. 0 PROVE u[n] = LevelRow(t, top, u, n) BY DEF LevelRow
  <2>2. u = [n \in 0 .. 0 |-> u[n]] OBVIOUS
  <2> HIDE DEF u
  <2>3. LevelsTo(t, top, 0, u) BY Zenon, <2>1, <2>2 DEF LevelsTo
  <2> QED BY <2>3
<1>2. ASSUME NEW m \in 0 .. MaxIds, m < MaxIds, m \in G PROVE m + 1 \in G
  <2>1. PICK u : LevelsTo(t, top, m, u) BY <1>2
  <2>2. PICK v : v = [n \in 0 .. m + 1 |-> IF n <= m THEN u[n] ELSE LevelRow(t, top, u, n)] OBVIOUS
  <2>3. m \in Nat /\ m + 1 \in Nat OBVIOUS
  <2>4. LevelsTo(t, top, m + 1, v) BY <2>1, <2>2, <2>3, LevelsToMore
  <2> QED BY <2>3, <2>4
<1>3. 0 .. MaxIds \subseteq G
  <2> HIDE DEF G
  <2> QED BY <1>1, <1>2, TreeAssumption, Inductive
<1>4. MaxIds \in G BY <1>3, TreeAssumption
<1>5. PICK u : LevelsTo(t, top, MaxIds, u) BY <1>4
<1>6. Levels(t, top, u) BY Zenon, <1>5 DEF LevelsTo, LevelRow, Levels
<1> QED BY <1>6

(* An entry of level n is one of a folder of the level above.                *)
LevelEntry(t, n, z, i, y) ==
  /\ n = 1 \/ FolderIn(t, z[1])
  /\ EntryIn(t, i, z[1]) /\ y = <<i, Append(z[2], t[i].name)>>

LEMMA LevelEquation ==
  ASSUME NEW t, NEW top
  PROVE  /\ LevelIn(t, top, 0) = {<<top, <<>>>>}
         /\ \A n \in 1 .. MaxIds : \A y : y \in LevelIn(t, top, n) <=>
              \E z \in LevelIn(t, top, n - 1), i \in Ids : LevelEntry(t, n, z, i, y)
<1> DEFINE u == CHOOSE u : Levels(t, top, u)
<1>1. Levels(t, top, u) BY LevelsExist
<1>2. u = [k \in 0 .. MaxIds |-> LevelRow(t, top, u, k)] BY Zenon, <1>1 DEF Levels, LevelRow
<1>3. \A k : LevelIn(t, top, k) = u[k] BY DEF LevelIn
<1> HIDE DEF u
<1>4. \A k \in 0 .. MaxIds : u[k] = LevelRow(t, top, u, k) BY Zenon, <1>2
<1>5. 0 \in 0 .. MaxIds /\ \A n \in 1 .. MaxIds : n \in 0 .. MaxIds /\ n # 0 BY TreeAssumption
<1>6. u[0] = {<<top, <<>>>>} BY <1>4, <1>5 DEF LevelRow
<1>7. ASSUME NEW n \in 1 .. MaxIds, NEW y
      PROVE  y \in u[n] <=> \E z \in u[n - 1], i \in Ids : LevelEntry(t, n, z, i, y)
  <2>1. u[n] = UNION {{<<i, Append(z[2], t[i].name)>> : i \in {j \in Ids : EntryIn(t, j, z[1])}} :
                        z \in {z \in u[n - 1] : n = 1 \/ FolderIn(t, z[1])}}
    BY Zenon, <1>4, <1>5 DEF LevelRow
  <2>2. ASSUME y \in u[n] PROVE \E z \in u[n - 1], i \in Ids : LevelEntry(t, n, z, i, y)
    <3>1. PICK z \in {z \in u[n - 1] : n = 1 \/ FolderIn(t, z[1])} :
             y \in {<<i, Append(z[2], t[i].name)>> : i \in {j \in Ids : EntryIn(t, j, z[1])}}
      BY Zenon, <2>1, <2>2
    <3>2. PICK i \in {j \in Ids : EntryIn(t, j, z[1])} : y = <<i, Append(z[2], t[i].name)>> BY Zenon, <3>1
    <3> QED BY Zenon, <3>1, <3>2 DEF LevelEntry
  <2>3. ASSUME NEW z \in u[n - 1], NEW i \in Ids, LevelEntry(t, n, z, i, y) PROVE y \in u[n]
    <3>1. z \in {q \in u[n - 1] : n = 1 \/ FolderIn(t, q[1])} BY Zenon, <2>3 DEF LevelEntry
    <3>2. y \in {<<j, Append(z[2], t[j].name)>> : j \in {j \in Ids : EntryIn(t, j, z[1])}}
      BY Zenon, <2>3 DEF LevelEntry
    <3>3. PICK W : W = {<<j, Append(z[2], t[j].name)>> : j \in {j \in Ids : EntryIn(t, j, z[1])}} OBVIOUS
    <3>4. W \in {{<<j, Append(q[2], t[j].name)>> : j \in {j \in Ids : EntryIn(t, j, q[1])}} :
                  q \in {q \in u[n - 1] : n = 1 \/ FolderIn(t, q[1])}}
      BY Zenon, <3>1, <3>3
    <3>5. y \in W BY <3>2, <3>3
    <3>6. u[n] = UNION {{<<j, Append(q[2], t[j].name)>> : j \in {j \in Ids : EntryIn(t, j, q[1])}} :
                        q \in {q \in u[n - 1] : n = 1 \/ FolderIn(t, q[1])}}
      BY Zenon, <2>1
    <3> QED BY Zenon, <3>4, <3>5, <3>6
  <2> QED BY <2>2, <2>3
<1>8. LevelIn(t, top, 0) = {<<top, <<>>>>} BY <1>3, <1>6
<1>9. ASSUME NEW n \in 1 .. MaxIds, NEW y
      PROVE  y \in LevelIn(t, top, n) <=> \E z \in LevelIn(t, top, n - 1), i \in Ids : LevelEntry(t, n, z, i, y)
  <2>1. LevelIn(t, top, n) = u[n] /\ LevelIn(t, top, n - 1) = u[n - 1] BY <1>3
  <2> QED BY <1>7, <2>1
<1> QED BY <1>8, <1>9

(* Level for level the copy r of s holds the copies of what is below s, if   *)
(* nobody else changed a row below either.                                   *)
Mirrors(t, o, r, s, n) ==
  /\ \A y \in LevelIn(t, s, n) :
       \E b \in DOMAIN o : o[b] = y[1] /\ <<b, y[2]>> \in LevelIn(t, r, n) /\ (n # 0 => b # r)
  /\ \A y \in LevelIn(t, r, n) :
       y[1] \in DOMAIN o /\ <<o[y[1]], y[2]>> \in LevelIn(t, s, n) /\ (n # 0 => y[1] # r)

Untouched(t, x, top) == \A y \in ContentsIn(t, top) : y[1] \notin x

LEMMA MirrorsNext ==
  ASSUME NEW t, NEW x, NEW o, NEW r, NEW s, CopyOf(t, x, o, r, s), OldCopied(t, x, o),
         Untouched(t, x, s), Untouched(t, x, r),
         NEW n \in 0 .. MaxIds, n < MaxIds, Mirrors(t, o, r, s, n)
  PROVE  Mirrors(t, o, r, s, n + 1)
<1>1. n + 1 \in 1 .. MaxIds /\ n + 1 # 0 /\ (n + 1) - 1 = n BY TreeAssumption
<1>2. /\ LevelIn(t, s, 0) = {<<s, <<>>>>}
      /\ \A y : y \in LevelIn(t, s, n + 1) <=>
           \E z \in LevelIn(t, s, n), i \in Ids : LevelEntry(t, n + 1, z, i, y)
  BY Zenon, <1>1, LevelEquation
<1>3. \A y : y \in LevelIn(t, r, n + 1) <=>
        \E z \in LevelIn(t, r, n), i \in Ids : LevelEntry(t, n + 1, z, i, y)
  BY Zenon, <1>1, LevelEquation
<1>4. /\ \A y \in LevelIn(t, s, n + 1) : y[1] \notin x
      /\ \A y \in LevelIn(t, r, n + 1) : y[1] \notin x
  BY Zenon, <1>1 DEF Untouched, ContentsIn
<1>5. ASSUME NEW y \in LevelIn(t, s, n + 1)
      PROVE  \E b \in DOMAIN o : o[b] = y[1] /\ <<b, y[2]>> \in LevelIn(t, r, n + 1) /\ b # r
  <2>1. PICK z \in LevelIn(t, s, n), i \in Ids : LevelEntry(t, n + 1, z, i, y) BY <1>2, <1>5
  <2>2. y = <<i, Append(z[2], t[i].name)>> /\ EntryIn(t, i, z[1]) BY <2>1 DEF LevelEntry
  <2>3. y[1] = i /\ y[2] = Append(z[2], t[i].name) /\ i \in Ids \ x BY <1>4, <2>2
  <2>4. FolderIn(t, z[1])
    <3>1. CASE n = 0
      <4>1. z = <<s, <<>>>> BY <1>2, <3>1
      <4> QED BY <4>1 DEF CopyOf
    <3>2. CASE n # 0
      <4>1. n + 1 # 1 BY <3>2
      <4> QED BY <2>1, <4>1 DEF LevelEntry
    <3> QED BY <3>1, <3>2
  <2>5. PICK b \in DOMAIN o : o[b] = z[1] /\ <<b, z[2]>> \in LevelIn(t, r, n) BY DEF Mirrors
  <2>6. CopiedTo(t, o, b, i) BY <2>2, <2>3, <2>4, <2>5, AllCopied
  <2>7. PICK c \in DOMAIN o : o[c] = i /\ t[c].parent = b BY <2>6 DEF CopiedTo
  <2>8. c \in Ids \ x /\ EntryIn(t, c, b) BY <2>7 DEF CopyOf, EntryIn
  <2>9. c # r /\ OneCopy(t, o, c) BY <2>8, CopyBack
  <2>10. t[c].name = t[i].name BY <2>7, <2>9 DEF OneCopy, Alike
  <2>11. FolderIn(t, b) BY <2>4, <2>5 DEF CopyOf, FolderIn
  <2>12. PICK q : q = <<b, z[2]>> OBVIOUS
  <2>13. q \in LevelIn(t, r, n) /\ q[1] = b /\ q[2] = z[2] BY <2>5, <2>12
  <2>14. PICK v : v = <<c, y[2]>> OBVIOUS
  <2>15. LevelEntry(t, n + 1, q, c, v) BY <2>3, <2>8, <2>10, <2>11, <2>13, <2>14 DEF LevelEntry
  <2>16. v \in LevelIn(t, r, n + 1) BY <1>3, <2>8, <2>13, <2>15
  <2> QED BY <2>3, <2>7, <2>9, <2>14, <2>16
<1>6. ASSUME NEW y \in LevelIn(t, r, n + 1)
      PROVE  y[1] \in DOMAIN o /\ <<o[y[1]], y[2]>> \in LevelIn(t, s, n + 1) /\ y[1] # r
  <2>1. PICK z \in LevelIn(t, r, n), i \in Ids : LevelEntry(t, n + 1, z, i, y) BY <1>3, <1>6
  <2>2. y = <<i, Append(z[2], t[i].name)>> /\ EntryIn(t, i, z[1]) BY <2>1 DEF LevelEntry
  <2>3. y[1] = i /\ y[2] = Append(z[2], t[i].name) /\ i \in Ids \ x BY <1>4, <2>2
  <2>4. PICK b : b = z[1] OBVIOUS
  <2>5. b \in DOMAIN o /\ <<o[b], z[2]>> \in LevelIn(t, s, n) BY <2>4 DEF Mirrors
  <2>6. i \in DOMAIN o /\ i # r /\ OneCopy(t, o, i) BY <2>2, <2>3, <2>4, <2>5, CopyBack
  <2>7. t[i].parent = b BY <2>2, <2>4 DEF EntryIn
  <2>8. PICK e : e = o[i] OBVIOUS
  <2>9. t[i].name = t[e].name /\ EntryIn(t, e, o[b]) /\ FolderIn(t, o[b]) BY <2>6, <2>7, <2>8 DEF OneCopy, Alike
  <2>10. e \in Ids BY <2>6, <2>8 DEF CopyOf
  <2>11. PICK q : q = <<o[b], z[2]>> OBVIOUS
  <2>12. q \in LevelIn(t, s, n) /\ q[1] = o[b] /\ q[2] = z[2] BY <2>5, <2>11
  <2>13. PICK v : v = <<e, y[2]>> OBVIOUS
  <2>14. LevelEntry(t, n + 1, q, e, v) BY <2>3, <2>9, <2>12, <2>13 DEF LevelEntry
  <2>15. v \in LevelIn(t, s, n + 1) BY <1>2, <2>10, <2>12, <2>14
  <2> QED BY <2>3, <2>6, <2>8, <2>13, <2>15
<1> QED BY <1>5, <1>6 DEF Mirrors

LEMMA MirrorsAll ==
  ASSUME NEW t, NEW x, NEW o, NEW r, NEW s, CopyOf(t, x, o, r, s), OldCopied(t, x, o),
         Untouched(t, x, s), Untouched(t, x, r)
  PROVE  \A n \in 0 .. MaxIds : Mirrors(t, o, r, s, n)
<1> DEFINE G == {n \in 0 .. MaxIds : Mirrors(t, o, r, s, n)}
<1>1. 0 \in G
  <2>1. LevelIn(t, s, 0) = {<<s, <<>>>>} /\ LevelIn(t, r, 0) = {<<r, <<>>>>} BY LevelEquation
  <2>2. r \in DOMAIN o /\ o[r] = s BY DEF CopyOf
  <2>3. Mirrors(t, o, r, s, 0) BY <2>1, <2>2 DEF Mirrors
  <2> QED BY <2>3, TreeAssumption
<1>2. ASSUME NEW n \in 0 .. MaxIds, n < MaxIds, n \in G PROVE n + 1 \in G
  <2>1. Mirrors(t, o, r, s, n + 1) BY <1>2, MirrorsNext
  <2> QED BY <1>2, <2>1, TreeAssumption
<1>3. 0 .. MaxIds \subseteq G
  <2> HIDE DEF G
  <2> QED BY <1>1, <1>2, TreeAssumption, Inductive
<1> QED BY <1>3

ShapeIn(t, top) == {<<y[2], t[y[1]].kind, t[y[1]].link>> : y \in ContentsIn(t, top)}

LEMMA SameShape ==
  ASSUME NEW t, NEW x, NEW o, NEW r, NEW s, CopyOf(t, x, o, r, s), OldCopied(t, x, o),
         Untouched(t, x, s), Untouched(t, x, r)
  PROVE  ShapeIn(t, r) = ShapeIn(t, s)
<1>1. \A n \in 1 .. MaxIds : Mirrors(t, o, r, s, n) /\ n # 0 BY MirrorsAll
<1>2. ASSUME NEW b \in DOMAIN o, b # r PROVE t[b].kind = t[o[b]].kind /\ t[b].link = t[o[b]].link
  BY <1>2 DEF CopyOf, OneCopy, Alike
<1>3. ASSUME NEW h \in ShapeIn(t, r) PROVE h \in ShapeIn(t, s)
  <2>0. PICK y \in ContentsIn(t, r) : h = <<y[2], t[y[1]].kind, t[y[1]].link>> BY <1>3 DEF ShapeIn
  <2>1. PICK n \in 1 .. MaxIds : y \in LevelIn(t, r, n) BY <2>0 DEF ContentsIn
  <2>2. PICK b : b = y[1] OBVIOUS
  <2>3. b \in DOMAIN o /\ <<o[b], y[2]>> \in LevelIn(t, s, n) /\ b # r BY <1>1, <2>1, <2>2 DEF Mirrors
  <2>4. PICK q : q = <<o[b], y[2]>> OBVIOUS
  <2>5. q \in ContentsIn(t, s) BY Zenon, <2>3, <2>4 DEF ContentsIn
  <2>6. h = <<q[2], t[q[1]].kind, t[q[1]].link>> BY <1>2, <2>0, <2>2, <2>3, <2>4
  <2> QED BY <2>5, <2>6 DEF ShapeIn
<1>4. ASSUME NEW h \in ShapeIn(t, s) PROVE h \in ShapeIn(t, r)
  <2>0. PICK y \in ContentsIn(t, s) : h = <<y[2], t[y[1]].kind, t[y[1]].link>> BY <1>4 DEF ShapeIn
  <2>1. PICK n \in 1 .. MaxIds : y \in LevelIn(t, s, n) BY <2>0 DEF ContentsIn
  <2>2. PICK b \in DOMAIN o : o[b] = y[1] /\ <<b, y[2]>> \in LevelIn(t, r, n) /\ b # r
    BY <1>1, <2>1 DEF Mirrors
  <2>4. PICK q : q = <<b, y[2]>> OBVIOUS
  <2>5. q \in ContentsIn(t, r) BY Zenon, <2>2, <2>4 DEF ContentsIn
  <2>6. h = <<q[2], t[q[1]].kind, t[q[1]].link>> BY <1>2, <2>0, <2>2, <2>4
  <2> QED BY <2>5, <2>6 DEF ShapeIn
<1> QED BY <1>3, <1>4

-----------------------------------------------------------------------------
(* What a copy has made and has yet to make.                                 *)

(* An older entry is in the copy, or waits for it, or its folder is to be    *)
(* listed next.                                                              *)
Owed(t, x, o, pc, todo, dst) ==
  \A b \in DOMAIN o, i \in Ids \ x :
    EntryIn(t, i, o[b]) /\ FolderIn(t, o[b]) /\ i <= b =>
      \/ CopiedTo(t, o, b, i)
      \/ \E k \in DOMAIN todo : todo[k] = <<i, t[i], b>>
      \/ pc = "copyList" /\ dst = b

(* An item that waits is an entry of the folder its new parent is a copy of. *)
ItemIn(t, x, o, item) ==
  /\ item[3] \in DOMAIN o /\ FolderIn(t, o[item[3]])
  /\ item[1] \in Ids \ x => EntryIn(t, item[1], o[item[3]]) /\ item[2] = t[item[1]]

ToCopy(t, x, o, pc, todo, at, dst) ==
  /\ Owed(t, x, o, pc, todo, dst)
  /\ \A k \in DOMAIN todo : ItemIn(t, x, o, todo[k])
  /\ pc = "copyList" => dst \in DOMAIN o /\ at = o[dst] /\ FolderIn(t, at)
  /\ pc = "copied" => todo = <<>>

Started(t, j) ==
  /\ RowIn(t, j.src) /\ j.src \in j.scope /\ FolderIn(t, j.src)
  /\ j.todo = <<<<j.src, t[j.src], j.dst>>>>

Copied(t, x, j, o) ==
  /\ CopyOf(t, x, o, j.out[1][1], j.src)
  /\ \A b \in DOMAIN o : b \in j.scope /\ o[b] \in j.scope
  /\ ToCopy(t, x, o, j.pc, j.todo, j.at, j.dst)

CopyOK(t, x, j) ==
  j.kind = "folder" /\ j.cut = {} /\ j.scope \cap x = {} =>
    /\ j.pc \in {"copyLookup", "copyRoot"} => Started(t, j)
    /\ j.pc \in {"copyList", "copyItem", "copied"} => \E o : Copied(t, x, j, o)

(* Others change rows, and the copy knows which.                             *)
LEMMA CopyOfStays ==
  ASSUME NEW t, NEW x, NEW u, NEW y, x \subseteq y, \A a \in Ids : t[a] # u[a] => a \in y,
         NEW o, NEW r, NEW s, CopyOf(t, x, o, r, s), \A b \in DOMAIN o : b \notin y /\ o[b] \notin y
  PROVE  CopyOf(u, y, o, r, s)
<1>1. \A b \in DOMAIN o : b \in Ids \ y /\ o[b] \in Ids \ y /\ u[b] = t[b] /\ u[o[b]] = t[o[b]] BY DEF CopyOf
<1>2. \A i \in Ids \ y : u[i] = t[i] /\ i \in Ids \ x OBVIOUS
<1>3. r \in DOMAIN o /\ o[r] = s /\ s < r /\ FolderIn(u, s) BY <1>1 DEF CopyOf, FolderIn
<1>4. ASSUME NEW b \in DOMAIN o
      PROVE  /\ b \in Ids \ y /\ o[b] \in Ids \ y /\ r <= b
             /\ RowIn(u, b) /\ ~u[b].trashed /\ u[b].kind = u[o[b]].kind
             /\ u[b].parent \in Ids => u[b].parent < b
             /\ b # r => OneCopy(u, o, b)
  <2>1. u[b] = t[b] /\ u[o[b]] = t[o[b]] BY <1>1
  <2>2. ASSUME b # r PROVE OneCopy(u, o, b)
    <3>1. PICK p : p = t[b].parent OBVIOUS
    <3>2. OneCopy(t, o, b) BY <2>2 DEF CopyOf
    <3>3. p \in DOMAIN o /\ Alike(t, o[b], b) /\ EntryIn(t, o[b], o[p]) /\ FolderIn(t, o[p])
      BY <3>1, <3>2 DEF OneCopy
    <3>4. u[o[p]] = t[o[p]] /\ u[b].parent = p BY <1>1, <2>1, <3>1, <3>3
    <3>5. EntryIn(u, o[b], o[p]) BY <2>1, <3>3 DEF EntryIn, RowIn
    <3>6. FolderIn(u, o[p]) BY <3>3, <3>4 DEF FolderIn
    <3>7. Alike(u, o[b], b) BY <2>1, <3>3 DEF Alike
    <3> QED BY <3>3, <3>4, <3>5, <3>6, <3>7 DEF OneCopy
  <2>3. RowIn(u, b) /\ ~u[b].trashed /\ u[b].kind = u[o[b]].kind /\ (u[b].parent \in Ids => u[b].parent < b)
    BY <2>1 DEF CopyOf, RowIn
  <2> QED BY <1>1, <2>2, <2>3 DEF CopyOf
<1>5. ASSUME NEW i \in Ids \ y, RowIn(u, i), ~u[i].trashed, i \notin DOMAIN o
      PROVE  i < r /\ (u[i].parent \in Ids => u[i].parent < r)
  <2>1. u[i] = t[i] /\ i \in Ids \ x BY <1>2
  <2>2. RowIn(t, i) /\ ~t[i].trashed BY <1>5, <2>1 DEF RowIn
  <2> QED BY <1>5, <2>1, <2>2 DEF CopyOf
<1> QED BY <1>3, <1>4, <1>5 DEF CopyOf

LEMMA ToCopyStays ==
  ASSUME NEW t, NEW x, NEW u, NEW y, x \subseteq y, \A a \in Ids : t[a] # u[a] => a \in y,
         NEW o, \A b \in DOMAIN o : b \in Ids \ y /\ o[b] \in Ids \ y,
         NEW pc, NEW todo, NEW at, NEW dst, ToCopy(t, x, o, pc, todo, at, dst)
  PROVE  ToCopy(u, y, o, pc, todo, at, dst)
<1>1. \A b \in DOMAIN o : u[b] = t[b] /\ u[o[b]] = t[o[b]] OBVIOUS
<1>2. \A i \in Ids \ y : u[i] = t[i] /\ i \in Ids \ x OBVIOUS
<1>3. Owed(u, y, o, pc, todo, dst)
  <2> SUFFICES ASSUME NEW b \in DOMAIN o, NEW i \in Ids \ y, EntryIn(u, i, o[b]), FolderIn(u, o[b]), i <= b
               PROVE  \/ CopiedTo(u, o, b, i)
                      \/ \E k \in DOMAIN todo : todo[k] = <<i, u[i], b>>
                      \/ pc = "copyList" /\ dst = b
    BY DEF Owed
  <2>1. u[i] = t[i] /\ i \in Ids \ x BY <1>2
  <2>2. EntryIn(t, i, o[b]) /\ FolderIn(t, o[b]) BY <1>1, <2>1 DEF EntryIn, RowIn, FolderIn
  <2>3. CopiedTo(t, o, b, i) => CopiedTo(u, o, b, i) BY <1>1 DEF CopiedTo
  <2> QED BY <2>1, <2>2, <2>3 DEF ToCopy, Owed
<1>4. ASSUME NEW k \in DOMAIN todo PROVE ItemIn(u, y, o, todo[k])
  <2>1. PICK item : item = todo[k] OBVIOUS
  <2>2. ItemIn(t, x, o, item) BY <2>1 DEF ToCopy
  <2>3. item[3] \in DOMAIN o /\ FolderIn(u, o[item[3]]) BY <1>1, <2>2 DEF ItemIn, FolderIn
  <2>4. ASSUME item[1] \in Ids \ y PROVE EntryIn(u, item[1], o[item[3]]) /\ item[2] = u[item[1]]
    <3>1. u[item[1]] = t[item[1]] /\ item[1] \in Ids \ x BY <1>2, <2>4
    <3> QED BY <2>2, <3>1 DEF ItemIn, EntryIn, RowIn
  <2> QED BY <2>1, <2>3, <2>4 DEF ItemIn
<1>5. pc = "copyList" => dst \in DOMAIN o /\ at = o[dst] /\ FolderIn(u, at) BY <1>1 DEF ToCopy, FolderIn
<1> QED BY <1>3, <1>4, <1>5 DEF ToCopy

LEMMA CopyStays ==
  ASSUME NEW t, NEW x, NEW u, NEW y, x \subseteq y, \A a \in Ids : t[a] # u[a] => a \in y,
         NEW j, CopyOK(t, x, j)
  PROVE  CopyOK(u, y, j)
<1> SUFFICES ASSUME j.kind = "folder", j.cut = {}, j.scope \cap y = {}
             PROVE  /\ j.pc \in {"copyLookup", "copyRoot"} => Started(u, j)
                    /\ j.pc \in {"copyList", "copyItem", "copied"} => \E o : Copied(u, y, j, o)
  BY DEF CopyOK
<1>1. j.scope \cap x = {} OBVIOUS
<1>2. ASSUME j.pc \in {"copyLookup", "copyRoot"} PROVE Started(u, j)
  <2>1. Started(t, j) BY <1>1, <1>2 DEF CopyOK
  <2>2. j.src \in Ids /\ j.src \notin y BY <2>1 DEF Started, RowIn
  <2>3. u[j.src] = t[j.src] BY <2>2
  <2> QED BY <2>1, <2>3 DEF Started, RowIn, FolderIn
<1>3. ASSUME j.pc \in {"copyList", "copyItem", "copied"} PROVE \E o : Copied(u, y, j, o)
  <2>1. PICK o : Copied(t, x, j, o) BY <1>1, <1>3 DEF CopyOK
  <2>2. CopyOf(t, x, o, j.out[1][1], j.src) /\ ToCopy(t, x, o, j.pc, j.todo, j.at, j.dst) BY <2>1 DEF Copied
  <2>3. \A b \in DOMAIN o : b \in j.scope /\ o[b] \in j.scope /\ b \notin y /\ o[b] \notin y BY <2>1 DEF Copied
  <2>4. \A b \in DOMAIN o : b \in Ids \ y /\ o[b] \in Ids \ y BY <2>2, <2>3 DEF CopyOf
  <2>5. CopyOf(u, y, o, j.out[1][1], j.src) BY <2>2, <2>3, CopyOfStays
  <2>6. ToCopy(u, y, o, j.pc, j.todo, j.at, j.dst) BY <2>2, <2>4, ToCopyStays
  <2> QED BY <2>3, <2>5, <2>6 DEF Copied
<1> QED BY <1>2, <1>3

(* A step of the copy adds row n, the copy of a in folder b.                 *)
RowAdded(t, u, n, a, b) ==
  /\ n \in Ids /\ \A i \in Ids : RowIn(t, i) => i < n
  /\ \A i \in Ids : i # n => u[i] = t[i]
  /\ RowIn(u, n) /\ ~u[n].trashed /\ u[n].parent = b
  /\ u[n].kind = t[a].kind /\ u[n].link = t[a].link

LEMMA EntryBefore ==
  ASSUME NEW t, NEW u, NEW n, NEW a, NEW b, RowAdded(t, u, n, a, b), NEW i \in Ids, i # n, NEW p
  PROVE  /\ EntryIn(u, i, p) <=> EntryIn(t, i, p)
         /\ FolderIn(u, i) <=> FolderIn(t, i)
         /\ u[i] = t[i]
<1>1. u[i] = t[i] BY DEF RowAdded
<1> QED BY <1>1 DEF EntryIn, RowIn, FolderIn

(* The first row of a copy.                                                  *)
LEMMA RootCopied ==
  ASSUME NEW t, NEW x, NEW u, NEW n, NEW s, NEW dst, RowAdded(t, u, n, s, dst),
         \A i \in Ids : RowIn(t, i) => (t[i].parent \in Ids => t[i].parent < n),
         dst \in Ids => dst < n,
         RowIn(t, s), FolderIn(t, s), n \notin x, s \notin x,
         NEW o, DOMAIN o = {n}, o[n] = s, NEW pc, pc = "copyList"
  PROVE  CopyOf(u, x, o, n, s) /\ ToCopy(u, x, o, pc, <<>>, s, n)
<1>1. n \in Ids /\ s \in Ids /\ s < n BY DEF RowAdded, RowIn
<1>2. n \in Nat /\ s \in Nat /\ s # n BY <1>1 DEF Ids
<1>3. u[s] = t[s] /\ FolderIn(u, s) /\ u[n].kind = u[s].kind BY <1>1, <1>2, EntryBefore DEF RowAdded
<1>4. ASSUME NEW b \in DOMAIN o
      PROVE  /\ b \in Ids \ x /\ o[b] \in Ids \ x /\ n <= b
             /\ RowIn(u, b) /\ ~u[b].trashed /\ u[b].kind = u[o[b]].kind
             /\ u[b].parent \in Ids => u[b].parent < b
             /\ b # n => OneCopy(u, o, b)
  BY <1>1, <1>2, <1>3 DEF RowAdded
<1>5. ASSUME NEW i \in Ids \ x, RowIn(u, i), ~u[i].trashed, i \notin DOMAIN o
      PROVE  i < n /\ (u[i].parent \in Ids => u[i].parent < n)
  <2>1. i # n /\ u[i] = t[i] BY <1>5 DEF RowAdded
  <2>2. RowIn(t, i) BY <1>5, <2>1 DEF RowIn
  <2> QED BY <2>1, <2>2 DEF RowAdded
<1>6. CopyOf(u, x, o, n, s) BY <1>1, <1>3, <1>4, <1>5 DEF CopyOf
<1>7. DOMAIN <<>> = {} OBVIOUS
<1>8. Owed(u, x, o, pc, <<>>, n) BY <1>7 DEF Owed
<1>9. ToCopy(u, x, o, pc, <<>>, s, n) BY <1>3, <1>7, <1>8 DEF ToCopy
<1> QED BY <1>6, <1>9

(* A further row.                                                            *)
LEMMA ItemCopied ==
  ASSUME NEW t, NEW x, NEW u, NEW n, NEW a, NEW b, RowAdded(t, u, n, a, b), u[n].name = t[a].name,
         n \notin x, a \in Ids \ x,
         NEW o, NEW r, NEW s, CopyOf(t, x, o, r, s),
         b \in DOMAIN o, FolderIn(t, o[b]), EntryIn(t, a, o[b]),
         NEW p, DOMAIN p = DOMAIN o \cup {n}, p[n] = a, \A c \in DOMAIN o : p[c] = o[c]
  PROVE  CopyOf(u, x, p, r, s)
<1>1. /\ \A c \in DOMAIN o : c \in Ids /\ c < n /\ c # n /\ r <= c
      /\ n \in Ids /\ r \in DOMAIN o
  <2>1. \A c \in DOMAIN o : c \in Ids /\ RowIn(t, c) /\ r <= c BY DEF CopyOf
  <2>2. n \in Ids /\ \A c \in DOMAIN o : c < n BY <2>1 DEF RowAdded
  <2>3. \A c \in DOMAIN o : c # n BY <2>1, <2>2 DEF Ids
  <2> QED BY <2>1, <2>2, <2>3 DEF CopyOf
<1>2. ASSUME NEW c \in DOMAIN o PROVE o[c] \in Ids /\ o[c] # n /\ u[o[c]] = t[o[c]] /\ u[c] = t[c]
  <2>1. o[c] < n
    <3>1. CASE c = r
      <4>1. o[c] \in Ids /\ r \in Ids /\ o[c] < r /\ r < n BY <1>1, <3>1 DEF CopyOf
      <4> QED BY <1>1, <4>1 DEF Ids
    <3>2. CASE c # r
      <4>1. RowIn(t, o[c]) BY <3>2 DEF CopyOf, OneCopy, EntryIn
      <4> QED BY <4>1 DEF RowAdded, RowIn
    <3> QED BY <3>1, <3>2
  <2>2. o[c] \in Ids /\ o[c] # n BY <1>1, <2>1 DEF CopyOf, Ids
  <2> QED BY <1>1, <2>2 DEF RowAdded
<1>3. a # n /\ u[a] = t[a]
  <2>1. a < n /\ a \in Ids BY DEF EntryIn, RowAdded
  <2>2. a # n BY <1>1, <2>1 DEF Ids
  <2> QED BY <2>1, <2>2 DEF RowAdded
<1>4. r \in DOMAIN p /\ p[r] = s /\ s < r /\ FolderIn(u, s)
  <2>1. o[r] = s /\ s < r /\ FolderIn(t, s) BY DEF CopyOf
  <2>2. u[s] = t[s] BY <1>1, <1>2, <2>1
  <2> QED BY <1>1, <2>1, <2>2 DEF FolderIn
<1>5. ASSUME NEW c \in DOMAIN o
      PROVE  /\ c \in Ids \ x /\ p[c] \in Ids \ x /\ r <= c
             /\ RowIn(u, c) /\ ~u[c].trashed /\ u[c].kind = u[p[c]].kind
             /\ u[c].parent \in Ids => u[c].parent < c
             /\ c # r => OneCopy(u, p, c)
  <2>1. u[c] = t[c] /\ p[c] = o[c] /\ u[o[c]] = t[o[c]] BY <1>2
  <2>2. /\ c \in Ids \ x /\ o[c] \in Ids \ x /\ r <= c
        /\ RowIn(t, c) /\ ~t[c].trashed /\ t[c].kind = t[o[c]].kind
        /\ t[c].parent \in Ids => t[c].parent < c
        /\ c # r => OneCopy(t, o, c)
    BY DEF CopyOf
  <2>3. ASSUME c # r PROVE OneCopy(u, p, c)
    <3>1. PICK q : q = t[c].parent OBVIOUS
    <3>2. q \in DOMAIN o /\ Alike(t, o[c], c) /\ EntryIn(t, o[c], o[q]) /\ FolderIn(t, o[q])
      BY <2>2, <2>3, <3>1 DEF OneCopy
    <3>3. p[q] = o[q] /\ u[o[q]] = t[o[q]] /\ u[c].parent = q BY <1>2, <2>1, <3>1, <3>2
    <3>4. EntryIn(u, p[c], p[q]) /\ FolderIn(u, p[q]) BY <2>1, <3>2, <3>3 DEF EntryIn, RowIn, FolderIn
    <3>5. Alike(u, p[c], c) BY <2>1, <3>2 DEF Alike
    <3> QED BY <3>2, <3>3, <3>4, <3>5 DEF OneCopy
  <2>4. RowIn(u, c) BY <2>1, <2>2 DEF RowIn
  <2> QED BY <2>1, <2>2, <2>3, <2>4
<1>6. /\ n \in Ids \ x /\ p[n] \in Ids \ x /\ r <= n
      /\ RowIn(u, n) /\ ~u[n].trashed /\ u[n].kind = u[p[n]].kind
      /\ u[n].parent \in Ids => u[n].parent < n
      /\ OneCopy(u, p, n)
  <2>1. RowIn(u, n) /\ ~u[n].trashed /\ u[n].parent = b /\ u[n].kind = u[a].kind /\ u[n].link = u[a].link
    BY <1>3 DEF RowAdded
  <2>2. b < n /\ r <= n
    <3>1. r < n /\ b < n /\ r \in Ids BY <1>1
    <3> QED BY <1>1, <3>1 DEF Ids
  <2>3. Alike(u, a, n) BY <1>3, <2>1 DEF Alike
  <2>4. EntryIn(u, a, p[b]) BY <1>3 DEF EntryIn, RowIn
  <2>5. FolderIn(u, p[b]) BY <1>2 DEF FolderIn
  <2>6. OneCopy(u, p, n) BY <2>1, <2>3, <2>4, <2>5 DEF OneCopy
  <2> QED BY <1>1, <2>1, <2>2, <2>6
<1>7. ASSUME NEW i \in Ids \ x, RowIn(u, i), ~u[i].trashed, i \notin DOMAIN p
      PROVE  i < r /\ (u[i].parent \in Ids => u[i].parent < r)
  <2>1. i # n /\ i \notin DOMAIN o BY <1>7
  <2>2. u[i] = t[i] BY <2>1 DEF RowAdded
  <2>3. RowIn(t, i) BY <1>7, <2>2 DEF RowIn
  <2> QED BY <1>7, <2>1, <2>2, <2>3 DEF CopyOf
<1>8. \A c \in DOMAIN p : c \in DOMAIN o \/ c = n OBVIOUS
<1> QED BY <1>4, <1>5, <1>6, <1>7, <1>8 DEF CopyOf

(* The item is no longer to be copied, and its own folder is listed next.    *)
Extends(o, p, n, a) == DOMAIN p = DOMAIN o \cup {n} /\ p[n] = a /\ \A c \in DOMAIN o : p[c] = o[c]
GoesOn(item, rest, n, pc, at, dst) ==
  /\ item[2].kind = "folder" => pc = "copyList" /\ at = item[1] /\ dst = n
  /\ item[2].kind # "folder" => pc = IF rest = <<>> THEN "copied" ELSE "copyItem"

LEMMA ItemDone ==
  ASSUME NEW t, NEW x, NEW u, NEW n, NEW todo, TodoOK(todo), todo # <<>>,
         NEW item, item = Head(todo), NEW rest, rest = Tail(todo), RowAdded(t, u, n, item[1], item[3]),
         n \notin x, item[1] \in Ids \ x,
         NEW o, NEW r, NEW s, CopyOf(t, x, o, r, s),
         NEW at, NEW dst, ToCopy(t, x, o, "copyItem", todo, at, dst),
         NEW p, Extends(o, p, n, item[1]),
         NEW pc, NEW at2, NEW dst2, GoesOn(item, rest, n, pc, at2, dst2)
  PROVE  ToCopy(u, x, p, pc, rest, at2, dst2)
<1> USE DEF Extends, GoesOn
<1>1. /\ todo \in Seq(Item) /\ rest \in Seq(Item) /\ 1 \in DOMAIN todo /\ item = todo[1]
      /\ \A l \in DOMAIN rest : l + 1 \in DOMAIN todo /\ rest[l] = todo[l + 1]
      /\ \A k \in DOMAIN todo : k # 1 => k - 1 \in DOMAIN rest /\ rest[k - 1] = todo[k]
  BY TailAt DEF TodoOK
<1>2. ItemIn(t, x, o, item) BY <1>1 DEF ToCopy
<1>3. item[3] \in DOMAIN o /\ item[2] = t[item[1]] BY <1>2 DEF ItemIn
<1>4. \A i \in Ids : i # n => u[i] = t[i] BY DEF RowAdded
<1>5. n \in Ids /\ \A c \in DOMAIN o : c \in Ids /\ c < n /\ c # n /\ u[c] = t[c]
  <2>1. \A c \in DOMAIN o : c \in Ids /\ RowIn(t, c) BY DEF CopyOf
  <2>2. n \in Ids /\ \A c \in DOMAIN o : c < n BY <2>1 DEF RowAdded
  <2>3. \A c \in DOMAIN o : c # n BY <2>1, <2>2 DEF Ids
  <2> QED BY <1>4, <2>1, <2>2, <2>3
<1>6. ASSUME NEW c \in DOMAIN o, FolderIn(u, o[c]) \/ FolderIn(t, o[c])
      PROVE  o[c] \in Ids /\ o[c] # n /\ u[o[c]] = t[o[c]]
  <2>1. o[c] < n
    <3>1. CASE c = r
      <4>1. o[c] \in Ids /\ r \in Ids /\ o[c] < r /\ r < n BY <1>5, <3>1 DEF CopyOf
      <4> QED BY <1>5, <4>1 DEF Ids
    <3>2. CASE c # r
      <4>1. RowIn(t, o[c]) BY <3>2 DEF CopyOf, OneCopy, EntryIn
      <4> QED BY <4>1 DEF RowAdded, RowIn
    <3> QED BY <3>1, <3>2
  <2>2. o[c] \in Ids /\ o[c] # n BY <1>5, <2>1 DEF CopyOf, Ids
  <2> QED BY <1>4, <2>2
<1>7. item[1] # n /\ u[item[1]] = t[item[1]]
  <2>1. RowIn(t, item[1]) BY <1>2 DEF ItemIn, EntryIn
  <2>2. item[1] < n BY <2>1 DEF RowAdded, RowIn
  <2>3. item[1] # n BY <1>5, <2>2 DEF Ids
  <2> QED BY <1>4, <2>3
<1>8. Owed(u, x, p, pc, rest, dst2)
  <2> SUFFICES ASSUME NEW b \in DOMAIN p, NEW i \in Ids \ x, EntryIn(u, i, p[b]), FolderIn(u, p[b]), i <= b
               PROVE  \/ CopiedTo(u, p, b, i)
                      \/ \E k \in DOMAIN rest : rest[k] = <<i, u[i], b>>
                      \/ pc = "copyList" /\ dst2 = b
    BY DEF Owed
  <2>1. CASE b = n
    <3>1. FolderIn(t, item[1]) BY <1>7, <2>1 DEF FolderIn
    <3>2. pc = "copyList" /\ dst2 = n BY <1>3, <3>1 DEF FolderIn
    <3> QED BY <2>1, <3>2
  <2>2. CASE b # n
    <3>1. b \in DOMAIN o /\ p[b] = o[b] BY <2>2
    <3>2. i # n
      <4>1. b < n /\ b \in Ids /\ i \in Ids BY <1>5, <3>1
      <4> QED BY <1>5, <4>1 DEF Ids
    <3>3. u[i] = t[i] /\ EntryIn(t, i, o[b]) BY <1>4, <3>1, <3>2 DEF EntryIn, RowIn
    <3>4. FolderIn(t, o[b]) BY <1>6, <3>1 DEF FolderIn
    <3>5. CopiedTo(t, o, b, i) \/ (\E k \in DOMAIN todo : todo[k] = <<i, t[i], b>>)
      BY <3>1, <3>3, <3>4 DEF ToCopy, Owed
    <3>6. CASE CopiedTo(t, o, b, i)
      <4>1. PICK c \in DOMAIN o : o[c] = i /\ t[c].parent = b BY <3>6 DEF CopiedTo
      <4>2. c \in DOMAIN p /\ p[c] = i /\ u[c].parent = b BY <1>5, <4>1
      <4> QED BY <4>2 DEF CopiedTo
    <3>7. CASE \E k \in DOMAIN todo : todo[k] = <<i, t[i], b>>
      <4>1. PICK k \in DOMAIN todo : todo[k] = <<i, t[i], b>> BY <3>7
      <4>2. CASE k = 1
        <5>1. item[1] = i /\ item[3] = b BY <1>1, <4>1, <4>2
        <5>2. n \in DOMAIN p /\ p[n] = i /\ u[n].parent = b BY <5>1 DEF RowAdded
        <5> QED BY <5>2 DEF CopiedTo
      <4>3. CASE k # 1
        <5>1. k - 1 \in DOMAIN rest /\ rest[k - 1] = <<i, u[i], b>> BY <1>1, <3>3, <4>1, <4>3
        <5> QED BY <5>1
      <4> QED BY <4>2, <4>3
    <3> QED BY <3>5, <3>6, <3>7
  <2> QED BY <2>1, <2>2
<1>9. ASSUME NEW k \in DOMAIN rest PROVE ItemIn(u, x, p, rest[k])
  <2>1. PICK e : e = rest[k] OBVIOUS
  <2>2. ItemIn(t, x, o, e) BY <1>1, <2>1 DEF ToCopy
  <2>3. e[3] \in DOMAIN o /\ FolderIn(t, o[e[3]]) /\ e[3] \in DOMAIN p /\ p[e[3]] = o[e[3]] BY <2>2 DEF ItemIn
  <2>4. FolderIn(u, p[e[3]]) BY <1>6, <2>3 DEF FolderIn
  <2>5. ASSUME e[1] \in Ids \ x PROVE EntryIn(u, e[1], p[e[3]]) /\ e[2] = u[e[1]]
    <3>1. EntryIn(t, e[1], o[e[3]]) /\ e[2] = t[e[1]] BY <2>2, <2>5 DEF ItemIn
    <3>2. e[1] \in Ids /\ e[1] < n BY <3>1 DEF EntryIn, RowAdded, RowIn
    <3>3. e[1] # n BY <1>5, <3>2 DEF Ids
    <3>4. u[e[1]] = t[e[1]] BY <1>4, <3>2, <3>3
    <3> QED BY <2>3, <3>1, <3>4 DEF EntryIn, RowIn
  <2> QED BY <2>1, <2>3, <2>4, <2>5 DEF ItemIn
<1>10. ASSUME pc = "copyList" PROVE dst2 \in DOMAIN p /\ at2 = p[dst2] /\ FolderIn(u, at2)
  <2>1. item[2].kind = "folder" BY <1>10
  <2>2. FolderIn(u, item[1]) BY <1>3, <1>7, <2>1 DEF FolderIn
  <2> QED BY <2>1, <2>2
<1>11. pc = "copied" => rest = <<>> OBVIOUS
<1> QED BY <1>8, <1>9, <1>10, <1>11 DEF ToCopy

(* The folder is listed: its entries are to be copied before all others.     *)
LEMMA FolderListed ==
  ASSUME NEW t, NEW x, NEW o, NEW r, NEW s, CopyOf(t, x, o, r, s),
         NEW todo, NEW at, NEW dst, ToCopy(t, x, o, "copyList", todo, at, dst),
         NEW items, \A k \in DOMAIN items : EntryIn(t, items[k], at),
         \A i \in Ids : EntryIn(t, i, at) => \E k \in DOMAIN items : items[k] = i,
         NEW new, DOMAIN new = DOMAIN items, \A k \in DOMAIN items : new[k] = <<items[k], t[items[k]], dst>>,
         NEW all, Joins(new, todo, all),
         NEW pc, pc = IF all = <<>> THEN "copied" ELSE "copyItem"
  PROVE  ToCopy(t, x, o, pc, all, at, dst)
<1>1. dst \in DOMAIN o /\ at = o[dst] /\ FolderIn(t, at) BY DEF ToCopy
<1>2. \A k \in DOMAIN todo : \E l \in DOMAIN all : all[l] = todo[k] BY DEF Joins
<1>3. \A k \in DOMAIN new : \E l \in DOMAIN all : all[l] = new[k] BY DEF Joins
<1>4. Owed(t, x, o, pc, all, dst)
  <2> SUFFICES ASSUME NEW b \in DOMAIN o, NEW i \in Ids \ x, EntryIn(t, i, o[b]), FolderIn(t, o[b]), i <= b
               PROVE  CopiedTo(t, o, b, i) \/ \E l \in DOMAIN all : all[l] = <<i, t[i], b>>
    BY DEF Owed
  <2>1. CopiedTo(t, o, b, i) \/ (\E k \in DOMAIN todo : todo[k] = <<i, t[i], b>>) \/ dst = b
    BY DEF ToCopy, Owed
  <2>2. CASE \E k \in DOMAIN todo : todo[k] = <<i, t[i], b>> BY <1>2, <2>2
  <2>3. CASE dst = b
    <3>1. PICK k \in DOMAIN items : items[k] = i BY <1>1, <2>3
    <3>2. k \in DOMAIN new /\ new[k] = <<i, t[i], b>> BY <2>3, <3>1
    <3> QED BY <1>3, <3>2
  <2> QED BY <2>1, <2>2, <2>3
<1>5. ASSUME NEW l \in DOMAIN all PROVE ItemIn(t, x, o, all[l])
  <2>1. (\E k \in DOMAIN new : all[l] = new[k]) \/ (\E k \in DOMAIN todo : all[l] = todo[k]) BY DEF Joins
  <2>2. CASE \E k \in DOMAIN todo : all[l] = todo[k] BY <2>2 DEF ToCopy
  <2>3. CASE \E k \in DOMAIN new : all[l] = new[k]
    <3>1. PICK k \in DOMAIN items : all[l] = <<items[k], t[items[k]], dst>> BY <2>3
    <3>2. EntryIn(t, items[k], at) OBVIOUS
    <3>3. PICK e : e = all[l] OBVIOUS
    <3>4. e[1] = items[k] /\ e[2] = t[items[k]] /\ e[3] = dst BY <3>1, <3>3
    <3>5. ItemIn(t, x, o, e) BY <1>1, <3>2, <3>4 DEF ItemIn
    <3> QED BY <3>3, <3>5
  <2> QED BY <2>1, <2>2, <2>3
<1> QED BY <1>4, <1>5 DEF ToCopy

-----------------------------------------------------------------------------
(* The steps of a copy.                                                      *)

LEMMA AfterCopyFields ==
  ASSUME NEW j, IsJob(j), NEW item, NEW rest, NEW d, d = AfterCopy(j, item, rest)
  PROVE  /\ d.src = j.src /\ d.kind = j.kind /\ d.out = j.out /\ d.todo = rest /\ d.cut = j.cut
         /\ d.scope = j.scope \cup {item[1], next}
         /\ item[2].kind = "folder" => d.pc = "copyList" /\ d.at = item[1] /\ d.dst = next
         /\ item[2].kind # "folder" => d.pc = IF rest = <<>> THEN "copied" ELSE "copyItem"
<1> DEFINE k == [j EXCEPT !.todo = rest, !.scope = @ \cup {item[1], next}]
<1>1. /\ IsJob(k) /\ k.todo = rest /\ k.kind = j.kind /\ k.src = j.src /\ k.out = j.out /\ k.cut = j.cut
      /\ k.scope = j.scope \cup {item[1], next}
  BY DEF IsJob
<1>2. d = IF item[2].kind = "folder"
          THEN [k EXCEPT !.at = item[1], !.dst = next, !.pc = "copyList"]
          ELSE [k EXCEPT !.pc = IF rest = <<>> THEN "copied" ELSE "copyItem"]
  BY DEF AfterCopy
<1> HIDE DEF k
<1>3. CASE item[2].kind = "folder"
  <2>1. d = [k EXCEPT !.at = item[1], !.dst = next, !.pc = "copyList"] BY <1>2, <1>3
  <2> QED BY <1>1, <1>3, <2>1 DEF IsJob
<1>4. CASE item[2].kind # "folder"
  <2>1. PICK pc : pc = IF rest = <<>> THEN "copied" ELSE "copyItem" OBVIOUS
  <2>2. d = [k EXCEPT !.pc = pc] BY <1>2, <1>4, <2>1
  <2> QED BY <1>1, <1>4, <2>1, <2>2 DEF IsJob
<1> QED BY <1>3, <1>4

(* INSERT of a row of a copy: an error, or the row is there.                 *)
LEMMA CopyCreates ==
  ASSUME TreeTypes, RowsOK, JobsOK, NEW w \in Workers, NEW row \in Row, NEW d, CreateFile(w, row, d, Idle)
  PROVE  /\ Changes(w)
         /\ \/ Became(w, Idle)
            \/ /\ Became(w, d) /\ next \in Ids /\ touched'[w] = touched[w]
               /\ \A i \in Ids : RowIn(file, i) => i < next
               /\ \A i \in Ids : i # next => file'[i] = file[i]
               /\ file'[next] = row /\ RowIn(file', next)
<1>1. \A i \in Ids : RowIn(file, i) => i < next BY DEF RowsOK, RowIn, IsRow
<1>2. \/ next \in Ids /\ Write(w, [file EXCEPT ![next] = row]) /\ Became(w, d)
      \/ Became(w, Idle) /\ UNCHANGED <<file, next, touched>>
  BY DEF CreateFile, Became
<1>3. CASE next \in Ids /\ Write(w, [file EXCEPT ![next] = row]) /\ Became(w, d)
  <2>1. PICK f : f = [file EXCEPT ![next] = row] OBVIOUS
  <2>2. /\ file' = f
        /\ touched' = [v \in Workers |-> touched[v] \cup (IF v = w THEN {} ELSE {i \in Ids : f[i] # file[i]})]
    BY <1>3, <2>1 DEF Write
  <2>3. touched'[w] = touched[w] BY <2>2
  <2>4. Changes(w)
    <3>1. Write(w, f) BY <1>3, <2>1
    <3>2. Write(w, file') BY <2>2, <3>1
    <3> QED BY <3>2 DEF Changes
  <2>5. file'[next] = row /\ \A i \in Ids : i # next => file'[i] = file[i] BY <1>3, <2>1, <2>2 DEF TreeTypes
  <2>6. row # None BY RowAssumption
  <2> QED BY <1>1, <1>3, <2>3, <2>4, <2>5, <2>6 DEF RowIn
<1>4. CASE Became(w, Idle) /\ UNCHANGED <<file, next, touched>> BY <1>4 DEF Changes
<1> QED BY <1>2, <1>3, <1>4

(* Where the request of worker w goes on, its copy is in order.              *)
Goes(w) == \E j : Became(w, j) /\ Changes(w) /\ CopyOK(file', touched'[w], j)

LEMMA NoCopy ==
  ASSUME NEW t, NEW x, NEW j, j.pc \notin Copying
  PROVE  CopyOK(t, x, j)
BY DEF CopyOK, Copying

LEMMA IdleGoes ==
  ASSUME NEW w \in Workers, Became(w, Idle), Changes(w)
  PROVE  Goes(w)
<1>1. PICK j : j = Idle OBVIOUS
<1>2. CopyOK(file', touched'[w], j) BY <1>1, IdlePc, NoCopy DEF Busy
<1> QED BY <1>1, <1>2 DEF Goes

LEMMA CopySourceCopies ==
  ASSUME TreeIInv, NEW w \in Workers, CopySource(w)
  PROVE  Goes(w)
<1>1. IsJob(job[w]) BY JobAt DEF TreeIInv
<1>2. Changes(w) BY DEF CopySource, Changes
<1>3. PICK s : s = job[w].src OBVIOUS
<1>4. PICK todo : todo = <<<<s, file[s], job[w].dst>>>> OBVIOUS
<1>5. PICK j : j = [job[w] EXCEPT !.todo = todo, !.pc = "copyLookup",
                                  !.kind = file[s].kind, !.scope = {s} \cup Below(s)] OBVIOUS
<1>6. Became(w, Idle) \/ (IsRow(s) /\ Became(w, j))
  BY <1>3, <1>4, <1>5 DEF CopySource, Became, TreeIInv, JobsOK
<1>7. ASSUME IsRow(s) PROVE CopyOK(file', touched'[w], j)
  <2>1. /\ j.todo = todo /\ j.pc = "copyLookup" /\ j.kind = file[s].kind /\ s \in j.scope
        /\ j.src = s /\ j.dst = job[w].dst
    BY <1>1, <1>3, <1>5 DEF IsJob
  <2>2. j.kind = "folder" => Started(file, j) BY <1>4, <1>7, <2>1 DEF Started, RowIn, IsRow, FolderIn
  <2>3. file' = file BY DEF CopySource
  <2> QED BY <2>1, <2>2, <2>3 DEF CopyOK
<1> QED BY <1>2, <1>6, <1>7, IdleGoes DEF Goes

LEMMA CopyLookupCopies ==
  ASSUME TreeIInv, NEW w \in Workers, CopyOK(file, touched[w], job[w]), CopyLookup(w)
  PROVE  Goes(w)
<1>1. IsJob(job[w]) BY JobAt DEF TreeIInv
<1>2. Changes(w) /\ file' = file /\ touched' = touched /\ job[w].pc = "copyLookup" BY DEF CopyLookup, Changes
<1>3. PICK j : j = [job[w] EXCEPT !.pc = "copyRoot"] OBVIOUS
<1>4. Became(w, Idle) \/ Became(w, j) BY <1>3 DEF CopyLookup, Became, TreeIInv, JobsOK
<1>5. /\ j.pc = "copyRoot" /\ j.kind = job[w].kind /\ j.scope = job[w].scope /\ j.todo = job[w].todo
      /\ j.cut = job[w].cut /\ j.src = job[w].src /\ j.dst = job[w].dst
  BY <1>1, <1>3 DEF IsJob
<1>6. CopyOK(file, touched[w], j) BY <1>2, <1>5 DEF CopyOK, Started
<1> QED BY <1>2, <1>4, <1>6, IdleGoes DEF Goes

LEMMA CopyRootCopies ==
  ASSUME TreeIInv, NEW w \in Workers, CopyOK(file, touched[w], job[w]), CopyRoot(w)
  PROVE  Goes(w)
<1>1. IsJob(job[w]) /\ JobOK(job[w]) /\ TreeTypes /\ RowsOK /\ JobsOK BY JobAt DEF TreeIInv
<1>2. /\ TodoOK(job[w].todo) /\ job[w].todo # <<>> /\ job[w].dst \in Places /\ job[w].name \in Names
      /\ Given(job[w].dst) /\ job[w].pc = "copyRoot"
  BY <1>1 DEF JobOK, CopyRoot
<1>3. PICK item : item = Head(job[w].todo) OBVIOUS
<1>4. item \in Item BY <1>2, <1>3, TodoParts
<1>5. item[2] \in Row BY <1>4 DEF Item
<1>6. PICK row : row = [item[2] EXCEPT !.parent = job[w].dst, !.name = job[w].name, !.trashed = FALSE] OBVIOUS
<1>7. /\ row \in Row /\ row.parent = job[w].dst /\ row.link = item[2].link
      /\ row.kind = item[2].kind /\ ~row.trashed
  BY <1>2, <1>5, <1>6 DEF Row, Places
<1>8. PICK j : j = [job[w] EXCEPT !.out = <<<<next, <<>>>>>>] OBVIOUS
<1>9. /\ IsJob(j) /\ j.kind = job[w].kind /\ j.src = job[w].src /\ j.scope = job[w].scope
      /\ j.cut = job[w].cut /\ j.out = <<<<next, <<>>>>>>
  BY <1>1, <1>8 DEF IsJob
<1>10. PICK d : d = AfterCopy(j, item, <<>>) OBVIOUS
<1>11. CreateFile(w, row, d, Idle) BY <1>3, <1>6, <1>8, <1>10 DEF CopyRoot
<1>12. /\ d.src = j.src /\ d.kind = j.kind /\ d.out = j.out /\ d.cut = j.cut /\ d.todo = <<>>
       /\ d.scope = j.scope \cup {item[1], next}
       /\ item[2].kind = "folder" => d.pc = "copyList" /\ d.at = item[1] /\ d.dst = next
  BY <1>9, <1>10, AfterCopyFields
<1>13. /\ Changes(w)
       /\ \/ Became(w, Idle)
          \/ /\ Became(w, d) /\ next \in Ids /\ touched'[w] = touched[w]
             /\ \A i \in Ids : RowIn(file, i) => i < next
             /\ \A i \in Ids : i # next => file'[i] = file[i]
             /\ file'[next] = row /\ RowIn(file', next)
  BY <1>1, <1>7, <1>11, CopyCreates
<1>14. ASSUME Became(w, d), next \in Ids, touched'[w] = touched[w],
              \A i \in Ids : RowIn(file, i) => i < next,
              \A i \in Ids : i # next => file'[i] = file[i],
              file'[next] = row, RowIn(file', next)
       PROVE  CopyOK(file', touched'[w], d)
  <2>1. PICK x : x = touched[w] OBVIOUS
  <2> SUFFICES ASSUME d.kind = "folder", d.cut = {}, d.scope \cap x = {}
               PROVE  d.pc = "copyList" /\ \E o : Copied(file', x, d, o)
    BY <1>14, <2>1 DEF CopyOK
  <2>2. job[w].kind = "folder" /\ job[w].cut = {} /\ job[w].scope \cap x = {} BY <1>9, <1>12
  <2>3. Started(file, job[w]) BY <1>2, <2>1, <2>2 DEF CopyOK
  <2>4. PICK s : s = job[w].src OBVIOUS
  <2>5. RowIn(file, s) /\ s \in job[w].scope /\ FolderIn(file, s) /\ job[w].todo = <<<<s, file[s], job[w].dst>>>>
    BY <2>3, <2>4 DEF Started
  <2>6. item = <<s, file[s], job[w].dst>> BY <1>3, <2>5
  <2>7. item[1] = s /\ item[2] = file[s] BY <2>6
  <2>8. d.pc = "copyList" /\ d.at = s /\ d.dst = next BY <1>12, <2>5, <2>7 DEF FolderIn
  <2>9. RowAdded(file, file', next, s, job[w].dst) BY <1>7, <1>14, <2>7 DEF RowAdded
  <2>10. \A i \in Ids : RowIn(file, i) => (file[i].parent \in Ids => file[i].parent < next)
    BY <1>1 DEF RowsOK, RowIn, IsRow, Given
  <2>11. job[w].dst \in Ids => job[w].dst < next BY <1>2 DEF Given
  <2>12. next \notin x /\ s \notin x BY <1>9, <1>12, <2>5
  <2>13. PICK o : o = [b \in {next} |-> s] OBVIOUS
  <2>14. DOMAIN o = {next} /\ o[next] = s BY <2>13
  <2>15. PICK u : u = file' OBVIOUS
  <2>16. PICK n : n = next OBVIOUS
  <2>17. PICK pc : pc = d.pc OBVIOUS
  <2>18. CopyOf(u, x, o, n, s) /\ ToCopy(u, x, o, pc, <<>>, s, n)
    BY <2>5, <2>8, <2>9, <2>10, <2>11, <2>12, <2>14, <2>15, <2>16, <2>17, RootCopied
  <2>19. d.out[1][1] = n /\ d.src = s BY <1>9, <1>12, <2>4, <2>16
  <2>20. \A b \in DOMAIN o : b \in d.scope /\ o[b] \in d.scope BY <1>9, <1>12, <2>5, <2>14
  <2>21. Copied(u, x, d, o) BY <1>12, <2>8, <2>16, <2>17, <2>18, <2>19, <2>20 DEF Copied
  <2> QED BY <2>8, <2>15, <2>21
<1> QED BY <1>13, <1>14, IdleGoes DEF Goes

LEMMA CopyItemCopies ==
  ASSUME TreeIInv, NEW w \in Workers, CopyOK(file, touched[w], job[w]), CopyItem(w)
  PROVE  Goes(w)
<1>1. IsJob(job[w]) /\ JobOK(job[w]) /\ TreeTypes /\ RowsOK /\ JobsOK BY JobAt DEF TreeIInv
<1>2. TodoOK(job[w].todo) /\ job[w].todo # <<>> /\ job[w].pc = "copyItem" BY <1>1 DEF JobOK, CopyItem
<1>3. PICK todo : todo = job[w].todo OBVIOUS
<1>4. PICK item : item = Head(todo) OBVIOUS
<1>4a. PICK rest : rest = Tail(todo) OBVIOUS
<1>5. item \in Item BY <1>2, <1>3, <1>4, TodoParts
<1>6. item[1] \in Ids /\ item[2] \in Row /\ item[3] \in Places BY <1>5 DEF Item
<1>7. PICK row : row = [item[2] EXCEPT !.parent = item[3], !.trashed = FALSE] OBVIOUS
<1>8. /\ row \in Row /\ row.parent = item[3] /\ row.link = item[2].link
      /\ row.kind = item[2].kind /\ row.name = item[2].name /\ ~row.trashed
  BY <1>6, <1>7 DEF Row, Places
<1>9. PICK j : j = job[w] OBVIOUS
<1>9a. IsJob(j) BY <1>1, <1>9
<1>10. PICK d : d = AfterCopy(j, item, rest) OBVIOUS
<1>11. CreateFile(w, row, d, Idle) BY <1>3, <1>4, <1>4a, <1>7, <1>9, <1>10 DEF CopyItem
<1>12. /\ d.src = j.src /\ d.kind = j.kind /\ d.out = j.out /\ d.cut = j.cut /\ d.todo = rest
       /\ d.scope = j.scope \cup {item[1], next}
       /\ item[2].kind = "folder" => d.pc = "copyList" /\ d.at = item[1] /\ d.dst = next
       /\ item[2].kind # "folder" => d.pc = IF rest = <<>> THEN "copied" ELSE "copyItem"
  BY <1>9a, <1>10, AfterCopyFields
<1>13. /\ Changes(w)
       /\ \/ Became(w, Idle)
          \/ /\ Became(w, d) /\ next \in Ids /\ touched'[w] = touched[w]
             /\ \A i \in Ids : RowIn(file, i) => i < next
             /\ \A i \in Ids : i # next => file'[i] = file[i]
             /\ file'[next] = row /\ RowIn(file', next)
  BY <1>1, <1>8, <1>11, CopyCreates
<1>14. ASSUME Became(w, d), next \in Ids, touched'[w] = touched[w],
              \A i \in Ids : RowIn(file, i) => i < next,
              \A i \in Ids : i # next => file'[i] = file[i],
              file'[next] = row, RowIn(file', next)
       PROVE  CopyOK(file', touched'[w], d)
  <2>1. PICK x : x = touched[w] OBVIOUS
  <2> SUFFICES ASSUME d.kind = "folder", d.cut = {}, d.scope \cap x = {}
               PROVE  /\ d.pc \in {"copyList", "copyItem", "copied"}
                      /\ \E o : Copied(file', x, d, o)
    BY <1>14, <2>1 DEF CopyOK
  <2>2. j.kind = "folder" /\ j.cut = {} /\ j.scope \cap x = {} BY <1>12
  <2>3. PICK o : Copied(file, x, j, o) BY <1>2, <1>9, <2>1, <2>2 DEF CopyOK
  <2>4. PICK r : r = j.out[1][1] OBVIOUS
  <2>5. PICK s : s = j.src OBVIOUS
  <2>6. /\ CopyOf(file, x, o, r, s) /\ ToCopy(file, x, o, "copyItem", todo, j.at, j.dst)
        /\ \A b \in DOMAIN o : b \in j.scope /\ o[b] \in j.scope
    BY <1>2, <1>3, <1>9, <2>3, <2>4, <2>5 DEF Copied
  <2>7. PICK a : a = item[1] OBVIOUS
  <2>8. PICK b : b = item[3] OBVIOUS
  <2>9. PICK n : n = next OBVIOUS
  <2>10. PICK u : u = file' OBVIOUS
  <2>11. n \notin x /\ a \in Ids \ x BY <1>6, <1>12, <2>7, <2>9
  <2>12. ItemIn(file, x, o, item)
    <3>1. todo \in Seq(Item) /\ todo # <<>> BY <1>2, <1>3 DEF TodoOK
    <3>2. 1 \in DOMAIN todo /\ item = todo[1] BY <1>4, <3>1, TailAt
    <3> QED BY <2>6, <3>2 DEF ToCopy
  <2>13. b \in DOMAIN o /\ FolderIn(file, o[b]) /\ EntryIn(file, a, o[b]) /\ item[2] = file[a]
    BY <2>7, <2>8, <2>11, <2>12 DEF ItemIn
  <2>14. RowAdded(file, u, n, a, b) /\ u[n].name = file[a].name
    BY <1>8, <1>14, <2>8, <2>9, <2>10, <2>13 DEF RowAdded
  <2>15. PICK p : p = [c \in DOMAIN o \cup {n} |-> IF c = n THEN a ELSE o[c]] OBVIOUS
  <2>16. DOMAIN p = DOMAIN o \cup {n} /\ p[n] = a /\ \A c \in DOMAIN o : p[c] = o[c]
    <3>1. n \notin DOMAIN o
      <4>1. \A c \in DOMAIN o : c \in Ids /\ c < n BY <1>14, <2>6, <2>9 DEF CopyOf
      <4>2. n \in Ids BY <1>14, <2>9
      <4> QED BY <4>1, <4>2 DEF Ids
    <3> QED BY <2>15, <3>1
  <2>17. CopyOf(u, x, p, r, s) BY <2>6, <2>11, <2>13, <2>14, <2>16, ItemCopied
  <2>18. PICK pc : pc = d.pc OBVIOUS
  <2>19. PICK at2 : at2 = d.at OBVIOUS
  <2>20. PICK dst2 : dst2 = d.dst OBVIOUS
  <2>21. GoesOn(item, rest, n, pc, at2, dst2)
    BY <1>12, <2>9, <2>18, <2>19, <2>20 DEF GoesOn
  <2>22. RowAdded(file, u, n, item[1], item[3]) /\ item[1] \in Ids \ x /\ Extends(o, p, n, item[1])
    BY <2>7, <2>8, <2>11, <2>14, <2>16 DEF Extends
  <2>23. PICK at : at = j.at OBVIOUS
  <2>24. PICK dst : dst = j.dst OBVIOUS
  <2>25. ToCopy(file, x, o, "copyItem", todo, at, dst) BY <2>6, <2>23, <2>24
  <2>26. TodoOK(todo) /\ todo # <<>> BY <1>2, <1>3
  <2>27. ToCopy(u, x, p, pc, rest, at2, dst2)
    BY <1>4, <1>4a, <2>6, <2>11, <2>21, <2>22, <2>25, <2>26, ItemDone
  <2>28. \A c \in DOMAIN p : c \in d.scope /\ p[c] \in d.scope BY <1>12, <2>6, <2>7, <2>9, <2>16
  <2>29. Copied(u, x, d, p) BY <1>12, <2>4, <2>5, <2>17, <2>18, <2>19, <2>20, <2>27, <2>28 DEF Copied
  <2>30. d.pc \in {"copyList", "copyItem", "copied"} BY <2>18, <2>21 DEF GoesOn
  <2> QED BY <2>10, <2>29, <2>30
<1> QED BY <1>13, <1>14, IdleGoes DEF Goes

LEMMA copyFolderContentsCopies ==
  ASSUME TreeIInv, NEW w \in Workers, CopyOK(file, touched[w], job[w]), copyFolderContents(w)
  PROVE  Goes(w)
<1>1. IsJob(job[w]) /\ JobOK(job[w]) /\ TreeTypes BY JobAt DEF TreeIInv
<1>2. Changes(w) /\ file' = file /\ touched' = touched /\ job[w].pc = "copyList" BY DEF copyFolderContents, Changes
<1>3. PICK at : at = job[w].at OBVIOUS
<1>4. PICK dst : dst = job[w].dst OBVIOUS
<1>5. PICK items : items = First(ListDirectory(at), CopyLimit) OBVIOUS
<1>6. PICK new : new = [k \in DOMAIN items |-> <<items[k], file[items[k]], dst>>] OBVIOUS
<1>7. PICK todo : todo = job[w].todo OBVIOUS
<1>8. PICK all : all = new \o todo OBVIOUS
<1>9. PICK pc : pc = IF all = <<>> THEN "copied" ELSE "copyItem" OBVIOUS
<1>10. PICK j : j = [job[w] EXCEPT !.todo = all, !.cut = @ \cup Cut(at, CopyLimit), !.pc = pc] OBVIOUS
<1>11. Became(w, j)
  BY <1>3, <1>4, <1>5, <1>6, <1>7, <1>8, <1>9, <1>10 DEF copyFolderContents, Became, TreeIInv, JobsOK
<1>12. /\ j.todo = all /\ j.pc = pc /\ j.kind = job[w].kind /\ j.scope = job[w].scope
       /\ j.cut = job[w].cut \cup Cut(at, CopyLimit) /\ j.src = job[w].src /\ j.out = job[w].out /\ j.at = at /\ j.dst = dst
  BY <1>1, <1>3, <1>4, <1>10 DEF IsJob
<1>13. ASSUME Cut(at, CopyLimit) = {}
       PROVE  /\ \A k \in DOMAIN items : EntryIn(file, items[k], at)
              /\ \A i \in Ids : EntryIn(file, i, at) => \E k \in DOMAIN items : items[k] = i
  <2>1. CopyLimit \in Nat BY TreeAssumption
  <2>2. items = ListDirectory(at) BY <1>1, <1>5, <1>13, <2>1, WholeListing
  <2>3. items \in Seq(Listed(at)) /\ \A i \in Listed(at) : \E k \in DOMAIN items : items[k] = i
    BY <1>1, <2>2, ListingExact
  <2>4. \A i : i \in Listed(at) <=> i \in Ids /\ EntryIn(file, i, at)
    BY DEF Listed, Live, IsRow, EntryIn, RowIn
  <2>5. \A k \in DOMAIN items : items[k] \in Listed(at) BY <2>3
  <2> QED BY <2>3, <2>4, <2>5
<1>14. Len(items) \in Nat /\ DOMAIN items = 1 .. Len(items)
  <2>1. PICK ids : ids = ListDirectory(at) OBVIOUS
  <2>2. ids \in Seq(Listed(at)) /\ CopyLimit \in Nat BY <1>1, <2>1, ListingExact, TreeAssumption
  <2>3. items \in Seq(Listed(at)) BY <1>5, <2>1, <2>2, FirstOf
  <2> QED BY <2>3
<1>15. DOMAIN new = DOMAIN items /\ \A k \in DOMAIN items : new[k] = <<items[k], file[items[k]], dst>> BY <1>6
<1>16. PICK S : S = Item \cup {new[k] : k \in DOMAIN items} OBVIOUS
<1>17. new \in Seq(S) /\ todo \in Seq(S)
  <2>1. new \in [1 .. Len(items) -> S] BY <1>14, <1>15, <1>16, <1>6
  <2>2. todo \in Seq(Item) BY <1>1, <1>2, <1>7 DEF JobOK, TodoOK
  <2>3. Len(todo) \in Nat /\ todo \in [1 .. Len(todo) -> Item] BY <2>2
  <2>4. todo \in [1 .. Len(todo) -> S] BY <1>16, <2>3
  <2> QED BY <1>14, <2>1, <2>3, <2>4
<1>18. Joins(new, todo, all) BY <1>8, <1>17, Joined
<1>19. CopyOK(file, touched[w], j)
  <2>1. PICK x : x = touched[w] OBVIOUS
  <2> SUFFICES ASSUME j.kind = "folder", j.cut = {}, j.scope \cap x = {}
               PROVE  pc \in {"copied", "copyItem"} /\ \E o : Copied(file, x, j, o)
    BY <1>12, <2>1 DEF CopyOK
  <2>2. job[w].kind = "folder" /\ job[w].cut = {} /\ Cut(at, CopyLimit) = {} /\ job[w].scope \cap x = {} BY <1>12
  <2>3. PICK o : Copied(file, x, job[w], o) BY <1>2, <2>1, <2>2 DEF CopyOK
  <2>4. PICK r : r = job[w].out[1][1] OBVIOUS
  <2>5. PICK s : s = job[w].src OBVIOUS
  <2>6. /\ CopyOf(file, x, o, r, s) /\ ToCopy(file, x, o, "copyList", todo, at, dst)
        /\ \A b \in DOMAIN o : b \in job[w].scope /\ o[b] \in job[w].scope
    BY <1>2, <1>3, <1>4, <1>7, <2>3, <2>4, <2>5 DEF Copied
  <2>7. PICK t : t = file OBVIOUS
  <2>8. ToCopy(t, x, o, pc, all, at, dst)
    <3>1. CopyOf(t, x, o, r, s) /\ ToCopy(t, x, o, "copyList", todo, at, dst) BY <2>6, <2>7
    <3>2. (\A k \in DOMAIN items : EntryIn(t, items[k], at))
          /\ \A i \in Ids : EntryIn(t, i, at) => \E k \in DOMAIN items : items[k] = i
      BY <1>13, <2>2, <2>7
    <3>3. DOMAIN new = DOMAIN items /\ \A k \in DOMAIN items : new[k] = <<items[k], t[items[k]], dst>>
      BY <1>15, <2>7
    <3> QED BY <1>9, <1>18, <3>1, <3>2, <3>3, FolderListed
  <2>9. Copied(file, x, j, o) BY <1>12, <2>4, <2>5, <2>6, <2>7, <2>8 DEF Copied
  <2>10. pc \in {"copied", "copyItem"} BY <1>9
  <2> QED BY <2>9, <2>10
<1> QED BY <1>2, <1>11, <1>19 DEF Goes

LEMMA CopyStepGoes ==
  ASSUME TreeIInv, NEW w \in Workers, CopyOK(file, touched[w], job[w]), CopyStep(w)
  PROVE  Goes(w)
BY CopySourceCopies, CopyLookupCopies, CopyRootCopies, CopyItemCopies, copyFolderContentsCopies DEF CopyStep

-----------------------------------------------------------------------------
(* Copies that are under way or done, of every worker.                       *)
Copies(f, x, g) == \A w \in Workers : CopyOK(f, x[w], g[w])
CopyIInv == Copies(file, touched, job)

LEMMA OthersCopy ==
  ASSUME TreeIInv, CopyIInv, NEW w \in Workers, Goes(w)
  PROVE  Copies(file', touched', job')
<1>1. PICK j : Became(w, j) /\ Changes(w) /\ CopyOK(file', touched'[w], j) BY DEF Goes
<1>2. job'[w] = j BY <1>1 DEF Became, TreeIInv, JobsOK
<1>3. ASSUME NEW v \in Workers, v # w PROVE CopyOK(file', touched'[v], job'[v])
  <2>1. job'[v] = job[v] BY <1>1, <1>3 DEF Became, TreeIInv, JobsOK
  <2>2. PICK u : u = file' OBVIOUS
  <2>3. PICK y : y = touched'[v] OBVIOUS
  <2>4. PICK x : x = touched[v] OBVIOUS
  <2>5. PICK g : g = job[v] OBVIOUS
  <2>6. x \subseteq y /\ \A a \in Ids : file[a] # u[a] => a \in y
    BY <1>1, <1>3, <2>2, <2>3, <2>4, OthersNote DEF TreeIInv
  <2>7. CopyOK(file, x, g) BY <2>4, <2>5 DEF CopyIInv, Copies
  <2>8. CopyOK(u, y, g) BY <2>6, <2>7, CopyStays
  <2> QED BY <2>1, <2>2, <2>3, <2>5, <2>8
<1> QED BY <1>1, <1>2, <1>3 DEF Copies

LEMMA ElsewhereGoes ==
  ASSUME NEW w \in Workers, Elsewhere(w, Busy)
  PROVE  Goes(w)
BY NoCopy DEF Elsewhere, StepsTo, Goes, Busy

LEMMA CopiesKeep ==
  ASSUME TreeIInv, WalkIInv, CopyIInv, [DavNext]_vars
  PROVE  Copies(file', touched', job')
<1>1. TreeTypes /\ JobsOK BY DEF TreeIInv
<1>2. CASE UNCHANGED <<file, touched, job>> BY <1>2 DEF CopyIInv
<1>3. ASSUME NEW w \in Workers, CopyStep(w) PROVE Goes(w)
  BY <1>3, CopyStepGoes DEF CopyIInv, Copies
<1>4. ASSUME NEW w \in Workers, ListAllFiles(w) \/ walkDir(w) PROVE Goes(w)
  <2>1. PICK j : Became(w, j) /\ Changes(w) /\ j.pc = "walk" BY <1>1, <1>4, walkDirWalks, ListAllFilesWalks
  <2>2. j.pc \notin Copying BY <2>1 DEF Copying
  <2> QED BY <2>1, <2>2, NoCopy DEF Goes
<1>5. CASE UNCHANGED vars BY <1>2, <1>5 DEF vars, treeVars
<1>6. CASE Expire \/ cleanupLoop BY <1>2, <1>6 DEF Expire, cleanupLoop, treeVars
<1>7. ASSUME NEW w \in Workers, Rest(w) PROVE Copies(file', touched', job')
  <2>1. Elsewhere(w, Busy) \/ CopyStep(w) \/ ListAllFiles(w) \/ walkDir(w) BY <1>1, <1>7, TreeElsewhere DEF Rest
  <2> QED BY <1>3, <1>4, <2>1, ElsewhereGoes, OthersCopy
<1>8. ASSUME NEW w \in Workers,
             \/ ServeHTTP(w) \/ getFileByPath(w) \/ LockCheck(w) \/ PutChunks(w) \/ PutManifest(w)
             \/ PutLink(w) \/ Answer(w) \/ Lock(w) \/ Unlock(w)
      PROVE  Copies(file', touched', job')
  BY <1>1, <1>8, DavElsewhere, ElsewhereGoes, OthersCopy
<1> QED BY <1>5, <1>6, <1>7, <1>8 DEF DavNext

LEMMA CopyDone ==
  ASSUME NEW w \in Workers, CopyOK(file, touched[w], job[w]), job[w].pc = "copied", job[w].kind = "folder", job[w].cut = {},
         NEW src, src = job[w].src, NEW copy, copy = job[w].out[1][1],
         touched[w] \cap (job[w].scope \cup {y[1] : y \in Contents(src) \cup Contents(copy)}) = {}
  PROVE  Shape(copy) = Shape(src)
<1>1. PICK x : x = touched[w] OBVIOUS
<1>2. job[w].scope \cap x = {} BY <1>1
<1>3. PICK o : Copied(file, x, job[w], o) BY <1>1, <1>2 DEF CopyOK
<1>4. /\ CopyOf(file, x, o, copy, src)
      /\ ToCopy(file, x, o, "copied", job[w].todo, job[w].at, job[w].dst)
  BY <1>3 DEF Copied
<1>5. OldCopied(file, x, o)
  <2>1. job[w].todo = <<>> /\ DOMAIN <<>> = {} BY <1>4 DEF ToCopy
  <2>2. Owed(file, x, o, "copied", job[w].todo, job[w].dst) BY <1>4 DEF ToCopy
  <2> QED BY <2>1, <2>2 DEF Owed, OldCopied
<1>6. Contents(src) = ContentsIn(file, src) /\ Contents(copy) = ContentsIn(file, copy) BY ContentsAre
<1>7. Untouched(file, x, src) /\ Untouched(file, x, copy) BY <1>1, <1>6 DEF Untouched
<1>8. PICK t : t = file OBVIOUS
<1>9. ShapeIn(t, copy) = ShapeIn(t, src) BY <1>4, <1>5, <1>7, <1>8, SameShape
<1>10. Shape(copy) = ShapeIn(t, copy) /\ Shape(src) = ShapeIn(t, src) BY <1>6, <1>8 DEF Shape, ShapeIn
<1> QED BY <1>9, <1>10

LEMMA CopiesImply == CopyIInv => CopyComplete
<1> SUFFICES ASSUME CopyIInv, NEW w \in Workers, job[w].pc = "copied", job[w].kind = "folder", job[w].cut = {}
             PROVE  LET src == job[w].src
                        copy == job[w].out[1][1]
                        region == job[w].scope \cup {y[1] : y \in Contents(src) \cup Contents(copy)}
                    IN  touched[w] \cap region = {} => Shape(copy) = Shape(src)
  BY DEF CopyComplete
<1>1. PICK src : src = job[w].src OBVIOUS
<1>2. PICK copy : copy = job[w].out[1][1] OBVIOUS
<1>3. CopyOK(file, touched[w], job[w]) BY DEF CopyIInv, Copies
<1>4. touched[w] \cap (job[w].scope \cup {y[1] : y \in Contents(src) \cup Contents(copy)}) = {}
      => Shape(copy) = Shape(src)
  BY <1>1, <1>2, <1>3, CopyDone
<1> QED BY <1>1, <1>2, <1>4

LEMMA CopiesInitially == DavInit => CopyIInv
<1> SUFFICES ASSUME DavInit, NEW w \in Workers PROVE CopyOK(file, touched[w], job[w]) BY DEF CopyIInv, Copies
<1>1. job[w] = Idle BY DEF DavInit, Init
<1>2. job[w].pc \notin Copying BY <1>1, IdlePc DEF Busy
<1> QED BY <1>2, NoCopy

(* VFS.Copy reads and writes row by row while other requests create, move,   *)
(* delete and restore: a copy of a folder that ends without an error has the *)
(* paths, kinds and contents of its source, if nobody else changed a row of  *)
(* either.  (A folder copied below itself is copied without end.)            *)
THEOREM CopiesComplete == Spec => []CopyComplete
<1>1. DavInit => CopyIInv BY CopiesInitially
<1>2. TreeIInv /\ WalkIInv /\ CopyIInv /\ [DavNext]_vars => CopyIInv'
  <2> SUFFICES ASSUME TreeIInv, WalkIInv, CopyIInv, [DavNext]_vars PROVE CopyIInv' OBVIOUS
  <2>1. Copies(file', touched', job') BY CopiesKeep
  <2> QED BY <2>1 DEF CopyIInv, Copies
<1> QED BY <1>1, <1>2, WalksAlways, CopiesImply, PTL DEF Spec
=============================================================================

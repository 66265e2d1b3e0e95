------------------------------- MODULE FileTree -------------------------------
(***************************************************************************)
(* The file tree of one user: the files table (db/files.go), the virtual   *)
(* file system on it (vfs/vfs.go) and the REST handlers of files, folders  *)
(* and trash.  Every SQL statement is one step, a request is the sequence  *)
(* of its statements, and the requests of several workers interleave.      *)
(*                                                                         *)
(* An id is a number, given out in increasing order and never again; names *)
(* are numbers because listings are sorted by name.  The manifest of a     *)
(* file is identified with the id of the file it was created for: the code *)
(* modelled here creates no manifest but version 1.                        *)
(***************************************************************************)
EXTENDS SequencesExt, Naturals

CONSTANTS
  Workers,     \* concurrent requests
  Names,       \* valid names of entries, a set of numbers
  Root,        \* parent_id NULL: the top level
  None,        \* an absent value
  Seeds,       \* the tables a run starts from
  MaxIds,      \* bound: rows ever created
  MaxRequests, \* bound: requests ever served
  FKModes,     \* is PRAGMA foreign_keys on at the connection of a statement?
  CopyLimit,   \* entries of a folder that a copy lists, 1000 in the code
  WalkLimit    \* entries of a folder that a walk lists, 10000 in the code

ASSUME TreeAssumption ==
  /\ Names \subseteq Nat /\ FKModes \subseteq BOOLEAN
  /\ MaxIds \in Nat /\ MaxRequests \in Nat
  /\ CopyLimit \in Nat \ {0} /\ WalkLimit \in Nat \ {0}
  /\ Root \notin 1 .. MaxIds /\ None \notin 1 .. MaxIds
  /\ IsFiniteSet(Workers)

Ids == 1 .. MaxIds
Row == [parent : Ids \cup {Root}, name : Names, kind : {"file", "folder"},
        trashed : BOOLEAN, link : Ids \cup {None}]

ASSUME RowAssumption == None \notin Row

(* A table to start from: no name twice in a folder, no link but a file's to *)
(* its own manifest, no parent that is not there.                            *)
ASSUME SeedAssumption ==
  \A s \in Seeds :
    /\ s \in Seq(Row) /\ Len(s) <= MaxIds
    /\ \A i, j \in DOMAIN s : i # j /\ s[i].parent # Root /\ s[i].parent = s[j].parent => s[i].name # s[j].name
    /\ \A i \in DOMAIN s : s[i].link \in {i, None} /\ s[i].parent \in {Root} \cup DOMAIN s

VARIABLES
  file,      \* the files table: a row, or None, for every id
  next,      \* the next id generateID gives out
  manifests, \* ids of the files that have a manifest row
  refs,      \* references the chunk table counts, for one chunk per content
  job,       \* the request each worker serves
  touched,   \* history: rows others changed since a worker's request began
  requests   \* requests so far

treeVars == <<file, next, manifests, refs, job, touched, requests>>

(* A request: what it was asked and how far it is; cut is history, the       *)
(* folders of which it has read only the first entries.                      *)
Idle ==
  [op |-> "none", pc |-> "idle", path |-> <<>>, dest |-> <<>>, left |-> <<>>,
   at |-> Root, src |-> None, dst |-> Root, name |-> None, kind |-> "file",
   todo |-> <<>>, out |-> <<>>, scope |-> {}, cut |-> {}]

IsRow(i) == i \in Ids /\ file[i] # None
Live(i) == IsRow(i) /\ ~file[i].trashed

TypeOK ==
  /\ file \in [Ids -> Row \cup {None}]
  /\ next \in 1 .. MaxIds + 1 /\ \A i \in Ids : file[i] # None => i < next
  /\ manifests \subseteq 1 .. next - 1
  /\ refs \in Nat
  /\ DOMAIN job = Workers /\ \A w \in Workers : DOMAIN job[w] = DOMAIN Idle
  /\ touched \in [Workers -> SUBSET Ids]
  /\ requests \in 0 .. MaxRequests

Init ==
  /\ \E s \in Seeds :
       /\ file = [i \in Ids |-> IF i <= Len(s) THEN s[i] ELSE None]
       /\ next = Len(s) + 1
       /\ manifests = {i \in DOMAIN s : s[i].link = i}
       /\ refs = Cardinality({i \in DOMAIN s : s[i].link = i})
  /\ job = [w \in Workers |-> Idle]
  /\ touched = [w \in Workers |-> {}]
  /\ requests = 0

-----------------------------------------------------------------------------
(* Queries.                                                                 *)

(* The rows a path step may answer: live, by parent and name.  At the top    *)
(* level several rows may share a name.                                      *)
GetFileByPath(p, n) ==
  {i \in Ids : Live(i) /\ file[i].parent = p /\ file[i].name = n}

(* Mutant: ORDER BY name alone.                                              *)
ByName(p) ==
  SetToSortSeq({i \in Ids : Live(i) /\ file[i].parent = p},
               LAMBDA i, j : file[i].name < file[j].name)

(* ORDER BY type DESC, name ASC: folders come first.  The query leaves rows  *)
(* of one name, at the top level, in any order: here that of their ids.      *)
Before(i, j) ==
  \/ file[i].kind = "folder" /\ file[j].kind = "file"
  \/ /\ file[i].kind = file[j].kind
     /\ file[i].name < file[j].name \/ (file[i].name = file[j].name /\ i < j)

(* The k-th entry is the one with k - 1 entries before it.                   *)
ListDirectory(p) ==
  LET S == {i \in Ids : Live(i) /\ file[i].parent = p}
  IN  [k \in 1 .. Cardinality(S) |-> CHOOSE i \in S : Cardinality({j \in S : Before(j, i)}) = k - 1]

(* LIMIT, and whether it left something out.                                 *)
First(s, limit) == SubSeq(s, 1, Min({limit, Len(s)}))
Cut(p, limit) == IF Len(ListDirectory(p)) > limit THEN {p} ELSE {}

IsFolder(i) == file[i].kind = "folder"

(* LIMIT and OFFSET; a limit outside 1 .. 100 becomes 50.                    *)
Page(s, limit, offset) ==
  LET size == IF limit \in 1 .. 100 THEN limit ELSE 50
  IN  SubSeq(s, offset + 1, Min({offset + size, Len(s)}))

listFiles(p, limit, offset) == Page(ListDirectory(p), limit, offset)

(* The loop that keeps the folders.                                          *)
Folders(s) ==
  LET kept[n \in 0 .. Len(s)] ==
        IF n = 0 THEN <<>>
        ELSE IF IsFolder(s[n]) THEN Append(kept[n - 1], s[n]) ELSE kept[n - 1]
  IN  kept[Len(s)]

(* listFolders filters the page it has read.                                 *)
listFolders(p, limit, offset) == Folders(Page(ListDirectory(p), limit, offset))

(* Parents of i, their parents, and so on.                                   *)
GetBreadcrumbs(i) ==
  LET up[n \in 0 .. MaxIds] ==
        [j \in Ids \cup {Root} |->
           IF n = 0 \/ ~IsRow(j) THEN {}
           ELSE {file[j].parent} \cup up[n-1][file[j].parent]]
  IN  up[MaxIds][i]

(* Names from the top level down to i.                                       *)
GetFolderPath(i) ==
  LET path[n \in 0 .. MaxIds] ==
        [j \in Ids \cup {Root} |->
           IF n = 0 \/ ~IsRow(j) THEN <<>>
           ELSE Append(path[n-1][file[j].parent], file[j].name)]
  IN  path[MaxIds][i]

Below(top) == {i \in Ids : IsRow(i) /\ top \in GetBreadcrumbs(i)}

-----------------------------------------------------------------------------
(* Statements.                                                              *)

ParentOK(p, fk) == fk => p = Root \/ IsRow(p)

(* Mutant: rows in the trash do not count.                                   *)
NameFreeLive(i, p, n) ==
  p = Root \/ \A j \in Ids \ {i} : Live(j) => file[j].parent # p \/ file[j].name # n

(* UNIQUE (user_id, parent_id, name): rows in the trash count, a NULL parent *)
(* is different from every other.                                            *)
NameFree(i, p, n) ==
  p = Root \/ \A j \in Ids \ {i} : IsRow(j) => file[j].parent # p \/ file[j].name # n

(* The table becomes f; the other workers note which rows changed.           *)
Write(w, f) ==
  /\ file' = f
  /\ touched' = [v \in Workers |->
       touched[v] \cup (IF v = w THEN {} ELSE {i \in Ids : f[i] # file[i]})]

(* INSERT of row r, and what the request does after it or after an error.    *)
CreateFile(w, r, done, failed) ==
  \E fk \in FKModes :
    \/ /\ ParentOK(r.parent, fk) /\ NameFree(next, r.parent, r.name)
       /\ next \in Ids
       /\ Write(w, [file EXCEPT ![next] = r])
       /\ next' = next + 1
       /\ job' = [job EXCEPT ![w] = done]
    \/ /\ ~(ParentOK(r.parent, fk) /\ NameFree(next, r.parent, r.name))
       /\ job' = [job EXCEPT ![w] = failed]
       /\ UNCHANGED <<file, next, touched>>

(* UPDATE of the row of id i to r; an absent row is an error.                *)
UpdateRow(w, i, r, fk) ==
  LET ok == IsRow(i) /\ ParentOK(r.parent, fk) /\ NameFree(i, r.parent, r.name)
  IN  Write(w, IF ok THEN [file EXCEPT ![i] = r] ELSE file)

(* DELETE.  With foreign keys on the rows below go with it, and every        *)
(* manifest of a deleted row; without them only the row.                     *)
PermanentDelete(w, i) ==
  \E fk \in FKModes :
    LET gone == IF fk THEN {i} \cup Below(i) ELSE {i}
    IN  /\ Write(w, [j \in Ids |-> IF j \in gone THEN None ELSE file[j]])
        /\ manifests' = IF fk THEN manifests \ gone ELSE manifests

(* The row as it would be after i's statement; None of an absent row.        *)
Changed(i, p, n) == [file[i] EXCEPT !.parent = p, !.name = n]

-----------------------------------------------------------------------------
(* REST requests.  The request arrives and makes its first query.           *)

Finish(w) == job' = [job EXCEPT ![w] = Idle]

Arrive(w, j) ==
  /\ job[w] = Idle /\ requests < MaxRequests
  /\ requests' = requests + 1
  /\ job' = [job EXCEPT ![w] = j]
  /\ touched' = [touched EXCEPT ![w] = {}]
  /\ UNCHANGED <<file, next, manifests, refs>>

(* Any parent id is accepted.                                                *)
Create(w, k) ==
  \E p \in Ids \cup {Root}, n \in Names :
    /\ p \in Ids => p < next
    /\ Arrive(w, [Idle EXCEPT !.op = "create", !.pc = "lookup",
                              !.dst = p, !.name = n, !.kind = k])

createFile(w) == Create(w, "file")
createFolder(w) == Create(w, "folder")

(* VFS.CreateFolder and VFS.CreateFile: first the lookup, then the INSERT.   *)
CreateLookup(w) ==
  /\ job[w].pc = "lookup"
  /\ job' = [job EXCEPT ![w] = IF GetFileByPath(@.dst, @.name) # {} THEN Idle
                               ELSE [@ EXCEPT !.pc = "insert"]]
  /\ UNCHANGED <<file, next, manifests, refs, touched, requests>>

(* A WebDAV PUT goes on with the manifest of the new row.                    *)
CreateInsert(w) ==
  /\ job[w].pc = "insert"
  /\ CreateFile(w, [parent |-> job[w].dst, name |-> job[w].name,
                    kind |-> job[w].kind, trashed |-> FALSE, link |-> None],
                IF job[w].op = "put"
                THEN [job[w] EXCEPT !.src = next, !.pc = "manifest"] ELSE Idle,
                Idle)
  /\ UNCHANGED <<manifests, refs, requests>>

(* updateFile: GetFile, and for a move the target parent is looked up next.  *)
updateFile(w) ==
  \E i \in Ids, p \in Ids \cup {None}, n \in Names \cup {None} :
    /\ IsRow(i) /\ (p # None \/ n # None) /\ (p \in Ids => p < next)
    /\ Arrive(w, [Idle EXCEPT !.op = "update", !.src = i, !.dst = p, !.name = n,
                              !.pc = IF p # None THEN "parent" ELSE "update"])

updateParent(w) ==
  /\ job[w].pc = "parent"
  /\ job' = [job EXCEPT ![w] =
       IF ~IsRow(@.dst) THEN Idle
       ELSE [@ EXCEPT !.pc = IF job[w].name = None THEN "name" ELSE "update"]]
  /\ UNCHANGED <<file, next, manifests, refs, touched, requests>>

(* updateFolder: the row is a folder; the target parent is not looked up.    *)
updateFolder(w) ==
  \E i \in Ids, p \in Ids \cup {None}, n \in Names \cup {None} :
    /\ IsRow(i) /\ IsFolder(i) /\ (p # None \/ n # None) /\ (p \in Ids => p < next)
    /\ Arrive(w, [Idle EXCEPT !.op = "update", !.src = i, !.dst = p, !.name = n,
                              !.pc = IF p # None /\ n = None THEN "name"
                                     ELSE "update"])

(* VFS.Move without a name reads the present one.                            *)
MoveName(w) ==
  /\ job[w].pc = "name"
  /\ job' = [job EXCEPT ![w] = IF ~IsRow(@.src) THEN Idle
                               ELSE [@ EXCEPT !.name = file[job[w].src].name, !.pc = "update"]]
  /\ UNCHANGED <<file, next, manifests, refs, touched, requests>>

(* db.MoveFile sets parent and name, VFS.Rename (no parent given) the name.  *)
MoveFile(w) ==
  /\ job[w].pc = "update"
  /\ \E fk \in FKModes :
       LET i == job[w].src
           p == IF job[w].dst # None THEN job[w].dst
                ELSE IF IsRow(i) THEN file[i].parent ELSE Root
       IN  IF IsRow(i) THEN UpdateRow(w, i, Changed(i, p, job[w].name), fk)
           ELSE UNCHANGED <<file, touched>>
  /\ Finish(w)
  /\ UNCHANGED <<next, manifests, refs, requests>>

(* GetFile, then the statement.                                              *)
RemoveEntry(w, i, op) == IsRow(i) /\ Arrive(w, [Idle EXCEPT !.op = op, !.src = i, !.pc = op])

deleteFile(w) == \E i \in Ids : RemoveEntry(w, i, "trash")
deleteFolder(w) == \E i \in Ids : IsRow(i) /\ IsFolder(i) /\ RemoveEntry(w, i, "trash")
restoreItem(w) == \E i \in Ids : RemoveEntry(w, i, "restore")
permanentDelete(w) == \E i \in Ids : RemoveEntry(w, i, "purge")

SoftDelete(w) ==
  /\ job[w].pc = "trash"
  /\ Write(w, IF IsRow(job[w].src) THEN [file EXCEPT ![job[w].src].trashed = TRUE] ELSE file)
  /\ Finish(w)
  /\ UNCHANGED <<next, manifests, refs, requests>>

RestoreFromTrash(w) ==
  /\ job[w].pc = "restore"
  /\ Write(w, IF IsRow(job[w].src) THEN [file EXCEPT ![job[w].src].trashed = FALSE] ELSE file)
  /\ Finish(w)
  /\ UNCHANGED <<next, manifests, refs, requests>>

DeletePermanent(w) ==
  /\ job[w].pc = "purge"
  /\ PermanentDelete(w, job[w].src)
  /\ Finish(w)
  /\ UNCHANGED <<next, refs, requests>>

-----------------------------------------------------------------------------
(* VFS.Copy: row by row, each folder listed when the copy gets to it.       *)

CopySource(w) ==
  /\ job[w].pc = "copySource"
  /\ LET s == job[w].src
     IN  job' = [job EXCEPT ![w] =
           IF ~IsRow(s) THEN Idle
           ELSE [@ EXCEPT !.todo = <<<<s, file[s], job[w].dst>>>>, !.pc = "copyLookup",
                          !.kind = file[s].kind, !.scope = {s} \cup Below(s)]]
  /\ UNCHANGED <<file, next, manifests, refs, touched, requests>>

CopyLookup(w) ==
  /\ job[w].pc = "copyLookup"
  /\ job' = [job EXCEPT ![w] = IF GetFileByPath(@.dst, @.name) # {} THEN Idle
                               ELSE [@ EXCEPT !.pc = "copyRoot"]]
  /\ UNCHANGED <<file, next, manifests, refs, touched, requests>>

(* After the row: list its folder, take the next item, or be done.           *)
AfterCopy(j, item, rest) ==
  LET k == [j EXCEPT !.todo = rest, !.scope = @ \cup {item[1], next}]
  IN  IF item[2].kind = "folder"
      THEN [k EXCEPT !.at = item[1], !.dst = next, !.pc = "copyList"]
      ELSE [k EXCEPT !.pc = IF rest = <<>> THEN "copied" ELSE "copyItem"]

CopyRoot(w) ==
  /\ job[w].pc = "copyRoot"
  /\ LET item == Head(job[w].todo)
         j == [job[w] EXCEPT !.out = <<<<next, <<>>>>>>]
     IN  CreateFile(w, [item[2] EXCEPT !.parent = job[w].dst, !.name = job[w].name,
                                       !.trashed = FALSE],
                    AfterCopy(j, item, <<>>), Idle)
  /\ UNCHANGED <<manifests, refs, requests>>

(* Mutant: a subfolder is created but not entered.                           *)
Shallow(w) ==
  /\ job[w].pc = "copyItem"
  /\ LET item == Head(job[w].todo)
         rest == Tail(job[w].todo)
     IN  CreateFile(w, [item[2] EXCEPT !.parent = item[3], !.trashed = FALSE],
                    [job[w] EXCEPT !.todo = rest, !.scope = @ \cup {item[1], next},
                                   !.pc = IF rest = <<>> THEN "copied" ELSE "copyItem"],
                    Idle)
  /\ UNCHANGED <<manifests, refs, requests>>

CopyItem(w) ==
  /\ job[w].pc = "copyItem"
  /\ LET item == Head(job[w].todo)
     IN  CreateFile(w, [item[2] EXCEPT !.parent = item[3], !.trashed = FALSE],
                    AfterCopy(job[w], item, Tail(job[w].todo)), Idle)
  /\ UNCHANGED <<manifests, refs, requests>>

copyFolderContents(w) ==
  /\ job[w].pc = "copyList"
  /\ LET items == First(ListDirectory(job[w].at), CopyLimit)
         todo == [k \in DOMAIN items |-> <<items[k], file[items[k]], job[w].dst>>]
                 \o job[w].todo
     IN  job' = [job EXCEPT ![w].todo = todo,
                            ![w].cut = @ \cup Cut(job[w].at, CopyLimit),
                            ![w].pc = IF todo = <<>> THEN "copied" ELSE "copyItem"]
  /\ UNCHANGED <<file, next, manifests, refs, touched, requests>>

-----------------------------------------------------------------------------
(* VFS.ListAllFiles, the server's side of a sync: folder by folder.         *)

ListAllFiles(w) ==
  Arrive(w, [Idle EXCEPT !.op = "walk", !.pc = "walk", !.todo = <<<<Root, <<>>>>>>])

(* Bound: a folder moved below itself while the walk is in it keeps the walk *)
(* going for ever; here it stops after so many entries.                      *)
MaxListed == 2 * MaxIds

(* Mutant: entries of a folder keep the path of the folder above it.         *)
LostPrefix(w) ==
  /\ job[w].pc = "walk" /\ job[w].todo # <<>> /\ Len(job[w].out) <= MaxListed
  /\ LET dir == Head(job[w].todo)
         ids == First(ListDirectory(dir[1]), WalkLimit)
         seen == [k \in DOMAIN ids |-> <<ids[k], Append(dir[2], file[ids[k]].name)>>]
         sub == Folders(ids)
     IN  job' = [job EXCEPT ![w].out = @ \o seen, ![w].cut = @ \cup Cut(dir[1], WalkLimit),
                            ![w].todo = [k \in DOMAIN sub |-> <<sub[k], dir[2]>>]
                                        \o Tail(job[w].todo)]
  /\ UNCHANGED <<file, next, manifests, refs, touched, requests>>

walkDir(w) ==
  /\ job[w].pc = "walk" /\ job[w].todo # <<>> /\ Len(job[w].out) <= MaxListed
  /\ LET dir == Head(job[w].todo)
         ids == First(ListDirectory(dir[1]), WalkLimit)
         Seen(s) == [k \in DOMAIN s |-> <<s[k], Append(dir[2], file[s[k]].name)>>]
     IN  job' = [job EXCEPT ![w].out = @ \o Seen(ids), ![w].cut = @ \cup Cut(dir[1], WalkLimit),
                            ![w].todo = Seen(Folders(ids)) \o Tail(job[w].todo)]
  /\ UNCHANGED <<file, next, manifests, refs, touched, requests>>

WalkDone(j) == j.pc = "walk" /\ j.todo = <<>>

(* The result of a copy or a walk is sent and the worker is free again.      *)
Reply(w) ==
  /\ job[w].pc = "copied" \/ WalkDone(job[w])
  /\ Finish(w)
  /\ UNCHANGED <<file, next, manifests, refs, touched, requests>>

TreeStep(w) ==
  \/ createFile(w) \/ createFolder(w) \/ updateFile(w) \/ updateFolder(w)
  \/ deleteFile(w) \/ deleteFolder(w) \/ restoreItem(w) \/ permanentDelete(w) \/ ListAllFiles(w)
  \/ CreateLookup(w) \/ CreateInsert(w) \/ updateParent(w) \/ MoveName(w) \/ MoveFile(w)
  \/ SoftDelete(w) \/ RestoreFromTrash(w) \/ DeletePermanent(w)
  \/ CopySource(w) \/ CopyLookup(w) \/ CopyRoot(w) \/ CopyItem(w) \/ copyFolderContents(w)
  \/ walkDir(w) \/ Reply(w)

-----------------------------------------------------------------------------
(* Properties.                                                              *)

(* Inside a folder a name belongs to one row, whatever interleaving of       *)
(* lookups, inserts, moves and restores led there: the lookup of a request   *)
(* is stale when its statement runs, only the database keeps names apart.    *)
NamesDistinct ==
  \A i, j \in Ids :
    IsRow(i) /\ IsRow(j) /\ i # j /\ file[i].parent # Root /\ file[i].parent = file[j].parent
    => file[i].name # file[j].name

(* A file with a manifest id has that manifest, unless it is a copy: Copy    *)
(* hands the manifest of another file on, and deleting that file for good    *)
(* takes it away.  No other interleaving of puts, copies and deletions       *)
(* leaves a file without its content.                                        *)
ContentReachable ==
  \A i \in Ids : IsRow(i) /\ file[i].link # None =>
    \/ file[i].link \in manifests
    \/ file[i].link # i /\ ~IsRow(file[i].link)

(* The counted references cover the contents that manifests name: a chunk is *)
(* counted before the manifest exists, and no failing request takes one back.*)
RefsCover == refs >= Cardinality(manifests)

(* listFolders filters after the LIMIT, yet its pages are those of the list  *)
(* of folders, because the listing puts folders first.                       *)
FolderPages ==
  \A p \in {Root} \cup {i \in Ids : Live(i) /\ IsFolder(i)}, limit \in 1 .. 2, offset \in 0 .. 1 :
    listFolders(p, limit, offset) = Page(Folders(ListDirectory(p)), limit, offset)

(* The entries a listing from the top reaches below folder t.                *)
Reached(t) ==
  {i \in Below(t) :
     /\ Live(i)
     /\ \A a \in GetBreadcrumbs(i) \cap Below(t) : Live(a) /\ IsFolder(a)}

(* The live entries below folder t, level by level, with their paths from t. *)
Contents(t) ==
  LET Entries(p) == {i \in Ids : Live(i) /\ file[i].parent = p}
      level[n \in 0 .. MaxIds] ==
        IF n = 0 THEN {<<t, <<>>>>}
        ELSE UNION {{<<i, Append(x[2], file[i].name)>> : i \in Entries(x[1])} :
                      x \in {y \in level[n-1] : n = 1 \/ IsFolder(y[1])}}
  IN  UNION {level[n] : n \in 1 .. MaxIds}

Shape(t) == {<<x[2], file[x[1]].kind, file[x[1]].link>> : x \in Contents(t)}

(* A copy that ends without an error holds the same paths, kinds and         *)
(* contents as its source, if no folder had more entries than it lists, and  *)
(* nobody else changed a row that was below the source when it began, that   *)
(* it copied or made, or that is in either now.                              *)
CopyComplete ==
  \A w \in Workers : job[w].pc = "copied" /\ job[w].kind = "folder" /\ job[w].cut = {} =>
    LET src == job[w].src
        copy == job[w].out[1][1]
        region == job[w].scope \cup {x[1] : x \in Contents(src) \cup Contents(copy)}
    IN  touched[w] \cap region = {} => Shape(copy) = Shape(src)

(* ListAllFiles reads folder by folder while others move things about.  An   *)
(* entry that stayed put all along, with the folders above it, is listed     *)
(* exactly once, under its path, if no folder had more entries than it lists.*)
Stayed(w, i) == i \in Reached(Root) /\ ({i} \cup GetBreadcrumbs(i)) \cap touched[w] = {}

WalkExact ==
  \A w \in Workers : WalkDone(job[w]) /\ job[w].cut = {} =>
    \A i \in Ids : Stayed(w, i) =>
      /\ Cardinality({k \in DOMAIN job[w].out : job[w].out[k][1] = i}) = 1
      /\ <<i, GetFolderPath(i)>> \in Range(job[w].out)
=============================================================================

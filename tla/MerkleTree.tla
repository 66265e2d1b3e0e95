------------------------------ MODULE MerkleTree ------------------------------
(***************************************************************************)
(* The Merkle trees of the sync engine (sync/merkle.go).                   *)
(*                                                                         *)
(* A path is the sequence of the segments between its slashes, a segment a *)
(* number: "a" is <<1>>, "b/a" is <<2, 1>>.  (Of "/a" the first segment is *)
(* empty, and buildNode does not end; the lists here have no such path.)   *)
(* A file hash is <<h>>, the hash of an empty directory <<"name", path>>,  *)
(* of a directory <<"dir", hashes of its children>>, and no checksum <<>>. *)
(***************************************************************************)
EXTENDS SequencesExt, Naturals

CONSTANTS
  MaxDepth   \* bound: segments of a path

Entry == [path : Seq(Nat), isFile : BOOLEAN, hash : Seq(Nat)]

(* Some total order on paths, as the comparison of strings is one.           *)
Less(p, q) ==
  \E k \in 1 .. Len(p) + 1 :
    /\ \A i \in 1 .. k - 1 : i <= Len(q) /\ p[i] = q[i]
    /\ IF k > Len(p) THEN Len(q) > Len(p) ELSE k <= Len(q) /\ p[k] < q[k]

(* Mutant: the hash of a directory is that of its first child.               *)
FirstHash(children) == <<"dir", IF children = <<>> THEN <<>> ELSE <<children[1].hash>>>>

(* The hashes of the children, written one after the other.                  *)
computeNodeHash(children) ==
  <<"dir", SelectSeq([i \in DOMAIN children |-> children[i].hash], LAMBDA h : h # <<>>)>>

(* Children of the node, in the order of their paths.  Of a folder's own     *)
(* entry and the group of what is in it either may be first, as sort.Slice   *)
(* is not stable: late has the folders whose entry comes after the group.    *)
Ordered(nodes, late) ==
  SetToSortSeq(nodes, LAMBDA a, b : \/ Less(a.path, b.path)
                                    \/ /\ a.path = b.path
                                       /\ (a.children = <<>>) = (a.path \notin late)
                                       /\ (b.children = <<>>) = (b.path \in late))

(* buildNode: an entry whose relative path has no slash is a child, the      *)
(* others are grouped by their first segment.                                *)
buildNode[n \in Nat, prefix \in Seq(Nat), files \in SUBSET Entry, late \in SUBSET Seq(Nat)] ==
  LET Rel(f) == SubSeq(f.path, Len(prefix) + 1, Len(f.path))
      Direct == {f \in files : Len(Rel(f)) = 1}
      Dir(f) == Append(prefix, Head(Rel(f)))
      Leaf(f) == [hash |-> IF f.isFile THEN f.hash ELSE <<"name", f.path>>,
                  path |-> f.path, isFile |-> f.isFile, children |-> <<>>]
      Groups == IF n = 0 THEN {}
                ELSE {buildNode[n - 1, d, {f \in files \ Direct : Dir(f) = d}, late] :
                        d \in {Dir(f) : f \in files \ Direct}}
      Children == Ordered({Leaf(f) : f \in Direct} \cup Groups, late)
  IN  [hash |-> computeNodeHash(Children), path |-> prefix,
       isFile |-> FALSE, children |-> Children]

(* Build: no tree (<<>>) of no entries.                                      *)
Build(files, late) == IF files = {} THEN <<>> ELSE buildNode[MaxDepth, <<>>, files, late]

(* The orders Build may come to.                                             *)
Orders(files) == SUBSET {f.path : f \in {g \in files : ~g.isFile}}

-----------------------------------------------------------------------------
(* The nodes at and below a node, level by level.                            *)
Nodes(node) ==
  LET level[k \in 0 .. MaxDepth] ==
        IF k = 0 THEN {node} ELSE UNION {Range(m.children) : m \in level[k-1]}
  IN  UNION {level[k] : k \in 0 .. MaxDepth}

(* All paths at and below a node: directories too.                           *)
collectPaths(node) == {m.path : m \in Nodes(node)}

(* The paths of files only.                                                  *)
collectAllPaths(node) == {m.path : m \in {k \in Nodes(node) : k.isFile}}

(* Children by path; of two with one path the last.                          *)
ChildAt(node, p) ==
  node.children[Max({i \in DOMAIN node.children : node.children[i].path = p})]
ChildPaths(node) == {c.path : c \in Range(node.children)}

(* What diffNodes reports at one pair of nodes.                              *)
PairDiff(l, r) ==
  CASE l.hash = r.hash -> [added |-> {}, modified |-> {}, deleted |-> {}]
    [] l.hash # r.hash /\ l.isFile /\ r.isFile ->
         [added |-> {}, modified |-> {l.path}, deleted |-> {}]
    [] l.hash # r.hash /\ l.isFile # r.isFile ->
         [added |-> {r.path}, modified |-> {}, deleted |-> {l.path}]
    [] OTHER -> [added |-> UNION {collectPaths(ChildAt(r, p)) : p \in ChildPaths(r) \ ChildPaths(l)},
                 modified |-> {},
                 deleted |-> UNION {collectPaths(ChildAt(l, p)) : p \in ChildPaths(l) \ ChildPaths(r)}]

(* The pairs diffNodes visits: children of one path, where the hashes of two *)
(* directories differ.                                                       *)
diffNodes(local, remote) ==
  LET pairs[k \in 0 .. MaxDepth] ==
        IF k = 0 THEN {<<local, remote>>}
        ELSE UNION {{<<ChildAt(q[1], p), ChildAt(q[2], p)>> :
                        p \in ChildPaths(q[1]) \cap ChildPaths(q[2])} :
                     q \in {s \in pairs[k-1] : /\ s[1].hash # s[2].hash
                                               /\ ~s[1].isFile /\ ~s[2].isFile}}
      Found == {PairDiff(q[1], q[2]) : q \in UNION {pairs[k] : k \in 0 .. MaxDepth}}
  IN  [added |-> UNION {d.added : d \in Found},
       modified |-> UNION {d.modified : d \in Found},
       deleted |-> UNION {d.deleted : d \in Found}]

(* Diff of two trees; nothing is compared below equal root hashes.           *)
Diff(local, remote) == diffNodes(local, remote)

-----------------------------------------------------------------------------
(* The reference: entries path by path.                                     *)

At(files, p) == {f \in files : f.path = p}
PathsOf(files) == {f.path : f \in files}
FileHash(files, p) == {f.hash : f \in {g \in At(files, p) : g.isFile}}

(* No content is at two paths.                                               *)
Unmoved(a, b) == \A f, g \in a \cup b : f.isFile /\ g.isFile /\ f.hash = g.hash => f.path = g.path

(* p is at or below one of the paths.                                        *)
Under(p, paths) == \E q \in paths : IsPrefix(q, p)

(* What d calls modified has two hashes, and what it calls added or deleted  *)
(* is in the tree it is said to be in.                                       *)
DiffWithin(d, a, b) ==
  /\ \A p \in d.modified : FileHash(a, p) # {} /\ FileHash(b, p) # {} /\ FileHash(a, p) # FileHash(b, p)
  /\ \A p \in d.added : \E q \in PathsOf(b) : IsPrefix(p, q)
  /\ \A p \in d.deleted : \E q \in PathsOf(a) : IsPrefix(p, q)

(* What d calls added or deleted is not on the other side, or of another     *)
(* type there.                                                               *)
DiffSound(d, a, b) == \A p \in d.added \cup d.deleted : FileHash(a, p) = {} \/ FileHash(b, p) = {}

(* If no content is at two paths: a file with another hash is modified, and  *)
(* a file that one list lacks is at or below a path added or deleted.  A     *)
(* client that lists nothing is told of the files, and of an empty server    *)
(* nothing is said.                                                          *)
DiffFinds(d, a, b) ==
  Unmoved(a, b) /\ b # {} =>
    \A p \in PathsOf(a \cup b) :
      LET x == FileHash(a, p)  y == FileHash(b, p)
      IN  /\ x # {} /\ y # {} /\ x # y => p \in d.modified
          /\ x = {} /\ y # {} => Under(p, d.added)
          /\ x # {} /\ y = {} => Under(p, d.deleted)
=============================================================================

-------------------------------- MODULE MCSync --------------------------------
(* The sync engine for TLC: a file at the top and one in a folder, and all  *)
(* lists over a small tree of two levels.                                   *)
EXTENDS SyncEngine

MCPaths == {<<1>>, <<2, 1>>}
MCClocks == {[d \in Devices |-> 1]}

(* An entry of path p, as a folder (h = 0) or as a file with hash h.         *)
MCEntry(p, h) == [path |-> p, isFile |-> h # 0, hash |-> IF h = 0 THEN <<>> ELSE <<h>>]
MCOpt(p) == {{}} \cup {{MCEntry(p, h)} : h \in 1 .. 3}

(* Lists with folder entries, as ListAllFiles makes them, and without.       *)
MCFolder == {{MCEntry(<<2>>, 0)} \cup a \cup b : a \in MCOpt(<<2, 1>>), b \in MCOpt(<<2, 2>>)}
MCLists ==
  {a \cup b : a \in MCOpt(<<1>>),
              b \in MCFolder \cup MCOpt(<<2>>) \cup MCOpt(<<2, 1>>)}
(* Single changes of up to two chunks, one of them perhaps named twice, and  *)
(* a file created and changed in one commit.                                 *)
MCChunks == {<<>>} \cup {<<c>> : c \in Chunks} \cup {<<c, e>> : c, e \in Chunks}
MCChange(p, a, cs) == [path |-> p, action |-> a, chunks |-> cs]
MCBatches ==
  {<<MCChange(p, a, cs)>> : p \in Paths, a \in {"add", "modify"}, cs \in MCChunks}
  \cup {<<MCChange(p, "delete", <<>>)>> : p \in Paths}
  \cup {<<MCChange(p, "add", <<c>>), MCChange(p, "modify", <<c>>)>> : p \in Paths, c \in Chunks}

Symmetry == Permutations(Slots)
=============================================================================

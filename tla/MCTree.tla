-------------------------------- MODULE MCTree --------------------------------
(* The file tree for TLC: a folder with a folder and a file in it, and the  *)
(* paths that reach two levels.                                             *)
EXTENDS WebDAV

MCSeeds ==
  {<<[parent |-> Root, name |-> 1, kind |-> "folder", trashed |-> FALSE, link |-> None],
     [parent |-> 1, name |-> 2, kind |-> "folder", trashed |-> FALSE, link |-> None],
     [parent |-> 1, name |-> 1, kind |-> "file", trashed |-> FALSE, link |-> 3]>>}

MCSymmetry == Permutations(Workers)

MCPaths == {<<>>, <<1>>, <<2>>, <<1, 1>>, <<1, 2>>}
=============================================================================

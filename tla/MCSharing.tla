------------------------------ MODULE MCSharing -------------------------------
(* Sharing for TLC: two versions with a chunk in common, one whose row       *)
(* declares the size it has and one that declares less; headers that end     *)
(* within a chunk, at its end and beyond, that are refused and that are      *)
(* misread; the second client only downloads by link.                        *)
EXTENDS Shares

CONSTANTS m1, m2, x, y, c1, c2
MCSizeOf == (x :> 1) @@ (y :> 2)
MCChunksOf == (m1 :> <<x, y>>) @@ (m2 :> <<y>>)
MCSizeBytes == (m1 :> 3) @@ (m2 :> 1)
MCKinds == (c1 :> {"download", "stream", "owner", "chunks"}) @@ (c2 :> {"download"})
Has(f, i, j) == [form |-> f, a |-> i, b |-> j]
MCHeaders ==
  [download |-> {},
   stream |-> {Has("span", 1, 1), Has("span", 0, 0), Has("from", 1, 0), Has("last", 0, 1)},
   owner |-> {Has("span", 0, 1), Has("span", 1, 1), Has("span", 2, 1), Has("from", 1, 0), Has("from", 3, 0),
              Has("last", 0, 2)}]
=============================================================================

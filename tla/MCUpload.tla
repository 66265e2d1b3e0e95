------------------------------ MODULE MCUpload ------------------------------
(* Values of the constants of UploadService for TLC.                        *)
EXTENDS UploadService, TLC

CONSTANTS h1, h2, b1, b2, s1, s2, w1, w2, p1, p2

(* A body of one CDC chunk, and a body of two that shares it.                *)
MCHashesOf == (b1 :> <<h1>>) @@ (b2 :> <<h2, h1>>)

MCHashesOne == (b1 :> <<h1>>)

(* The first session uploads into the root, the others into a folder.        *)
MCTwoPaths == [s \in Sessions |-> IF s = s1 THEN p1 ELSE p2]

(* Every session uploads to one path.                                        *)
MCSamePath == [s \in Sessions |-> p1]

MCFileSymmetry == Permutations(FileIds)

MCSymmetry == Permutations(Workers) \cup Permutations(FileIds)
=============================================================================

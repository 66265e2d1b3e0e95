------------------------------- MODULE MCStorage ------------------------------
(* Storage for TLC.  The backends never meet: the calls and keys of them all *)
(* may have the same names, and be permuted together.  Polynomials of degree *)
(* 3 over bytes of two bits.                                                 *)
EXTENDS Storage, TLC

MCSymmetry == Permutations(Callers) \cup Permutations(Keys) \cup Permutations(Handles)
MCPoly == {0, 1, 3}
MCMaskBits == {0}
MCBytes == {{}, {0}, {1}}
=============================================================================

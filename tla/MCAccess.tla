------------------------------- MODULE MCAccess -------------------------------
(* Access control for TLC: one name, which two ids have one after the       *)
(* other; the second has a second factor.  The parts never meet, so two      *)
(* passwords and two peers, two requests and two servers, two checks and two *)
(* calls may have the same names, and be permuted together.                  *)
EXTENDS AccessControl

CONSTANTS u, v
MCNameOf == [i \in Users |-> CHOOSE n \in Names : TRUE]
Symmetry == Permutations(Passwords) \cup Permutations(Slots) \cup Permutations(Checks)
=============================================================================

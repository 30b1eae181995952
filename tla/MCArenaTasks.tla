---------------------------- MODULE MCArenaTasks ----------------------------
(* Instances of ArenaTasks.                                                  *)
EXTENDS ArenaTasks, TLC

CONSTANTS a1, a2, d1, d2   \* model values

MCSymmetry == Permutations(Agents) \cup Permutations(Loops)
=============================================================================

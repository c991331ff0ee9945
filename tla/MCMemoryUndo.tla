---------------------------- MODULE MCMemoryUndo ----------------------------
(* Instances of MemoryUndo for TLC.                                          *)
EXTENDS MemoryUndo, TLC

CONSTANTS u1, u2, decisions, skills

(* The log of decisions takes the first lines, another file the next ...      *)
MCHome == [l \in Line |-> IF l % 2 = 1 THEN decisions ELSE skills]

Symmetry == Permutations(Users)
=============================================================================

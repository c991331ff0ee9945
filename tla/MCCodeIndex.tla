---------------------------- MODULE MCCodeIndex ----------------------------
(* `codevira index`, run now and then on two files.                          *)
EXTENDS CodeIndex, TLC

CONSTANTS f, g

MCFiles == {f, g}
MCInside == {}
(* Of each file one version imports the other.                               *)
MCImports == (f :> [v \in 0 .. 2 |-> IF v = 1 THEN {g} ELSE {}])
               @@ (g :> [v \in 0 .. 2 |-> IF v = 2 THEN {f} ELSE {}])
=============================================================================

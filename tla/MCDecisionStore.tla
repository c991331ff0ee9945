-------------------------- MODULE MCDecisionStore --------------------------
(* Values for the constants of DecisionStore.                                *)
EXTENDS DecisionStore, TLC

CONSTANTS c1, c2, c3, p1, p2

MCClients == {c1, c2, c3}
(* Two threads of one server and a client of another process.                *)
MCProcOf == (c1 :> p1) @@ (c2 :> p1) @@ (c3 :> p2)

(* mark_protected, and mark_outdated or the set_flag that unprotects as well. *)
MCFlagSets == {"dnr" :> TRUE, ("dnr" :> FALSE) @@ ("out" :> TRUE)}

(* The threads of one server are alike.                                      *)
MCSymmetry == Permutations({c1, c2})
=============================================================================

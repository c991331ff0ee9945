------------------------------ MODULE Wording ------------------------------
(* When two decisions say the same: mcp_server/storage/reconcile.py.  A text is *)
(* the set of its words.                                                     *)
EXTENDS Integers, FiniteSets

CONSTANT Negations

(* Shares of at least 0.60: of the union, and of the smaller text.           *)
Jaccard60(a, b) == 5 * Cardinality(a \cap b) >= 3 * Cardinality(a \cup b)
Overlap60(a, b) ==
  /\ a # {} /\ b # {}
  /\ \E s \in {a, b} : 5 * Cardinality(a \cap b) >= 3 * Cardinality(s)

NegationDisagrees(a, b) == ((a \cup b) \ (a \cap b)) \cap Negations # {}

Classify(a, b, protected) ==
  IF NegationDisagrees(a, b) /\ (Jaccard60(a, b) \/ Overlap60(a, b)) THEN "conflict"
  ELSE IF Jaccard60(a, b) THEN "duplicate"
  ELSE IF Overlap60(a, b) /\ Cardinality(a \cap b) >= 3 /\ protected THEN "conflict"
  ELSE "distinct"
=============================================================================

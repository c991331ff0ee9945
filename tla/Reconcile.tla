----------------------------- MODULE Reconcile -----------------------------
(***************************************************************************)
(* The search for decisions that say the same in different words:          *)
(* mcp_server/storage/reconcile.py, called by `codevira reconcile` and by   *)
(* the health report.  cluster_store compares every pair of records, joins  *)
(* duplicates with a union-find and collects conflicts; pick_canonical then *)
(* chooses the record that each cluster would be merged into.  A record is  *)
(* a text and its do_not_revert.                                            *)
(***************************************************************************)
EXTENDS Sequences, Wording

CONSTANTS
  Texts,
  Citing,       \* the pairs <<i, j>>, i < j, that may cite one another
  MaxRecords, MaxCites

ASSUME ReconcileAssumption == MaxRecords \in Nat

VARIABLES
  records,    \* in the order of their ids
  cites,      \* the pairs <<i, j>>, i < j, one of which names the id of the other
  pair,       \* the next pair to compare
  parent, conflicts
rvars == <<records, cites, pair, parent, conflicts>>

Kind(i, j) ==
  Classify(records[i].text, records[j].text, records[i].dnr \/ records[j].dnr)

N == Len(records)

RInit ==
  /\ records \in UNION {[1 .. n -> [text : Texts, dnr : BOOLEAN]] : n \in 2 .. MaxRecords}
  /\ cites \in {C \in SUBSET {p \in Citing : p[2] <= N} : Cardinality(C) <= MaxCites}
  /\ pair = <<1, 2>>
  /\ parent = [i \in 1 .. N |-> i]
  /\ conflicts = {}

(* find: the halving of the paths it walks leaves every root as it is.       *)
Leads(root) == \A i \in 1 .. N : root[i] = IF parent[i] = i THEN i ELSE root[parent[i]]
Roots == CHOOSE root \in [1 .. N -> 1 .. N] : Leads(root)
Root(i) == Roots[i]

(* Mutant: the records are joined, not their roots.                          *)
UnionDirect(i, j) == [parent EXCEPT ![j] = i]

Union(i, j) ==
  LET a == Root(i)  b == Root(j) IN
  IF a = b THEN parent
  ELSE [parent EXCEPT ![IF a > b THEN a ELSE b] = IF a > b THEN b ELSE a]

(* A pair that cites one another is related, not duplicated.                 *)
ComparePair ==
  LET i == pair[1]  j == pair[2] IN
  /\ i < N
  /\ pair' = IF j < N THEN <<i, j + 1>> ELSE <<i + 1, i + 2>>
  /\ parent' = IF pair \notin cites /\ Kind(i, j) = "duplicate" THEN Union(i, j) ELSE parent
  /\ conflicts' = IF pair \notin cites /\ Kind(i, j) = "conflict"
                  THEN conflicts \cup {pair} ELSE conflicts
  /\ UNCHANGED <<records, cites>>

RNext == ComparePair
RSpec == RInit /\ [][RNext]_rvars

Done == pair[1] >= N

Members(r) == LET root == Roots IN {i \in 1 .. N : root[i] = r}
Merges == {M \in {Members(r) : r \in 1 .. N} : Cardinality(M) > 1}

(* Mutant: age alone decides.                                                *)
CanonicalOldest(M) == CHOOSE i \in M : \A j \in M : i <= j

(* pick_canonical: protected first, then the oldest.                         *)
Canonical(M) ==
  CHOOSE i \in M : \A j \in M \ {i} :
    \/ records[i].dnr /\ ~records[j].dnr
    \/ records[i].dnr = records[j].dnr /\ i < j

Ambiguous(M) == Cardinality({records[i].text : i \in {j \in M : records[j].dnr}}) > 1

-----------------------------------------------------------------------------
DuplicatePair(i, j) ==
  LET p == IF i < j THEN <<i, j>> ELSE <<j, i>> IN
  i # j /\ p \notin cites /\ Kind(p[1], p[2]) = "duplicate"

Closed(S) == \A i \in S : \A j \in 1 .. N : DuplicatePair(i, j) => j \in S

(* At the end two records share a root just when a chain of duplicate pairs    *)
(* leads from one to the other, whatever the order in which pairs were met:  *)
(* the union-find of cluster_store computes the closure, and a cluster is the  *)
(* least set with the record that no such pair leaves.                      *)
ChainsMeet ==
  Done => \A i \in 1 .. N :
    LET cluster == Members(Root(i)) IN
    /\ i \in cluster /\ Closed(cluster)
    /\ \A S \in SUBSET (1 .. N) : i \in S /\ Closed(S) => cluster \subseteq S

(* No lock is lost by a merge: a protected decision is merged away into a       *)
(* protected one, and into one with other words only if that is reported.     *)
LocksSurviveMerges ==
  Done => \A M \in Merges : \A i \in M :
    records[i].dnr => LET c == records[Canonical(M)] IN
                      c.dnr /\ (c.text = records[i].text \/ Ambiguous(M))

(* cluster_store computes the closure of the duplicate pairs, and a merge loses *)
(* no lock.                                                                  *)
ClustersAreChains == ChainsMeet /\ LocksSurviveMerges

(* What is reported as a contradiction is not offered as a merge as well       *)
(* ("these CONTRADICT, never merged").  It may be, through a third record.       *)
ConflictsStayApart == Done => \A c \in conflicts : Root(c[1]) # Root(c[2])
=============================================================================

---------------------------- MODULE AbstractLog ----------------------------
(***************************************************************************)
(* What the callers of jsonl_store are promised, with no locks, inodes or  *)
(* threads: a set of records that grows by whole blobs under ids nobody    *)
(* has, from which a compaction takes what it is told to take, in which a  *)
(* repair renumbers only records that share an id, and that holds whatever *)
(* a returned append wrote.                                                *)
(***************************************************************************)
EXTENDS Integers

CONSTANTS Rec, SeedLogs

VARIABLES log, removed, returned
vars == <<log, removed, returned>>

Init == log \in SeedLogs /\ removed = {} /\ returned = {}

Taken == {r.num : r \in log} \ {0}

Add ==
  /\ log \subseteq log'
  /\ \A r \in log' \ log : r \in Rec /\ r.num \notin Taken
  /\ UNCHANGED <<removed, returned>>

Return ==
  /\ returned \subseteq returned'
  /\ returned' \subseteq log \cup removed
  /\ UNCHANGED <<log, removed>>

Drop ==
  /\ log' \subseteq log
  /\ removed' = removed \cup (log \ log')
  /\ UNCHANGED returned

Shared(r) == \E s \in log : s # r /\ s.num = r.num

(* Exactly the records that leave under a shared number come back without it. *)
Renumber ==
  /\ \A r \in log \ log' : Shared(r) /\ [r EXCEPT !.num = 0] \in log'
  /\ \A r \in log' \ log : r.num = 0 /\ \E s \in log \ log' : r = [s EXCEPT !.num = 0]
  /\ UNCHANGED <<removed, returned>>

Next == Add \/ Return \/ Drop \/ Renumber
Spec == Init /\ [][Next]_vars
=============================================================================

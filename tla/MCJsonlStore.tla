--------------------------- MODULE MCJsonlStore ---------------------------
(* Values for the constants of JsonlStore.                                  *)
EXTENDS JsonlStore, TLC

CONSTANTS w1, w2, w3, p1, p2

MCWorkers == {w1, w2, w3}
MCProcs   == {p1, p2}

(* Three threads of one server process.                                     *)
OneProcess == [w \in MCWorkers |-> p1]

(* Two threads of one server, and another process (an IDE, a CLI, a hook).   *)
TwoProcesses == (w1 :> p1) @@ (w2 :> p1) @@ (w3 :> p2)

(* Every call there is, shared out among the three threads.                 *)
SharedOut ==
  (w1 :> {"append_with_generated_id", "read_all"})
    @@ (w2 :> {"append_with_generated_id", "compact"})
    @@ (w3 :> {"append", "append_many", "transform_all"})

(* Appends and reads only, for runs in which several processes take part.   *)
NoRewrites ==
  (w1 :> {"append_with_generated_id", "read_all"})
    @@ (w2 :> {"append_with_generated_id"})
    @@ (w3 :> Ops \ Rewrites)

(* Two processes mint ids; one of them also writes batches.                  *)
Minting ==
  (w1 :> {"append_with_generated_id"})
    @@ (w2 :> {"append_many"})
    @@ (w3 :> {"append_with_generated_id"})

(* One process mints ids while the other repairs them and mints.             *)
MintAndRepair ==
  (w1 :> {"append_with_generated_id"})
    @@ (w2 :> {})
    @@ (w3 :> {"transform_all", "append_with_generated_id"})

(* Calls alone: no process is killed, and no write stops half way.            *)
CallsNext ==
  \/ Exhausted
  \/ \E w \in Workers, o \in Ops : Call(w, o)
  \/ \E w \in Workers : Step(w)
CallsSpec == Init /\ [][CallsNext]_vars

InodeSymmetry == Permutations(Inodes)

Seed(part, num) == [call |-> 0, part |-> part, num |-> num]

(* A file two clones merged: both had minted number 1.                      *)
CollidedSeed ==
  [ok |-> {Seed(1, 1), Seed(2, 1)}, bad |-> {}, torn |-> FALSE, open |-> {}]
(* An ordinary file.                                                         *)
PlainSeed == [ok |-> {Seed(1, 1)}, bad |-> {}, torn |-> FALSE, open |-> {}]

CollidedSeeds == {CollidedSeed}
PlainSeeds == {PlainSeed}
=============================================================================

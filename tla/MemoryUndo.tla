----------------------------- MODULE MemoryUndo -----------------------------
(***************************************************************************)
(* Snapshots of a project's .codevira/ and their restoration:              *)
(* mcp_server/memory_undo.py, called by `codevira memory snapshot` and     *)
(* `codevira memory undo`.  Every call is a process of its own and holds   *)
(* no lock; agents go on appending to the store meanwhile; a process may   *)
(* be killed between any two steps.                                        *)
(*                                                                         *)
(* A directory is a function from the files in it to the lines in each.    *)
(* shutil.copytree lists a directory and then copies its files one by one, *)
(* in any order; rmtree removes them one by one; a rename is atomic and    *)
(* fails on a directory that has files.  What happens to a private         *)
(* directory, and clearing one just before it is filled, is one step.      *)
(***************************************************************************)
EXTENDS Integers, FiniteSets

CONSTANTS
  Users,         \* processes that take snapshots or restore them
  File,
  Home,          \* Home[l]: the file that line l is appended to
  MaxSnapshots,
  Faults,        \* subset of {"in", "out"}: copies into a snapshot, or out
                 \* of one, may fail with an OSError
  MaxLine,       \* bound: lines are 1 .. MaxLine, appended in this order
  MaxSeed,       \* bound: lines written before
  MaxCalls,      \* bound: calls made
  MaxCrashes     \* bound: processes killed

Line == 1 .. MaxLine

(* Fewer snapshots are taken here than are kept, so that the snapshots of one *)
(* behaviour do not push each other out; they push out the older ones.        *)
ASSUME UndoAssumption ==
  /\ MaxLine \in Nat /\ MaxSeed \in 0 .. MaxLine
  /\ Home \in [Line -> File]
  /\ MaxSnapshots \in Nat \ {0} /\ MaxCalls \in 0 .. MaxSnapshots
  /\ MaxCrashes \in Nat
  /\ Faults \subseteq {"in", "out"}

IsDirectory(d) == DOMAIN d \subseteq File /\ d \in [DOMAIN d -> SUBSET Line]
Path == {"store", "previous", "restoring"}  \* .codevira, .codevira.previous, ...
Name == Nat \X Nat            \* a second, and the suffix that tells names of it apart
NoName == <<0, 0>>

(* A call and its locals: the snapshot to restore, the name of the one it     *)
(* takes, the files still to copy, the snapshots still to prune.  `goal`,     *)
(* `base` and `alone` are history: what was chosen held when the call began,  *)
(* what the store held when the copy began, and whether no other call ran     *)
(* meanwhile.                                                                 *)
Call == [op : {"snapshot", "undo"}, chosen : Name, name : Name, todo : SUBSET File,
         doomed : SUBSET Name, goal : SUBSET Line, base : SUBSET Line, alone : BOOLEAN]
Asked(op, chosen, goal, alone) ==
  [op |-> op, chosen |-> chosen, name |-> NoName, todo |-> {}, doomed |-> {},
   goal |-> goal, base |-> {}, alone |-> alone]
NoCall == Asked("snapshot", NoName, {}, FALSE)

VARIABLES
  dirs,      \* the directories of the project that exist
  snaps,     \* the snapshots, by name
  partial,   \* the unfinished ones: .<name>.partial
  clock,
  pc, call,
  acked,     \* lines that were written
  calls, crashes,
  (* history *)
  held,      \* held[n]: what snapshot n should hold, {} when not known
  late,      \* lines appended while an undo ran, after its safety copy had begun
  forgotten, \* lines of which the last copy was in a snapshot that was pruned
  missing,   \* what the store held when an undo that ran alone moved it away
  marred     \* two calls have been copying into one directory

history == <<held, late, forgotten, missing, marred>>
vars == <<dirs, snaps, partial, clock, pc, call, acked, calls, crashes, history>>

-----------------------------------------------------------------------------
Lines(d) == UNION {d[f] : f \in DOMAIN d}
Stored == IF "store" \in DOMAIN dirs THEN Lines(dirs["store"]) ELSE {}
Captured == UNION {Lines(snaps[n]) : n \in DOMAIN snaps}

Empty == [f \in {} |-> {}]
With(fun, x, y) == [z \in DOMAIN fun \cup {x} |-> IF z = x THEN y ELSE fun[z]]
Without(fun, x) == [z \in DOMAIN fun \ {x} |-> fun[z]]
Holding(S) == [f \in File |-> {l \in S : Home[l] = f}]
Occupied(p) == p \in DOMAIN dirs /\ DOMAIN dirs[p] # {}

(* sorted() on the names; the suffixes have one digit.                        *)
Before(m, n) == m[1] < n[1] \/ (m[1] = n[1] /\ m[2] < n[2])

(* Mutant: list_snapshots() starts with the oldest.                           *)
NewestIsLast(N) == CHOOSE n \in N : \A m \in N \ {n} : Before(n, m)

Newest(N) == CHOOSE n \in N : \A m \in N \ {n} : Before(m, n)

(* Mutant: the newest are pruned.                                            *)
BeyondNewest(N) == {n \in N : Cardinality({m \in N : Before(m, n)}) >= MaxSnapshots}

(* snaps[:-MAX_SNAPSHOTS]                                                     *)
Beyond(N) == {n \in N : Cardinality({m \in N : Before(n, m)}) >= MaxSnapshots}

(* dest, dest-1, ...: only finished snapshots are looked for.                 *)
Free(t) == CHOOSE n \in 0 .. Cardinality(DOMAIN snaps) :
             <<t, n>> \notin DOMAIN snaps /\ \A k \in 0 .. n - 1 : <<t, k>> \in DOMAIN snaps

-----------------------------------------------------------------------------
(* Snapshots of earlier days hold what the store held then; the store may be  *)
(* lost.                                                                      *)
Init ==
  /\ \E old \in 0 .. MaxSnapshots :
       snaps = [n \in {0} \X (1 .. old) |-> Holding(1 .. IF n[2] < MaxSeed THEN n[2] ELSE MaxSeed)]
  /\ dirs \in {[p \in {"store"} |-> Holding(1 .. MaxSeed)], [p \in {} |-> Empty]}
  /\ partial = [n \in {} |-> Empty]
  /\ clock = 1
  /\ pc = [u \in Users |-> "idle"]
  /\ call = [u \in Users |-> NoCall]
  /\ acked = Stored \cup Captured
  /\ calls = 0 /\ crashes = 0
  /\ held = [n \in DOMAIN snaps |-> Lines(snaps[n])]
  /\ late = {} /\ forgotten = {} /\ missing = {} /\ marred = FALSE

Goto(u, label) == pc' = [pc EXCEPT ![u] = label]
Keep(u, c) == call' = [call EXCEPT ![u] = c]
Return(u) == Goto(u, "idle") /\ Keep(u, NoCall)

Active(u) == pc[u] # "idle"

(* cmd_memory; restore() refuses a name that is not listed.                   *)
Begin(u) ==
  /\ ~Active(u)
  /\ calls < MaxCalls
  /\ calls' = calls + 1
  /\ LET alone == \A v \in Users : ~Active(v) IN
       \E mine \in {Asked("snapshot", NoName, {}, alone)}
                   \cup {Asked("undo", n, Lines(snaps[n]), alone) : n \in DOMAIN snaps} :
         call' = [v \in Users |-> IF v = u THEN mine
                                  ELSE [call[v] EXCEPT !.alone = FALSE]]
  /\ Goto(u, "name")
  /\ UNCHANGED <<dirs, snaps, partial, clock, acked, crashes, history>>

(* take() returned, a snapshot or None: restore() goes on with either.        *)
Taken(u) ==
  IF call[u].op = "undo" THEN Goto(u, "stage") /\ Keep(u, [call[u] EXCEPT !.todo = {}, !.doomed = {}])
                         ELSE Return(u)

(* take(): a name that is free, a staging directory, and the files to copy.   *)
ChooseName(u) ==
  /\ pc[u] = "name"
  /\ IF "store" \in DOMAIN dirs
     THEN \E t \in {clock, clock + 1} :
            LET name == <<t, Free(t)>> IN
            /\ t <= MaxCalls
            /\ clock' = t
            /\ partial' = With(partial, name, Empty)
            /\ Keep(u, [call[u] EXCEPT !.name = name, !.todo = DOMAIN dirs["store"], !.base = Stored])
            /\ Goto(u, "copyin")
            /\ marred' = (marred \/ \E v \in Users \ {u} : pc[v] = "copyin" /\ call[v].name = name)
     ELSE Taken(u) /\ UNCHANGED <<partial, clock, marred>>
  /\ UNCHANGED <<dirs, snaps, acked, calls, crashes, held, late, forgotten, missing>>

CopyIn(u) ==
  /\ pc[u] = "copyin"
  /\ \E f \in call[u].todo :
       LET name == call[u].name IN
       \/ /\ "store" \in DOMAIN dirs /\ f \in DOMAIN dirs["store"] /\ name \in DOMAIN partial
          /\ partial' = [partial EXCEPT ![name] = With(@, f, dirs["store"][f])]
          /\ Keep(u, [call[u] EXCEPT !.todo = @ \ {f}])
          /\ UNCHANGED pc
       \/ /\ \/ "in" \in Faults
             \/ ~("store" \in DOMAIN dirs /\ f \in DOMAIN dirs["store"] /\ name \in DOMAIN partial)
          /\ Taken(u)
          /\ UNCHANGED partial
  /\ UNCHANGED <<dirs, snaps, clock, acked, calls, crashes, history>>

(* The manifest and staging.rename(dest).                                     *)
Publish(u) ==
  /\ pc[u] = "copyin" /\ call[u].todo = {}
  /\ LET name == call[u].name IN
     IF name \in DOMAIN partial /\ name \notin DOMAIN snaps
     THEN /\ snaps' = With(snaps, name, partial[name])
          /\ partial' = Without(partial, name)
          /\ held' = With(held, name, IF call[u].alone THEN call[u].base ELSE {})
          /\ Goto(u, "prune") /\ UNCHANGED call
     ELSE Taken(u) /\ UNCHANGED <<snaps, partial, held>>
  /\ UNCHANGED <<dirs, clock, acked, calls, crashes, late, forgotten, missing, marred>>

(* _prune: the snapshots to remove are listed once ...                        *)
ListOld(u) ==
  /\ pc[u] = "prune"
  /\ Goto(u, "remove")
  /\ Keep(u, [call[u] EXCEPT !.doomed = Beyond(DOMAIN snaps)])
  /\ UNCHANGED <<dirs, snaps, partial, clock, acked, calls, crashes, history>>

(* Lines that u can remove from an old snapshot, which it has in the store:   *)
(* when it runs alone; otherwise they may be there only since another call    *)
(* restored that snapshot, after u had copied the store.                      *)
Elsewhere(u) == IF call[u].alone THEN Stored ELSE {}

(* ... and removed file by file, the directory with the last of them.         *)
RemoveOld(u) ==
  /\ pc[u] = "remove"
  /\ IF call[u].doomed = {}
     THEN Taken(u) /\ UNCHANGED <<snaps, held, forgotten>>
     ELSE /\ \E n \in call[u].doomed :
               /\ IF n \in DOMAIN snaps /\ Cardinality(DOMAIN snaps[n]) > 1
                  THEN /\ \E f \in DOMAIN snaps[n] : snaps' = [snaps EXCEPT ![n] = Without(@, f)]
                       /\ UNCHANGED <<call, held>>
                  ELSE /\ snaps' = Without(snaps, n)
                       /\ held' = Without(held, n)
                       /\ Keep(u, [call[u] EXCEPT !.doomed = @ \ {n}])
               /\ forgotten' = forgotten \cup ((Captured \ Captured') \ Elsewhere(u))
          /\ UNCHANGED pc
  /\ UNCHANGED <<dirs, partial, clock, acked, calls, crashes, late, missing, marred>>

-----------------------------------------------------------------------------
(* restore(), after the safety copy.  An exception ends it, and leaves the    *)
(* directories as they are.                                                   *)

Stage(u) ==
  /\ pc[u] = "stage"
  /\ IF call[u].chosen \in DOMAIN snaps
     THEN /\ dirs' = With(dirs, "restoring", Empty)
          /\ Keep(u, [call[u] EXCEPT !.todo = DOMAIN snaps[call[u].chosen]])
          /\ Goto(u, "copyout")
     ELSE dirs' = Without(dirs, "restoring") /\ Return(u)
  /\ UNCHANGED <<snaps, partial, clock, acked, calls, crashes, history>>

(* Mutant: the newest snapshot is looked for again, and is the safety copy by now. *)
CopyOutNewest(u) ==
  /\ pc[u] = "copyout"
  /\ \E f \in call[u].todo :
       LET n == Newest(DOMAIN snaps)
           found == f \in DOMAIN snaps[n] /\ "restoring" \in DOMAIN dirs
       IN /\ found
          /\ dirs' = [dirs EXCEPT !["restoring"] = With(@, f, snaps[n][f])]
          /\ Keep(u, [call[u] EXCEPT !.todo = @ \ {f}])
          /\ UNCHANGED pc
  /\ UNCHANGED <<snaps, partial, clock, acked, calls, crashes, history>>

CopyOut(u) ==
  /\ pc[u] = "copyout"
  /\ \E f \in call[u].todo :
       LET n == call[u].chosen
           found == n \in DOMAIN snaps /\ f \in DOMAIN snaps[n] /\ "restoring" \in DOMAIN dirs
       IN \/ /\ found
             /\ dirs' = [dirs EXCEPT !["restoring"] = With(@, f, snaps[n][f])]
             /\ Keep(u, [call[u] EXCEPT !.todo = @ \ {f}])
             /\ UNCHANGED pc
          \/ /\ "out" \in Faults \/ ~found
             /\ Return(u)
             /\ UNCHANGED dirs
  /\ UNCHANGED <<snaps, partial, clock, acked, calls, crashes, history>>

(* rmtree of .codevira.previous, left behind by a restore that was killed.    *)
Clear(u) ==
  /\ pc[u] = "copyout" /\ call[u].todo = {}
  /\ dirs' = Without(dirs, "previous")
  /\ Goto(u, "aside")
  /\ UNCHANGED <<snaps, partial, clock, call, acked, calls, crashes, history>>

(* if dest.exists(): dest.rename(previous)                                    *)
Aside(u) ==
  /\ pc[u] = "aside"
  /\ \/ /\ "store" \notin DOMAIN dirs
        /\ Goto(u, "swap")
        /\ UNCHANGED <<dirs, call, missing>>
     \/ /\ "store" \in DOMAIN dirs /\ ~Occupied("previous")
        /\ dirs' = With(Without(dirs, "store"), "previous", dirs["store"])
        /\ missing' = IF call[u].alone THEN Stored ELSE {}
        /\ Goto(u, "swap")
        /\ UNCHANGED call
     \/ /\ "store" \in DOMAIN dirs /\ Occupied("previous")
        /\ Return(u)
        /\ UNCHANGED <<dirs, missing>>
  /\ UNCHANGED <<snaps, partial, clock, acked, calls, crashes, held, late, forgotten, marred>>

(* staging.rename(dest)                                                       *)
Swap(u) ==
  /\ pc[u] = "swap"
  /\ IF "restoring" \in DOMAIN dirs /\ ~Occupied("store")
     THEN /\ dirs' = With(Without(dirs, "restoring"), "store", dirs["restoring"])
          /\ missing' = {}
          /\ Goto(u, "drop")
          /\ UNCHANGED call
     ELSE Return(u) /\ UNCHANGED <<dirs, missing>>
  /\ UNCHANGED <<snaps, partial, clock, acked, calls, crashes, held, late, forgotten, marred>>

Drop(u) ==
  /\ pc[u] = "drop"
  /\ dirs' = Without(dirs, "previous")
  /\ Return(u)
  /\ UNCHANGED <<snaps, partial, clock, acked, calls, crashes, history>>

-----------------------------------------------------------------------------
(* jsonl_store.append, which makes the directory when there is none.          *)
AppendLine ==
  /\ \E l \in Line \ acked :
       LET store == IF "store" \in DOMAIN dirs THEN dirs["store"] ELSE Empty
           old == IF Home[l] \in DOMAIN store THEN store[Home[l]] ELSE {}
       IN /\ l - 1 \in acked \cup {0}
          /\ dirs' = With(dirs, "store", With(store, Home[l], old \cup {l}))
          /\ acked' = acked \cup {l}
          /\ late' = IF \E u \in Users : call[u].op = "undo" /\ pc[u] \notin {"idle", "name"}
                     THEN late \cup {l} ELSE late
  /\ missing' = {}
  /\ UNCHANGED <<snaps, partial, clock, pc, call, calls, crashes, held, forgotten, marred>>

(* External: a process is killed.                                             *)
Crash(u) ==
  /\ Active(u)
  /\ crashes < MaxCrashes
  /\ crashes' = crashes + 1
  /\ Return(u)
  /\ UNCHANGED <<dirs, snaps, partial, clock, acked, calls, history>>

Next ==
  \/ \E u \in Users :
       \/ Begin(u) \/ ChooseName(u) \/ CopyIn(u) \/ Publish(u) \/ ListOld(u) \/ RemoveOld(u)
       \/ Stage(u) \/ CopyOut(u) \/ Clear(u) \/ Aside(u) \/ Swap(u) \/ Drop(u)
       \/ Crash(u)
  \/ AppendLine

Spec == Init /\ [][Next]_vars

-----------------------------------------------------------------------------
(* Types; and pruning keeps up: beyond MAX_SNAPSHOTS there are only those     *)
(* snapshots whose takers are still at it or were killed.                     *)
TypeOK ==
  /\ DOMAIN dirs \subseteq Path /\ \A p \in DOMAIN dirs : IsDirectory(dirs[p])
  /\ DOMAIN snaps \subseteq Name /\ \A n \in DOMAIN snaps : IsDirectory(snaps[n])
  /\ DOMAIN partial \subseteq Name /\ \A n \in DOMAIN partial : IsDirectory(partial[n])
  /\ clock \in Nat
  /\ pc \in [Users -> {"idle", "name", "copyin", "prune", "remove", "stage", "copyout",
                       "aside", "swap", "drop"}]
  /\ \A u \in Users :
       /\ DOMAIN call[u] = DOMAIN NoCall
       /\ call[u].op \in {"snapshot", "undo"} /\ call[u].todo \subseteq File
       /\ {call[u].chosen, call[u].name} \subseteq Name /\ call[u].doomed \subseteq Name
       /\ (call[u].goal \cup call[u].base) \subseteq Line /\ call[u].alone \in BOOLEAN
  /\ acked \subseteq Line
  /\ calls \in 0 .. MaxCalls /\ crashes \in 0 .. MaxCrashes
  /\ DOMAIN held = DOMAIN snaps /\ \A n \in DOMAIN held : held[n] \subseteq Line
  /\ (late \cup forgotten \cup missing) \subseteq Line /\ marred \in BOOLEAN
  /\ Cardinality(DOMAIN snaps)
       <= MaxSnapshots + crashes + Cardinality({u \in Users : pc[u] \in {"prune", "remove"}})

(* "A rollback tool that can destroy data is worse than no rollback tool":    *)
(* whatever was written is in the store or in a snapshot, through every       *)
(* interleaving of snapshots, undos, appends and kills.  Excepted are lines   *)
(* appended while an undo runs, lines that went with an old snapshot, and two *)
(* calls that chose the same name in the same second.                         *)
NothingDestroyed == marred \/ acked \ (late \cup forgotten) \subseteq Stored \cup Captured

(* A restore that reports success and ran alone has made the store what the   *)
(* chosen snapshot held, whatever an earlier one left behind, except for what *)
(* was appended meanwhile.                                                    *)
RestoredIsChosen ==
  \A u \in Users : pc[u] = "drop" /\ call[u].alone =>
    call[u].goal \subseteq Stored /\ Stored \ call[u].goal \subseteq late

(* When an undo was killed after it moved the store away, undoing to the      *)
(* newest snapshot, as `codevira memory undo` does, brings back what the      *)
(* store held.                                                                *)
GoneComesBack ==
  "store" \notin DOMAIN dirs /\ missing # {} =>
    missing \ late \subseteq Lines(snaps[Newest(DOMAIN snaps)])

(* Undoing brings back what was chosen, and what an undo that was killed took    *)
(* away.                                                                     *)
UndoRestores == RestoredIsChosen /\ GoneComesBack
=============================================================================

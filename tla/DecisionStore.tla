--------------------------- MODULE DecisionStore ---------------------------
(***************************************************************************)
(* The life of a decision in one clone: mcp_server/storage/                *)
(* decisions_store.py, called by clients that are threads of one or more   *)
(* MCP servers, CLI commands and hooks of the same project.                *)
(*                                                                         *)
(* Every mutation first looks at the merged view, which a process caches   *)
(* under the file's mtime and size, decides, and then appends: there is no *)
(* lock over the two.  supersede appends twice.  The log is taken here as  *)
(* what AbstractLog promises: appends are atomic, and an id is minted with *)
(* the append.                                                             *)
(***************************************************************************)
EXTENDS Integers, Sequences, FiniteSets, FiniteSetsExt

CONSTANTS
  Clients, Procs, ProcOf,
  FlagSets,    \* what set_flag, mark_protected and mark_outdated are asked to set
  NewFlags,    \* the do_not_revert that record and supersede are asked for
  MaxSeed,     \* bound: decisions recorded before
  MaxCalls,    \* bound: calls made
  MaxCrashes   \* bound: processes killed

Flags == {"dnr", "out"}      \* do_not_revert, is_outdated
Updates == UNION {[S -> BOOLEAN] : S \in SUBSET Flags}
Nothing == [f \in {} |-> FALSE]

ASSUME StoreAssumption ==
  /\ ProcOf \in [Clients -> Procs]
  /\ FlagSets \subseteq Updates /\ NewFlags \subseteq BOOLEAN
  /\ MaxSeed \in Nat /\ MaxCalls \in Nat /\ MaxCrashes \in Nat

(* A row is a base record or an amendment of the decision `id`; `next` is its *)
(* superseded_by, 0 when it has none.  `begin` and `forced` are history: how  *)
(* long the log was when the call began, and whether it said force=True.      *)
Row == [id : Nat, base : BOOLEAN, set : Updates, next : Nat, begin : Nat, forced : BOOLEAN]

(* What a client was asked, and its locals: what stat() said, how much of the *)
(* log it then read, and the id that record() returned.                       *)
Call == [op : {"record", "supersede", "flag"}, id : Nat, set : Updates, force : BOOLEAN,
         begin : Nat, stamp : Nat, seen : Nat, new : Nat]
Request(op, id, set, force, since) ==
  [op |-> op, id |-> id, set |-> set, force |-> force,
   begin |-> since, stamp |-> 0, seen |-> 0, new |-> 0]
NoCall == Request("record", 0, Nothing, FALSE, 0)
Uncached == [stamp |-> 0, rows |-> 0]

VARIABLES
  log,     \* decisions.jsonl
  cache,   \* cache[p]: the merged view p keeps: the file's length when it was
           \* looked at, and the length of what was read
  pc, call,
  calls, crashes

vars == <<log, cache, pc, call, calls, crashes>>

-----------------------------------------------------------------------------
(* read_merged: the fold of a log's amendments into its base records.        *)

Ids(l) == {l[i].id : i \in {j \in DOMAIN l : l[j].base}}

Setters(l, id, f) == {i \in DOMAIN l : l[i].id = id /\ f \in DOMAIN l[i].set}

(* Later amendments win.                                                     *)
Flag(l, id, f) == l[Max(Setters(l, id, f))].set[f]

Protected(l) == {id \in Ids(l) : Flag(l, id, "dnr")}

Links(l, id) == {i \in DOMAIN l : l[i].id = id /\ l[i].next # 0}
Superseded(l) == {id \in Ids(l) : Links(l, id) # {}}
Successor(l, id) == l[Max(Links(l, id))].next

Retiring(set) == "out" \in DOMAIN set /\ set["out"]

Prefix(k) == SubSeq(log, 1, k)

-----------------------------------------------------------------------------
NewDecision(id, dnr, since) ==
  [id |-> id, base |-> TRUE, set |-> [f \in Flags |-> f = "dnr" /\ dnr], next |-> 0,
   begin |-> since, forced |-> FALSE]

Init ==
  /\ \E n \in 0 .. MaxSeed : \E dnr \in [1 .. n -> BOOLEAN] :
       log = [i \in 1 .. n |-> NewDecision(i, dnr[i], 0)]
  /\ cache = [p \in Procs |-> Uncached]
  /\ pc = [c \in Clients |-> "idle"]
  /\ call = [c \in Clients |-> NoCall]
  /\ calls = 0 /\ crashes = 0

Goto(c, label) == pc' = [pc EXCEPT ![c] = label]

Return(c) ==
  /\ Goto(c, "idle")
  /\ call' = [call EXCEPT ![c] = NoCall]

Asked(c, op, id, set, force) ==
  call' = [call EXCEPT ![c] = Request(op, id, set, force, Len(log))]

(* Callers name decisions that they have seen; force=True matters only to a   *)
(* retirement.                                                               *)
Begin(c) ==
  /\ pc[c] = "idle"
  /\ calls < MaxCalls
  /\ calls' = calls + 1
  /\ \/ /\ \E dnr \in NewFlags : Asked(c, "record", 0, [f \in {"dnr"} |-> dnr], FALSE)
        /\ Goto(c, "record")
     \/ /\ \E id \in Ids(log) :
             \/ \E dnr \in NewFlags : Asked(c, "supersede", id, [f \in {"dnr"} |-> dnr], FALSE)
             \/ \E set \in FlagSets, force \in BOOLEAN :
                  (force => Retiring(set)) /\ Asked(c, "flag", id, set, force)
        /\ Goto(c, "stat")
  /\ UNCHANGED <<log, cache, crashes>>

(* get(): path.stat() ...                                                    *)
Stat(c) ==
  /\ pc[c] = "stat"
  /\ call' = [call EXCEPT ![c].stamp = Len(log)]
  /\ Goto(c, "read")
  /\ UNCHANGED <<log, cache, calls, crashes>>

(* Mutant: an earlier supersession is not looked at.                         *)
RefusedFork(r, l) ==
  \/ r.id \notin Ids(l)
  \/ /\ r.op = "flag" /\ Retiring(r.set)
     /\ r.id \in Protected(l) /\ ~r.force

(* The decision is unknown, already has a successor, or is protected.        *)
Refused(r, l) ==
  \/ r.id \notin Ids(l)
  \/ r.op = "supersede" /\ r.id \in Superseded(l)
  \/ /\ r.op = "flag" /\ Retiring(r.set)
     /\ r.id \in Protected(l) /\ ~r.force

(* Having looked at the first n rows, the call is refused or goes on to write. *)
Decided(c, n) ==
  \/ Refused(call[c], Prefix(n)) /\ Return(c)
  \/ /\ ~Refused(call[c], Prefix(n))
     /\ call' = [call EXCEPT ![c].stamp = 0, ![c].seen = 0]
     /\ Goto(c, IF call[c].op = "supersede" THEN "record" ELSE "amend")

(* ... the view cached under that stamp, or else the file, which may be       *)
(* longer by now ...                                                         *)
Read(c) ==
  LET view == cache[ProcOf[c]]
      hit == view # Uncached /\ view.stamp = call[c].stamp IN
  /\ pc[c] = "read"
  /\ \/ hit /\ Decided(c, view.rows)
     \/ /\ ~hit
        /\ call' = [call EXCEPT ![c].seen = Len(log)]
        /\ Goto(c, "fill")
  /\ UNCHANGED <<log, cache, calls, crashes>>

(* Mutant: what was read is filed under what the file is like by then.       *)
FillStampedLate(c) ==
  /\ pc[c] = "fill"
  /\ cache' = [cache EXCEPT ![ProcOf[c]] = [stamp |-> Len(log), rows |-> call[c].seen]]
  /\ Decided(c, call[c].seen)
  /\ UNCHANGED <<log, calls, crashes>>

(* ... which is kept for the process, whoever cleared its cache meanwhile.   *)
Fill(c) ==
  /\ pc[c] = "fill"
  /\ cache' = [cache EXCEPT ![ProcOf[c]] = [stamp |-> call[c].stamp, rows |-> call[c].seen]]
  /\ Decided(c, call[c].seen)
  /\ UNCHANGED <<log, calls, crashes>>

(* Mutant: the number of decisions that stand, plus one.                     *)
NextIdByCount(l) == 1 + Cardinality(Ids(l) \ Superseded(l))

(* append_with_generated_id                                                  *)
NextId(l) == 1 + Max(Ids(l) \cup {0})

(* record(); the indexes it updates do not affect the log.                   *)
Record(c) ==
  /\ pc[c] = "record"
  /\ log' = Append(log, NewDecision(NextId(log), call[c].set["dnr"], call[c].begin))
  /\ \/ call[c].op = "record" /\ Return(c)
     \/ /\ call[c].op = "supersede"
        /\ call' = [call EXCEPT ![c].new = NextId(log)]
        /\ Goto(c, "amend")
  /\ UNCHANGED <<cache, calls, crashes>>

(* The amendment.                                                            *)
Amend(c) ==
  /\ pc[c] = "amend"
  /\ log' = Append(log, [id |-> call[c].id, base |-> FALSE,
                         set  |-> IF call[c].op = "flag" THEN call[c].set ELSE Nothing,
                         next |-> IF call[c].op = "supersede" THEN call[c].new ELSE 0,
                         begin |-> call[c].begin, forced |-> call[c].force])
  /\ Goto(c, "rebuild")
  /\ UNCHANGED <<cache, call, calls, crashes>>

(* rebuild_indexes clears the cache of its process; then the call returns.   *)
Rebuild(c) ==
  /\ pc[c] = "rebuild"
  /\ cache' = [cache EXCEPT ![ProcOf[c]] = Uncached]
  /\ Return(c)
  /\ UNCHANGED <<log, calls, crashes>>

Threads(p) == {c \in Clients : ProcOf[c] = p}

Crash(p) ==
  /\ crashes < MaxCrashes
  /\ \E c \in Threads(p) : pc[c] # "idle"
  /\ crashes' = crashes + 1
  /\ pc' = [c \in Clients |-> IF c \in Threads(p) THEN "idle" ELSE pc[c]]
  /\ call' = [c \in Clients |-> IF c \in Threads(p) THEN NoCall ELSE call[c]]
  /\ cache' = [cache EXCEPT ![p] = Uncached]
  /\ UNCHANGED <<log, calls>>

Exhausted ==
  /\ calls = MaxCalls
  /\ \A c \in Clients : pc[c] = "idle"
  /\ UNCHANGED vars

Next ==
  \/ Exhausted
  \/ \E c \in Clients : \/ Begin(c) \/ Stat(c) \/ Read(c) \/ Fill(c)
                        \/ Record(c) \/ Amend(c) \/ Rebuild(c)
  \/ \E p \in Procs : Crash(p)

Spec == Init /\ [][Next]_vars

-----------------------------------------------------------------------------
Labels == {"idle", "stat", "read", "fill", "record", "amend", "rebuild"}

TypeInv ==
  /\ log \in Seq(Row)
  /\ cache \in [Procs -> [stamp : 0 .. Len(log), rows : 0 .. Len(log)]]
  /\ pc \in [Clients -> Labels]
  /\ call \in [Clients -> Call]
  /\ \A c \in Clients : {call[c].begin, call[c].stamp, call[c].seen} \subseteq 0 .. Len(log)
  /\ calls \in 0 .. MaxCalls /\ crashes \in 0 .. MaxCrashes

(* Well typed; and a supersession about to write its edge has a successor.   *)
TypeOK ==
  /\ TypeInv
  /\ \A c \in Clients : pc[c] = "amend" /\ call[c].op = "supersede" => call[c].new \in Ids(log)

(* A view kept under a stamp holds at least what the file held then.         *)
CacheIsNoOlder == \A p \in Procs : cache[p].rows >= cache[p].stamp

Retires(r) == ~r.base /\ Retiring(r.set)

(* "A do_not_revert (protected) decision is NOT retired without force=True"  *)
(* (decisions_store.py:1170): not when it was protected for as long as the   *)
(* call took.  A protection that lands while a retirement is under way is    *)
(* not seen, since nothing locks the two; one that came before always is,    *)
(* whichever process made it and whatever was cached.                        *)
ProtectionIsSeen ==
  \A i \in DOMAIN log :
    Retires(log[i]) /\ ~log[i].forced =>
      \E k \in log[i].begin .. i - 1 : log[i].id \notin Protected(Prefix(k))

(* A decision is superseded again only by calls that overlap: one that began *)
(* after the first supersession was written is refused.                      *)
ForksOverlap ==
  \A i \in DOMAIN log :
    log[i].next # 0 => log[i].id \notin Superseded(Prefix(log[i].begin))

(* Whoever is killed where, a superseded decision has a successor that is in  *)
(* the log and younger: following successors ends at a decision that stands.  *)
ChainsEnd ==
  \A id \in Superseded(log) :
    Successor(log, id) \in Ids(log) /\ Successor(log, id) > id

(* Two base records never share an id, so amendments find their decision.    *)
AmendmentsHaveOneBase ==
  \A i \in DOMAIN log :
    Cardinality({j \in 1 .. i : log[j].base /\ log[j].id = log[i].id}) = 1
=============================================================================

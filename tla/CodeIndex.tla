----------------------------- MODULE CodeIndex -----------------------------
(***************************************************************************)
(* The code graph of a project (indexer/index_codebase.py,                 *)
(* graph_generator.py, sqlite_graph.py) and whoever brings it up to date:  *)
(*   watch    the file watcher of a server: timer, circuit breaker, lock   *)
(*   full     the background rebuild of a server, under the same lock      *)
(*   cli      `codevira index`: another process, without the lock          *)
(*   rebuild  `codevira index --full`, likewise                            *)
(*   refresh  refresh_graph after an edit: a thread of a hook process      *)
(* A generation is a sequence of small transactions, so that these meet.   *)
(* A file's content is a version number, 0 when it is not there; imports   *)
(* are those that resolve to source files of the project.                  *)
(***************************************************************************)
EXTENDS Naturals, Sequences, FiniteSets

CONSTANTS Files, Runners,          \* Runners: those of the above that run
          Threshold,               \* failures that open the circuit, 3 in the code
          Imports,                 \* Imports[f][v]: the files version v of f imports
          Inside,                  \* <<f, g>>: the path of f occurs in that of g
          MaxVersion, MaxEdits, MaxFaults  \* bounds

VARIABLES disk,                    \* version of each file
          hashes,                  \* file_hashes: version, 0 without a row
          nodes,                   \* version a file node was made from, 0 without
          syms,                    \* version a file's symbols were parsed from
          links,                   \* import edges
          run,                     \* each runner's run
          timer, queued,           \* the debounce timer; reindexes that wait
          failures, backoff,       \* the circuit breaker
          exact,                   \* ghost: the last run was undisturbed, and nothing since
          edits, faults
cvars == <<disk, hashes, nodes, syms, links, run, timer, queued, failures,
           backoff, exact, edits, faults>>
graph == <<nodes, syms, links>>
watcher == <<timer, queued, failures, backoff>>

Locked == {"watch", "full"}        \* take _index_write_lock
Hashing == {"watch", "cli"}        \* run cmd_incremental
Clearing == {"full", "rebuild"}    \* run cmd_full_rebuild

Present == {f \in Files : disk[f] # 0}
HasNode == {f \in Files : nodes[f] # 0}
Changed == {<<f, disk[f]>> : f \in {g \in Present : disk[g] # hashes[g]}}
Idle == [at |-> "idle", changed |-> {}, files |-> {}, todo |-> {}, now |-> {}, alone |-> FALSE]
Held == \E r \in Locked \cap Runners : run[r].at # "idle"

(* Deleting a node cascades to its symbols and edges.                       *)
Only(kept) ==
    /\ nodes' = [f \in Files |-> IF f \in kept THEN nodes[f] ELSE 0]
    /\ syms' = [f \in Files |-> IF f \in kept THEN syms[f] ELSE 0]
    /\ links' = links \cap (kept \X kept)

Go(r, new) == run' = [run EXCEPT ![r] = new]
----------------------------------------------------------------------------
CInit ==
    /\ disk \in [Files -> {0, 1}]
    /\ hashes = [f \in Files |-> 0] /\ nodes = hashes /\ syms = hashes
    /\ links = {}
    /\ run = [r \in Runners |-> Idle]
    /\ timer = FALSE /\ queued = 0 /\ failures = 0 /\ backoff = FALSE
    /\ exact = FALSE /\ edits = 0 /\ faults = 0

(* An editor writes or deletes a file; the watcher restarts its timer.      *)
Edit(f, v) ==
    /\ edits < MaxEdits /\ v # disk[f]
    /\ disk' = [disk EXCEPT ![f] = v]
    /\ timer' = ("watch" \in Runners)
    /\ run' = [r \in Runners |-> [run[r] EXCEPT !.alone = FALSE]]
    /\ exact' = FALSE /\ edits' = edits + 1
    /\ UNCHANGED <<hashes, graph, queued, failures, backoff, faults>>

(* The timer fires: with the circuit open the reindex is skipped, else it   *)
(* waits for the lock, however many wait already.                           *)
Fire ==
    /\ timer
    /\ timer' = FALSE
    /\ queued' = IF failures >= Threshold /\ backoff THEN queued ELSE queued + 1
    /\ UNCHANGED <<disk, hashes, graph, run, failures, backoff, exact, edits, faults>>

BackoffEnds ==
    /\ backoff /\ backoff' = FALSE
    /\ UNCHANGED <<disk, hashes, graph, run, timer, queued, failures, exact, edits, faults>>

(* A run begins.  An incremental one compares every file it finds with its  *)
(* hash, and ends when none differs.                                        *)
Begin(r) ==
    /\ run[r].at = "idle"
    /\ r \in Locked => ~Held
    /\ r = "watch" => queued > 0
    /\ queued' = IF r = "watch" THEN queued - 1 ELSE queued
    /\ IF r \in Hashing /\ Changed = {}
       THEN /\ failures' = IF r = "watch" THEN 0 ELSE failures
            /\ backoff' = IF r = "watch" THEN FALSE ELSE backoff
            /\ UNCHANGED run
       ELSE /\ Go(r, [Idle EXCEPT !.at = IF r \in Hashing THEN "hash"
                                         ELSE IF r \in Clearing THEN "clear" ELSE "walk",
                                  !.changed = Changed])
            /\ UNCHANGED <<failures, backoff>>
    /\ UNCHANGED <<disk, hashes, graph, timer, exact, edits, faults>>

(* The hashes are recorded before the graph is touched.                     *)
RecordHashes(r) ==
    /\ run[r].at = "hash"
    /\ hashes' = [f \in Files |-> IF \E c \in run[r].changed : c[1] = f
                                  THEN (CHOOSE c \in run[r].changed : c[1] = f)[2]
                                  ELSE hashes[f]]
    /\ Go(r, [run[r] EXCEPT !.at = "walk", !.changed = {}])
    /\ UNCHANGED <<disk, graph, watcher, exact, edits, faults>>

Clear(r) ==
    /\ run[r].at = "clear"
    /\ Only({})
    /\ run' = [q \in Runners |-> [run[q] EXCEPT !.at = IF q = r THEN "walk" ELSE @,
                                                !.changed = IF q = r THEN {} ELSE @,
                                                !.alone = FALSE]]
    /\ exact' = FALSE
    /\ UNCHANGED <<disk, hashes, watcher, edits, faults>>

Busy(q) == run[q].at \notin {"idle", "hash", "clear"}

Walk(r) ==
    /\ run[r].at = "walk"
    /\ run' = [q \in Runners |->
         IF q # r THEN [run[q] EXCEPT !.alone = FALSE]
         ELSE [run[r] EXCEPT !.at = "nodes", !.files = Present,
                             !.alone = \A o \in Runners \ {r} : ~Busy(o)]]
    /\ exact' = FALSE
    /\ UNCHANGED <<disk, hashes, graph, watcher, edits, faults>>

(* Nodes are added where there are none, never refreshed.                   *)
AddNodes(r) ==
    /\ run[r].at = "nodes"
    /\ nodes' = [f \in Files |-> IF f \in run[r].files /\ nodes[f] = 0
                                 THEN disk[f] ELSE nodes[f]]
    /\ Go(r, [run[r] EXCEPT !.at = "prune"])
    /\ UNCHANGED <<disk, hashes, syms, links, watcher, exact, edits, faults>>

(* Mutant: what a failed run left behind stays.                            *)
PruneNothing(r) ==
    /\ run[r].at = "prune"
    /\ Go(r, [run[r] EXCEPT !.at = "symbols", !.todo = run[r].files])
    /\ UNCHANGED <<disk, hashes, graph, watcher, exact, edits, faults>>

Prune(r) ==
    /\ run[r].at = "prune"
    /\ Only(HasNode \cap run[r].files)
    /\ Go(r, [run[r] EXCEPT !.at = "symbols", !.todo = run[r].files])
    /\ UNCHANGED <<disk, hashes, watcher, exact, edits, faults>>

(* A file's symbols are deleted, then parsed and inserted anew, if its node *)
(* is there.                                                                *)
DropSymbols(r, f) ==
    /\ run[r].at = "symbols" /\ run[r].now = {} /\ f \in run[r].todo
    /\ IF disk[f] = 0
       THEN Go(r, [run[r] EXCEPT !.todo = @ \ {f}]) /\ UNCHANGED syms
       ELSE /\ Go(r, [run[r] EXCEPT !.todo = @ \ {f}, !.now = {f}])
            /\ syms' = [syms EXCEPT ![f] = 0]
    /\ UNCHANGED <<disk, hashes, nodes, links, watcher, exact, edits, faults>>

AddSymbols(r, f) ==
    /\ run[r].at = "symbols" /\ f \in run[r].now
    /\ syms' = [syms EXCEPT ![f] = IF nodes[f] # 0 THEN disk[f] ELSE @]
    /\ Go(r, [run[r] EXCEPT !.now = {}])
    /\ UNCHANGED <<disk, hashes, nodes, links, watcher, exact, edits, faults>>

SymbolsDone(r) ==
    /\ run[r].at = "symbols" /\ run[r].now = {} /\ run[r].todo = {}
    /\ Go(r, [run[r] EXCEPT !.at = "links", !.todo = run[r].files])
    /\ UNCHANGED <<disk, hashes, graph, watcher, exact, edits, faults>>

(* A file's edges are replaced; add_edge wants both nodes to be there.      *)
Linked(f) ==
    (links \ ({f} \X Files))
      \cup {<<f, g>> : g \in {h \in Imports[f][disk[f]] \cap HasNode : f \in HasNode}}

Link(r, f) ==
    /\ run[r].at = "links" /\ f \in run[r].todo
    /\ links' = IF disk[f] = 0 THEN links ELSE Linked(f)
    /\ Go(r, [run[r] EXCEPT !.todo = @ \ {f}])
    /\ UNCHANGED <<disk, hashes, nodes, syms, watcher, exact, edits, faults>>

Finish(r) ==
    /\ run[r].at = "links" /\ run[r].todo = {}
    /\ exact' = run[r].alone
    /\ Go(r, Idle)
    /\ failures' = IF r = "watch" THEN 0 ELSE failures
    /\ backoff' = IF r = "watch" THEN FALSE ELSE backoff
    /\ UNCHANGED <<disk, hashes, graph, timer, queued, edits, faults>>

(* A step raises (a locked database, a full disk), or the process ends: the *)
(* run stops where it is and the lock is free.                              *)
Fail(r) ==
    /\ run[r].at # "idle" /\ faults < MaxFaults
    /\ faults' = faults + 1
    /\ Go(r, Idle)
    /\ failures' = IF r = "watch" /\ failures < Threshold THEN failures + 1 ELSE failures
    /\ backoff' = IF r = "watch" /\ failures + 1 >= Threshold THEN TRUE ELSE backoff
    /\ UNCHANGED <<disk, hashes, graph, timer, queued, exact, edits>>

Step(r) ==
    \/ Begin(r) \/ RecordHashes(r) \/ Clear(r) \/ Walk(r) \/ AddNodes(r) \/ Prune(r)
    \/ \E f \in Files : DropSymbols(r, f) \/ AddSymbols(r, f) \/ Link(r, f)
    \/ SymbolsDone(r) \/ Finish(r)

CNext ==
    \/ \E f \in Files, v \in 0..MaxVersion : Edit(f, v)
    \/ Fire \/ BackoffEnds
    \/ \E r \in Runners : Step(r) \/ Fail(r)

CSpec == CInit /\ [][CNext]_cvars
----------------------------------------------------------------------------
(* What the tools of agents read, each a query of its own: graph.py.        *)
NotIndexed == [found |-> FALSE, version |-> 0]
GetNode(f) == IF nodes[f] = 0 THEN NotIndexed ELSE [found |-> TRUE, version |-> nodes[f]]

(* query_graph of the symbols of a file.                                    *)
QuerySymbols(f) == syms[f]

(* Mutant: the files that f imports, instead of those that import it.       *)
StepsOn(path) == {g \in Files : <<path[Len(path)], g>> \in links}

(* get_blast_radius goes against the edges, and takes no step to a file whose *)
(* name occurs in the path so far.                                          *)
Steps(path) ==
    {g \in Files : /\ <<g, path[Len(path)]>> \in links
                   /\ \A i \in DOMAIN path : path[i] # g /\ <<g, path[i]>> \notin Inside}

Grown(S) == UNION {{Append(p, g) : g \in Steps(p)} : p \in S}

(* The paths that lead to f, of at most three steps.                        *)
Trails(f) ==
    LET one == Grown({<<f>>})
        two == Grown(one)
    IN  {<<f>>} \cup one \cup two \cup Grown(two)

(* get_impact: the files that depend on f, at most three steps away.        *)
Impact(f) ==
    IF nodes[f] = 0 THEN NotIndexed
    ELSE [found |-> TRUE, files |-> {p[Len(p)] : p \in Trails(f)} \ {f}]
----------------------------------------------------------------------------
GraphIsDisk ==
    /\ HasNode = Present
    /\ \A f \in Files : syms[f] = disk[f]
    /\ links = UNION {{f} \X (Imports[f][disk[f]] \cap Present) : f \in Present}

(* Whatever runs failed half way, overlapped or saw files come and go, a    *)
(* generation that nothing disturbs leaves the graph equal to the sources:  *)
(* nodes, symbols and edges (graph_generator.py:357, "tracks the            *)
(* filesystem").  What a node says of its file's functions is excepted.     *)
UndisturbedRunIsExact == exact => GraphIsDisk

(* The files whose imports lead to f in at most three steps.                *)
WithImporters(S) == S \cup {g \in Present : Imports[g][disk[g]] \cap S # {}}
Dependents(f) == WithImporters(WithImporters(WithImporters({f}))) \ {f}

(* And then what agents are told is what the sources say: a file is known if  *)
(* it is there, with the symbols it has now, and "No downstream dependents"  *)
(* (graph.py:478) means that there are none.                                *)
AnswersMatchSources ==
    exact => \A f \in Files :
               /\ GetNode(f).found <=> f \in Present
               /\ QuerySymbols(f) = disk[f]
               /\ f \in Present => Impact(f).files = Dependents(f)

(* When no run is under way and `codevira index` would say "No files        *)
(* changed. Index is up to date." (index_codebase.py:572), every source     *)
(* file is in the graph, with the symbols it has now.                       *)
UpToDate ==
    (\A r \in Runners : run[r].at = "idle") /\ Changed = {} /\ HasNode # {}
        => \A f \in Present : nodes[f] # 0 /\ syms[f] = disk[f]
============================================================================

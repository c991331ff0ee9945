------------------------------ MODULE Roadmap ------------------------------
(***************************************************************************)
(* The roadmap of a project: one YAML file, mcp_server/tools/roadmap.py.   *)
(* A mutation reads, changes and saves the file under a lock; a read takes *)
(* no lock, and yet saves: a stub when there is no file, and the           *)
(* normalised form when the file differs from it, which every save of a    *)
(* new entry makes it do (add_phase writes no "status").  The project is   *)
(* one the user has opted in, so that stubs are persisted.                 *)
(***************************************************************************)
EXTENDS Naturals, Sequences, FiniteSets, SequencesExt

CONSTANTS Writers,      \* processes that mutate the roadmap
          Readers,      \* processes that only read it
          Phases,       \* phase numbers, 1 among them
          MaxCalls      \* bound: calls of all processes

VARIABLES file,         \* roadmap.yaml, or NoFile
          lock,         \* who holds roadmap.yaml.lock
          rpc, seen,     \* each process: where it is, what _load_roadmap returned
          placed,        \* phase numbers a saved call has put on the roadmap
          roadmapCalls
rvars == <<file, lock, rpc, seen, placed, roadmapCalls>>

None == 0
NoFile == [cur |-> [num |-> None, stub |-> FALSE], up |-> <<>>, later |-> <<>>,
           done |-> <<>>, tidy |-> FALSE]
Stub == [NoFile EXCEPT !.cur = [num |-> 1, stub |-> TRUE], !.tidy = TRUE]
Entry(n, high) == [num |-> n, high |-> high]

Loaded == IF file = NoFile THEN Stub ELSE [file EXCEPT !.tidy = TRUE]
Numbers(entries) == {entries[i].num : i \in DOMAIN entries}
OnRoadmap(r) == {r.cur.num} \cup Numbers(r.up) \cup ToSet(r.later) \cup ToSet(r.done)

(* complete_phase: the head of the queue becomes current; what stands when  *)
(* the queue is empty differs between the plain call and a backfill.        *)
Advanced(r, empty) ==
    IF r.up = <<>> THEN [r EXCEPT !.cur = empty]
    ELSE [r EXCEPT !.cur = [num |-> Head(r.up).num, stub |-> FALSE], !.up = Tail(@)]

(* The elements of s at the places in at, in their order.                   *)
Pick(s, at) ==
    [j \in 1 .. Cardinality(at) |->
       s[CHOOSE i \in at : Cardinality({k \in at : k <= i}) = j]]

Dequeued(r, n) == [r EXCEPT !.up = Pick(r.up, {i \in DOMAIN r.up : r.up[i].num # n})]

(* add_phase: the numbers it refuses; those of deferred phases are not      *)
(* among them.                                                              *)
Taken(r) == {r.cur.num} \cup Numbers(r.up) \cup ToSet(r.done)

Enqueue(r, n, high) ==
    LET highs == {i \in DOMAIN r.up : r.up[i].high}
        at    == IF ~high THEN Len(r.up) + 1
                 ELSE IF highs = {} THEN 1
                 ELSE 1 + CHOOSE i \in highs : \A j \in highs : j <= i
    IN  [r EXCEPT !.up = InsertAt(@, at, Entry(n, high)), !.tidy = FALSE]

Add(r, n, high) ==
    IF r.cur.stub /\ r.cur.num = n
    THEN [r EXCEPT !.cur.stub = FALSE]
    ELSE IF n \in Taken(r) THEN r ELSE Enqueue(r, n, high)

UpdateStatus(r) == [r EXCEPT !.cur.stub = FALSE]      \* no longer pristine

(* Mutant: the phase is taken out of the queue and put nowhere.            *)
DeferDrops(r, n) == IF n \notin Numbers(r.up) THEN r ELSE Dequeued(r, n)
Defer(r, n) ==
    IF n \notin Numbers(r.up) THEN r
    ELSE [Dequeued(r, n) EXCEPT !.later = Append(@, n), !.tidy = FALSE]

Complete(r, n) ==
    IF r.cur.num # n THEN r
    ELSE Advanced([r EXCEPT !.done = Append(@, n), !.tidy = FALSE],
                  [num |-> None, stub |-> FALSE])

Backfill(r, n) ==
    LET s == [r EXCEPT !.done = Append(@, n), !.tidy = FALSE]
    IN  IF r.cur.num = n THEN Advanced(s, r.cur) ELSE Dequeued(s, n)

(* bulk_import_phases of one phase: the placeholder gives up its number even *)
(* if the import then skips it.                                              *)
Import(r, n, finished) ==
    LET s == IF r.cur.stub /\ r.cur.num = n
             THEN [r EXCEPT !.cur = [num |-> None, stub |-> FALSE]] ELSE r
        existing == ToSet(r.done) \cup Numbers(r.up)
                    \cup (IF r.cur.stub THEN {} ELSE {r.cur.num})
    IN  IF n \in existing THEN s
        ELSE IF finished THEN [s EXCEPT !.done = Append(@, n), !.tidy = FALSE]
        ELSE [s EXCEPT !.up = Append(@, Entry(n, FALSE)), !.tidy = FALSE]

Results(r) ==
    {r, UpdateStatus(r)}          \* update_next_action; update_phase_status
    \cup {Add(r, n, high) : n \in Phases, high \in BOOLEAN}
    \cup {Defer(r, n) : n \in Phases}
    \cup {Complete(r, n) : n \in Phases}
    \cup {Backfill(r, n) : n \in Phases}
    \cup {Import(r, n, finished) : n \in Phases, finished \in BOOLEAN}
----------------------------------------------------------------------------
RInit ==
    /\ file = NoFile
    /\ lock = {}
    /\ rpc = [p \in Writers \cup Readers |-> "idle"]
    /\ seen = [p \in Writers \cup Readers |-> NoFile]
    /\ placed = {}
    /\ roadmapCalls = 0

(* A mutation: the lock, then the load, which saves the normalised form.    *)
Load(p) ==
    /\ rpc[p] = "idle" /\ lock = {} /\ roadmapCalls < MaxCalls
    /\ lock' = {p}
    /\ file' = Loaded /\ seen' = [seen EXCEPT ![p] = Loaded]
    /\ rpc' = [rpc EXCEPT ![p] = "change"]
    /\ roadmapCalls' = roadmapCalls + 1
    /\ UNCHANGED placed

Save(p) ==
    /\ rpc[p] = "change"
    /\ \E r \in Results(seen[p]) :
         /\ file' = r
         /\ placed' = placed \cup (OnRoadmap(r) \ (OnRoadmap(seen[p]) \cup {None}))
                           \cup (IF r.cur.stub THEN {} ELSE {r.cur.num} \ {None})
    /\ rpc' = [rpc EXCEPT ![p] = "idle"]
    /\ seen' = [seen EXCEPT ![p] = NoFile]
    /\ lock' = lock \ {p}
    /\ UNCHANGED roadmapCalls

(* get_roadmap, get_phase, get_session_context: the load without the lock.  *)
Read(p) ==
    /\ rpc[p] = "idle" /\ roadmapCalls < MaxCalls
    /\ roadmapCalls' = roadmapCalls + 1
    /\ IF file.tidy THEN UNCHANGED <<rpc, seen>>
       ELSE rpc' = [rpc EXCEPT ![p] = "tidy"] /\ seen' = [seen EXCEPT ![p] = Loaded]
    /\ UNCHANGED <<file, lock, placed>>

SaveRead(p) ==
    /\ rpc[p] = "tidy"
    /\ file' = seen[p]
    /\ rpc' = [rpc EXCEPT ![p] = "idle"]
    /\ seen' = [seen EXCEPT ![p] = NoFile]
    /\ UNCHANGED <<lock, placed, roadmapCalls>>

RNext == \/ \E p \in Writers : Load(p) \/ Save(p)
         \/ \E p \in Readers : Read(p) \/ SaveRead(p)

RSpec == RInit /\ [][RNext]_rvars
----------------------------------------------------------------------------
(* A phase that a saved call has put on the roadmap is current, queued,     *)
(* deferred or completed from then on, whatever calls of other processes    *)
(* run at the same time (roadmap.py:243, "Read-only paths don't need the    *)
(* lock": they save what they read, and this is false with Readers).        *)
NothingForgotten == placed \subseteq OnRoadmap(file)

============================================================================

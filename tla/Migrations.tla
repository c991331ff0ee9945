----------------------------- MODULE Migrations -----------------------------
(* What a server does to a project's stores before it serves (server.py main, *)
(* migrate.py): an in-repo store is copied to ~/.codevira; then, one server    *)
(* at a time, memory that an older release stranded is brought back, the store *)
(* of a linked worktree is folded into the main one, and what is owed once is  *)
(* done once.  Agents append meanwhile, servers are killed, and somebody runs  *)
(* `codevira prune --legacy`.                                                *)
EXTENDS Integers, Sequences, FiniteSets

CONSTANTS Servers, RootOf,      \* RootOf[s]: "main", or "wt" for a linked worktree
          Worlds,             \* what older releases left: a log by place, the places
                              \*   with a config.yaml, whether the store is shared,
                              \*   the roots they moved, the number of decisions
          MaxAppends, MaxDeaths

VARIABLES
  logs,      \* decisions.jsonl of the places that have one: sequences of records
  settings,  \* the places with a config.yaml
  found,     \* whether the store is tracked in git, so never copied to ~/.codevira,
             \*   and the roots that an older release had moved there
  copied,    \* roots whose metadata.json says they were copied
  server, held,  \* where each server is, and what it holds
  late,      \* what was appended since a server looked
  excused,   \* what was appended under a copy, or is in a killed write, or ...
  decided, deaths

gvars == <<logs, settings, found, copied, server, held, late, excused, decided, deaths>>

Repo(r) == <<"repo", r>>
Orphan(r) == <<"orphan", r>>       \* .codevira.migrated
AtHome(r) == <<"central", r>>     \* ~/.codevira/projects/<key>
Main == Repo("main")
Roots == {"main", "wt"}
Wt == Repo("wt")
Mirrors == {AtHome(r) : r \in Roots \ found.moved}

Records(q) == {q[i] : i \in DOMAIN q}
In(p) == IF p \in DOMAIN logs THEN Records(logs[p]) ELSE {}
With(p, q) == [x \in DOMAIN logs \cup {p} |-> IF x = p THEN q ELSE logs[x]]
Less(ps) == [x \in DOMAIN logs \ ps |-> logs[x]]
Beginnings(q) == {SubSeq(q, 1, k) : k \in 0 .. Len(q)}

(* _union_dedup: what only the second has comes after the first.              *)
Merged(p, q) ==
  LET fresh == {i \in DOMAIN q : q[i] \notin Records(p)}
      Nth(k) == CHOOSE i \in fresh : Cardinality({j \in fresh : j <= i}) = k
  IN  p \o [k \in 1 .. Cardinality(fresh) |-> q[Nth(k)]]

(* Numbered records; what an older release moved is in no store of its own.    *)
ASSUME MigrationsAssumption ==
  /\ RootOf \in [Servers -> Roots]
  /\ \A w \in Worlds :
       /\ w.decided \in Nat /\ \A p \in DOMAIN w.log : w.log[p] \in Seq(Nat)
       /\ 1 .. w.decided = UNION {Records(w.log[p]) : p \in DOMAIN w.log
                                                    \ {AtHome(r) : r \in Roots \ w.moved}}

Locked == {"recover", "copy", "copying", "merge", "write", "rename", "once"}
Marked(r) == {Repo(r), AtHome(r)} \cap settings # {}

GInit ==
  /\ \E w \in Worlds :
       /\ logs = w.log /\ settings = w.configs
       /\ found = [shared |-> w.shared, moved |-> w.moved]
       /\ copied = w.moved /\ decided = w.decided
  /\ server = [s \in Servers |-> "off"]
  /\ held = [s \in Servers |-> <<>>]
  /\ late = [s \in Servers |-> {}]
  /\ excused = {} /\ deaths = 0

To(s, where, what) == server' = [server EXCEPT ![s] = where] /\ held' = [held EXCEPT ![s] = what]
Look(s) == late' = [late EXCEPT ![s] = {}]

(* An agent records a decision: in the main worktree's store, or in the        *)
(* worktree's own when its server is of a release before 4.0.                 *)
Enter(p) ==
  /\ decided < MaxAppends
  /\ decided' = decided + 1
  /\ logs' = With(p, (IF p \in DOMAIN logs THEN logs[p] ELSE <<>>) \o <<decided + 1>>)
  /\ late' = [s \in Servers |-> late[s] \cup {decided + 1}]
  /\ UNCHANGED <<settings, found, copied, server, held, excused, deaths>>

-----------------------------------------------------------------------------
(* migrate_to_centralized: the config first, metadata.json last; no lock.      *)
Start(s) ==
  /\ server[s] = "off"
  /\ To(s, IF Repo(RootOf[s]) \in settings /\ RootOf[s] \notin copied /\ ~found.shared
           THEN "out" ELSE "lock", <<>>)
  /\ UNCHANGED <<logs, settings, found, copied, late, excused, decided, deaths>>

CopyOut(s) ==
  /\ server[s] = "out"
  /\ settings' = settings \cup {AtHome(RootOf[s])}
  /\ IF Repo(RootOf[s]) \in DOMAIN logs
     THEN \E q \in Beginnings(logs[Repo(RootOf[s])]) : logs' = With(AtHome(RootOf[s]), q)
     ELSE UNCHANGED logs
  /\ To(s, "out2", <<>>)
  /\ UNCHANGED <<found, copied, late, excused, decided, deaths>>

CopiedOut(s) ==
  /\ server[s] = "out2"
  /\ logs' = IF Repo(RootOf[s]) \in DOMAIN logs
            THEN With(AtHome(RootOf[s]), logs[Repo(RootOf[s])]) ELSE logs
  /\ copied' = copied \cup {RootOf[s]}
  /\ To(s, "lock", <<>>)
  /\ UNCHANGED <<settings, found, late, excused, decided, deaths>>

(* run_startup_migrations: under the ledger's lock, in the main store, for a   *)
(* project that is opted in.                                                 *)
Lock(s) ==
  /\ server[s] = "lock"
  /\ \/ ~Marked(RootOf[s]) /\ To(s, "up", <<>>)
     \/ /\ Marked(RootOf[s]) /\ \A t \in Servers : server[t] \notin Locked
        /\ To(s, "recover", <<Orphan(RootOf[s]), AtHome(RootOf[s])>>)
  /\ UNCHANGED <<logs, settings, found, copied, late, excused, decided, deaths>>

-----------------------------------------------------------------------------
(* _mig_v371_recover_orphaned_memory: what .codevira lacks is copied from the  *)
(* first place that has it; of ~/.codevira not the config.                    *)
Recover(s) ==
  /\ server[s] = "recover" /\ held[s] # <<>>
  /\ LET src == Head(held[s])  dst == Repo(RootOf[s]) IN
       /\ IF src \in DOMAIN logs /\ dst \notin DOMAIN logs
          THEN To(s, "copy", held[s]) ELSE To(s, "recover", Tail(held[s]))
       /\ settings' = settings \cup IF src \in settings /\ src = Orphan(RootOf[s])
                                 THEN {dst} ELSE {}
  /\ Look(s)
  /\ UNCHANGED <<logs, found, copied, excused, decided, deaths>>

Recovered(s) ==
  /\ server[s] = "recover" /\ held[s] = <<>>
  /\ To(s, "merge", <<>>)
  /\ UNCHANGED <<logs, settings, found, copied, late, excused, decided, deaths>>

(* copy2 truncates what has appeared there since, and may stop half way; it    *)
(* reads on from a file that is deleted once it is open, and not before.       *)
Copy(s) ==
  /\ server[s] = "copy"
  /\ LET src == Head(held[s])  dst == Repo(RootOf[s]) IN
       IF src \in DOMAIN logs
       THEN /\ \E q \in Beginnings(logs[src]) : logs' = With(dst, q)
            /\ excused' = excused \cup (late[s] \cap In(dst))
            /\ To(s, "copying", <<logs[src], Tail(held[s])>>)
       ELSE To(s, "recover", Tail(held[s])) /\ UNCHANGED <<logs, excused>>
  /\ UNCHANGED <<settings, found, copied, late, decided, deaths>>

Copied(s) ==
  /\ server[s] = "copying"
  /\ \/ /\ logs' = With(Repo(RootOf[s]), held[s][1])
        /\ excused' = excused \cup (late[s] \cap In(Repo(RootOf[s])))
     \/ UNCHANGED <<logs, excused>>
  /\ To(s, "recover", held[s][2])
  /\ UNCHANGED <<settings, found, copied, late, decided, deaths>>

-----------------------------------------------------------------------------
(* _mig_v380_worktree_memory_merge: both are read, without the main log's      *)
(* lock; the union is written in place; the worktree's store is set aside.     *)
ReadBoth(s) ==
  /\ server[s] = "merge"
  /\ Look(s)
  /\ IF RootOf[s] = "main" \/ In(Wt) = {} THEN To(s, "once", <<>>)
     ELSE To(s, "write", Merged(IF Main \in DOMAIN logs THEN logs[Main] ELSE <<>>,
                                logs[Wt]))
  /\ UNCHANGED <<logs, settings, found, copied, excused, decided, deaths>>

Write(s) ==
  /\ server[s] = "write"
  /\ logs' = With(Main, held[s])
  /\ excused' = excused \cup (late[s] \cap In(Main))
  /\ To(s, "rename", <<>>)
  /\ UNCHANGED <<settings, found, copied, late, decided, deaths>>

SetAside(s) ==
  /\ server[s] = "rename"
  /\ \/ /\ logs' = Less({Wt})
        /\ settings' = settings \ {Wt}
        /\ excused' = excused \cup (late[s] \cap In(Wt))
     \/ UNCHANGED <<logs, settings, excused>>
  /\ To(s, "once", <<>>)
  /\ UNCHANGED <<found, copied, late, decided, deaths>>

(* The migrations that the ledger does not name yet; one that raises is logged, *)
(* and tried again at the next start.                                        *)
Once(s) ==
  /\ server[s] = "once"
  /\ To(s, "up", <<>>)
  /\ UNCHANGED <<logs, settings, found, copied, late, excused, decided, deaths>>

Quit(s) ==
  /\ server[s] = "up"
  /\ To(s, "off", <<>>)
  /\ Look(s)
  /\ UNCHANGED <<logs, settings, found, copied, excused, decided, deaths>>

(* The system unlocks for the dead; write_text truncates before it writes.     *)
Perish(s) ==
  /\ server[s] \notin {"off", "up"} /\ deaths < MaxDeaths
  /\ deaths' = deaths + 1
  /\ \/ UNCHANGED <<logs, excused>>
     \/ /\ server[s] = "write"
        /\ \E q \in Beginnings(held[s]) : logs' = With(Main, q)
        /\ excused' = excused \cup In(Main)
  /\ To(s, "off", <<>>)
  /\ Look(s)
  /\ UNCHANGED <<settings, found, copied, decided>>

-----------------------------------------------------------------------------
(* Mutant: as `prune --legacy` was before the guard.                          *)
PruneAlways(r) ==
  /\ Orphan(r) \in DOMAIN logs
  /\ logs' = Less({Orphan(r)})
  /\ settings' = settings \ {Orphan(r)}
  /\ excused' = excused \cup IF Repo(r) \in DOMAIN logs THEN In(Orphan(r)) ELSE {}
  /\ UNCHANGED <<found, copied, server, held, late, decided, deaths>>

(* cleanup_legacy_dir: names are compared, not what the files hold; so what    *)
(* only the old file had, where a file of its name is in the store, is gone.   *)
Prune(r) ==
  /\ Orphan(r) \in DOMAIN logs /\ Repo(r) \in DOMAIN logs
  /\ (Orphan(r) \in settings => Repo(r) \in settings)
  /\ logs' = Less({Orphan(r)})
  /\ settings' = settings \ {Orphan(r)}
  /\ excused' = excused \cup In(Orphan(r))
  /\ UNCHANGED <<found, copied, server, held, late, decided, deaths>>

GNext ==
  \/ \E p \in {Main, Wt} : Enter(p)
  \/ \E r \in Roots : Prune(r)
  \/ \E s \in Servers :
       \/ Start(s) \/ CopyOut(s) \/ CopiedOut(s) \/ Lock(s) \/ Recover(s) \/ Recovered(s)
       \/ Copy(s) \/ Copied(s) \/ ReadBoth(s) \/ Write(s) \/ SetAside(s) \/ Once(s)
       \/ Quit(s) \/ Perish(s)

GSpec == GInit /\ [][GNext]_gvars

-----------------------------------------------------------------------------
(* However starts, restarts, kills and appends interleave, every decision is   *)
(* in a store that is read, in a worktree's that is still to be folded in, or  *)
(* in .codevira.migrated or the copy that an older release moved it to; but for *)
(* what was appended while a copy or a merge was between its read and its write *)
(* and it then wrote over, for a log a merge was killed in the writing of      *)
(* (migrate.py:671), and for what Prune says.                                *)
NothingStranded ==
  1 .. decided \subseteq excused \cup UNION {In(p) : p \in DOMAIN logs \ Mirrors}
=============================================================================

------------------------------ MODULE Transfer ------------------------------
(***************************************************************************)
(* A project's memory carried from one machine to another: cli_transfer.py.  *)
(* `codevira export setup` packs .codevira and the rows that global.db has    *)
(* learned into an archive; `codevira import` puts what is there aside,      *)
(* extracts file by file and merges row by row.  Agents append meanwhile;    *)
(* the command may fail or be killed anywhere.  Backups are named after the  *)
(* second they are made in.                                                  *)
(***************************************************************************)
EXTENDS Naturals, FiniteSets

CONSTANTS
  Files, Signals,         \* of .codevira; rows of global_preferences
  Foreign,                \* archives brought from elsewhere
  MaxLines, MaxClock, MaxCommands, MaxFaults

VARIABLES
  mem,       \* the lines of each file of .codevira, {} without it
  learned,   \* the frequency of each signal in global.db
  aside,     \* backups: .codevira.pre-import-<second>
  archives,
  job,       \* the command that runs
  sec, written, commands, faults,
  late       \* history: lines appended to files that an import was about to extract

trvars == <<mem, learned, aside, archives, job, sec, written, commands, faults, late>>
bounds == <<sec, commands, faults>>

Archive == [mem : [Files -> SUBSET Nat], rows : [Signals -> Nat]]
TransferAssumption == Foreign \subseteq Archive

Nothing == [f \in Files |-> {}]
NoRows == [s \in Signals |-> 0]
Empty(m) == m = Nothing
Idle == [at |-> "idle", arch |-> [mem |-> Nothing, rows |-> NoRows], todo |-> {}, rows |-> {},
         quiet |-> FALSE, base |-> NoRows]

TRInit ==
  /\ mem = Nothing /\ learned = NoRows /\ aside = {}
  /\ archives = Foreign
  /\ job = Idle
  /\ sec = 0 /\ written = 0 /\ commands = 0 /\ faults = 0 /\ late = {}

Tick == /\ sec < MaxClock /\ sec' = sec + 1
        /\ UNCHANGED <<mem, learned, aside, archives, job, written, commands, faults, late>>

(* An agent's server writes to the project.                                   *)
AppendLine(f) ==
  /\ written < MaxLines
  /\ written' = written + 1
  /\ mem' = [mem EXCEPT ![f] = @ \cup {written'}]
  /\ late' = IF job.at = "extract" /\ f \in job.todo THEN late \cup {written'} ELSE late
  /\ job' = [job EXCEPT !.quiet = FALSE]
  /\ UNCHANGED <<learned, aside, archives, bounds>>

-----------------------------------------------------------------------------
Starts == job.at = "idle" /\ commands < MaxCommands /\ commands' = commands + 1

(* The rows are read first.                                                   *)
BeginExport ==
  /\ Starts
  /\ ~Empty(mem) \/ learned # NoRows
  /\ job' = [Idle EXCEPT !.at = "pack", !.todo = Files, !.arch.rows = learned]
  /\ UNCHANGED <<mem, learned, aside, archives, sec, written, faults, late>>

Pack(f) ==
  /\ job.at = "pack" /\ f \in job.todo
  /\ job' = [job EXCEPT !.todo = @ \ {f}, !.arch.mem[f] = mem[f]]
  /\ UNCHANGED <<mem, learned, aside, archives, bounds, written, late>>

(* os.replace of the temporary file.                                          *)
Publish ==
  /\ job.at = "pack" /\ job.todo = {}
  /\ archives' = archives \cup {job.arch}
  /\ job' = Idle
  /\ UNCHANGED <<mem, learned, aside, bounds, written, late>>

(* What is not empty is replaced with --force only.                           *)
BeginImport(arch, force) ==
  /\ Starts
  /\ Empty(mem) \/ Empty(arch.mem) \/ force
  /\ job' = [Idle EXCEPT !.at = IF Empty(mem) \/ Empty(arch.mem) THEN "extract" ELSE "aside",
                         !.arch = arch, !.todo = {f \in Files : arch.mem[f] # {}},
                         !.rows = {s \in Signals : arch.rows[s] # 0},
                         !.quiet = TRUE, !.base = learned]
  /\ UNCHANGED <<mem, learned, aside, archives, sec, written, faults, late>>

(* Mutant: a backup of the same second gives way.                             *)
MoveAsideOver ==
  /\ job.at = "aside"
  /\ mem' = Nothing /\ aside' = {b \in aside : b.sec # sec} \cup {[sec |-> sec, mem |-> mem]}
  /\ job' = [job EXCEPT !.at = "extract"]
  /\ UNCHANGED <<learned, archives, bounds, written, late>>

(* A directory is not renamed onto another one: the import ends there.         *)
MoveAside ==
  /\ job.at = "aside"
  /\ IF \E b \in aside : b.sec = sec
     THEN job' = Idle /\ UNCHANGED <<mem, aside>>
     ELSE /\ mem' = Nothing /\ aside' = aside \cup {[sec |-> sec, mem |-> mem]}
          /\ job' = [job EXCEPT !.at = "extract"]
  /\ UNCHANGED <<learned, archives, bounds, written, late>>

(* A file that is there by now is overwritten.                                *)
Extract(f) ==
  /\ job.at = "extract" /\ f \in job.todo
  /\ mem' = [mem EXCEPT ![f] = job.arch.mem[f]]
  /\ job' = [job EXCEPT !.todo = @ \ {f}]
  /\ UNCHANGED <<learned, aside, archives, bounds, written, late>>

(* upsert_preference adds the frequencies; each row is committed by itself.     *)
Merge(s) ==
  /\ job.at = "extract" /\ job.todo = {} /\ s \in job.rows
  /\ learned' = [learned EXCEPT ![s] = @ + job.arch.rows[s]]
  /\ job' = [job EXCEPT !.rows = @ \ {s}]
  /\ UNCHANGED <<mem, aside, archives, bounds, written, late>>

EndImport ==
  /\ job.at = "extract" /\ job.todo = {} /\ job.rows = {}
  /\ job' = Idle
  /\ UNCHANGED <<mem, learned, aside, archives, bounds, written, late>>

(* The disk is full, or the terminal is closed.                               *)
Fail ==
  /\ job.at # "idle" /\ faults < MaxFaults
  /\ faults' = faults + 1
  /\ job' = Idle
  /\ UNCHANGED <<mem, learned, aside, archives, sec, commands, written, late>>

TRNext ==
  \/ Tick \/ BeginExport \/ Publish \/ MoveAside \/ EndImport \/ Fail
  \/ \E f \in Files : AppendLine(f) \/ Pack(f) \/ Extract(f)
  \/ \E arch \in archives, force \in BOOLEAN : BeginImport(arch, force)
  \/ \E s \in Signals : Merge(s)
TRSpec == TRInit /\ [][TRNext]_trvars

-----------------------------------------------------------------------------
(* "the existing directory is backed up first": whatever commands were refused, *)
(* failed or repeated, a line an agent has written is in the project's memory or *)
(* in a backup, unless it was written to a file that an import was about to    *)
(* extract.                                                                  *)
NothingOverwritten ==
  \A l \in 1 .. written :
    \/ l \in late
    \/ \E m \in {mem} \cup {b.mem : b \in aside} : \E f \in Files : l \in m[f]

(* An import that nothing disturbed leaves what the archive held, and has added *)
(* its rows once; and an archive is whole files.                              *)
ImportsArriveWhole ==
  job.at = "extract" /\ job.todo = {} /\ job.rows = {} /\ job.quiet =>
    /\ ~Empty(job.arch.mem) => mem = job.arch.mem
    /\ \A s \in Signals : learned[s] = job.base[s] + job.arch.rows[s]
=============================================================================

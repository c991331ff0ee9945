----------------------------- MODULE FixHistory -----------------------------
(***************************************************************************)
(* The bug fixes of a project, as its git log tells them                    *)
(* (indexer/fix_history.py): servers and hook processes scan the log when   *)
(* they start and when they look a file up, and insert what is new into one *)
(* database.  A process remembers the HEAD it scanned, backs off from one    *)
(* whose scan failed, and rests between reads.                              *)
(***************************************************************************)
EXTENDS Naturals, Sequences, FiniteSets

CONSTANTS
  Procs, Files,
  Changes,             \* what a commit may be: [files, fix]
  Joined,              \* no file: what the files of one commit become, see FiledUnder
  Window,              \* commits that a scan sees, 1000 in the code
  MaxCommits, MaxScanFaults, MaxScans   \* bounds

ASSUME FixAssumption == Window \in Nat /\ Changes \subseteq [files : SUBSET Files, fix : BOOLEAN]

VARIABLES
  log,                 \* the commits: [files, fix], the last one is HEAD
  rows,                \* the table: <<commit, path>>
  pc,                  \* idle, git, shas, insert
  head,                \* HEAD as the scan read it, 0 for none: a scan at startup
  out, known,          \* what git printed, and the commits found in the table
  last, failedHead, resting,   \* per process: HEAD scanned, HEAD whose scan failed
  missed,              \* history: an insertion failed in the scan for `last`
  scanFaults, scans

fvars == <<log, rows, pc, head, out, known, last, failedHead, resting, missed, scanFaults, scans>>
memory == <<last, failedHead, resting, missed>>

HEAD == Len(log)
Fault == scanFaults < MaxScanFaults /\ scanFaults' = scanFaults + 1

-----------------------------------------------------------------------------
(* git separates files by NUL, the parser by newline: the files of a commit    *)
(* with several are one path, which no lookup asks for.                       *)
FiledUnder(c) == IF Cardinality(log[c].files) = 1 THEN log[c].files ELSE {Joined}

Visible == {c \in 1 .. HEAD : c + Window > HEAD}
New(p) == {r \in (out[p] \ known[p]) \X (Files \cup {Joined}) :
             log[r[1]].fix /\ r[2] \in FiledUnder(r[1])}

FInit ==
  /\ log = <<>> /\ rows = {}
  /\ pc = [p \in Procs |-> "idle"]
  /\ head = [p \in Procs |-> 0]
  /\ out = [p \in Procs |-> {}] /\ known = out
  /\ last = head /\ failedHead = head
  /\ resting = [p \in Procs |-> FALSE] /\ missed = resting
  /\ scanFaults = 0 /\ scans = 0

CommitFiles(change) ==
  /\ HEAD < MaxCommits
  /\ log' = Append(log, change)
  /\ UNCHANGED <<rows, pc, head, out, known, memory, scanFaults, scans>>

(* A server starts: it scans whatever HEAD is, and remembers nothing of it.    *)
Startup(p) ==
  /\ pc[p] = "idle" /\ last[p] = 0 /\ scans < MaxScans
  /\ scans' = scans + 1
  /\ head' = [head EXCEPT ![p] = 0] /\ pc' = [pc EXCEPT ![p] = "git"]
  /\ UNCHANGED <<log, rows, out, known, memory, scanFaults>>

(* A lookup, when the last refresh is long enough ago.                       *)
Refresh(p) ==
  /\ pc[p] = "idle" /\ ~resting[p] /\ HEAD > 0 /\ scans < MaxScans
  /\ resting' = [resting EXCEPT ![p] = TRUE]
  /\ IF HEAD \in {last[p], failedHead[p]} THEN UNCHANGED <<pc, head, scans>>
     ELSE /\ scans' = scans + 1
          /\ pc' = [pc EXCEPT ![p] = "git"] /\ head' = [head EXCEPT ![p] = HEAD]
  /\ UNCHANGED <<log, rows, out, known, last, failedHead, missed, scanFaults>>

Git(p) ==
  /\ pc[p] = "git"
  /\ \/ /\ out' = [out EXCEPT ![p] = Visible] /\ pc' = [pc EXCEPT ![p] = "shas"]
        /\ UNCHANGED <<failedHead, scanFaults>>
     \/ /\ Fault /\ pc' = [pc EXCEPT ![p] = "idle"]
        /\ failedHead' = IF head[p] = 0 THEN failedHead ELSE [failedHead EXCEPT ![p] = head[p]]
        /\ UNCHANGED out
  /\ UNCHANGED <<log, rows, head, known, last, resting, missed, scans>>

(* When the table cannot be read, nothing counts as recorded.                *)
ReadShas(p) ==
  /\ pc[p] = "shas"
  /\ \/ known' = [known EXCEPT ![p] = {r[1] : r \in rows}] /\ UNCHANGED scanFaults
     \/ known' = [known EXCEPT ![p] = {}] /\ Fault
  /\ pc' = [pc EXCEPT ![p] = "insert"]
  /\ missed' = IF head[p] = 0 THEN missed ELSE [missed EXCEPT ![p] = FALSE]
  /\ UNCHANGED <<log, rows, head, out, last, failedHead, resting, scans>>

(* record_fix, one file at a time, the newest commit first.                   *)
Insert(p) ==
  /\ pc[p] = "insert"
  /\ \E r \in New(p) :
       /\ \A s \in New(p) : s[1] <= r[1]
       /\ out' = [out EXCEPT ![p] = @ \ {r[1]}]
       /\ \/ rows' = rows \cup {r} /\ UNCHANGED <<missed, scanFaults>>
          \/ Fault /\ missed' = [missed EXCEPT ![p] = TRUE] /\ UNCHANGED rows
  /\ UNCHANGED <<log, pc, head, known, last, failedHead, resting, scans>>

(* Mutant: HEAD is asked for when the scan is over.                           *)
EndNow(p) ==
  /\ pc[p] = "insert" /\ New(p) = {}
  /\ pc' = [pc EXCEPT ![p] = "idle"] /\ out' = [out EXCEPT ![p] = {}]
  /\ known' = [known EXCEPT ![p] = {}]
  /\ IF head[p] = 0 THEN UNCHANGED <<last, failedHead>>
     ELSE last' = [last EXCEPT ![p] = HEAD] /\ failedHead' = [failedHead EXCEPT ![p] = 0]
  /\ UNCHANGED <<log, rows, head, resting, missed, scanFaults, scans>>

ScanEnds(p) ==
  /\ pc[p] = "insert" /\ New(p) = {}
  /\ pc' = [pc EXCEPT ![p] = "idle"] /\ out' = [out EXCEPT ![p] = {}]
  /\ known' = [known EXCEPT ![p] = {}]
  /\ IF head[p] = 0 THEN UNCHANGED <<last, failedHead>>
     ELSE last' = [last EXCEPT ![p] = head[p]] /\ failedHead' = [failedHead EXCEPT ![p] = 0]
  /\ UNCHANGED <<log, rows, head, resting, missed, scanFaults, scans>>

(* 30 seconds after a read, and 300 after a failure.                          *)
Rested(p) ==
  /\ pc[p] = "idle"
  /\ \/ resting[p] /\ resting' = [resting EXCEPT ![p] = FALSE] /\ UNCHANGED failedHead
     \/ failedHead[p] > 0 /\ failedHead' = [failedHead EXCEPT ![p] = 0] /\ UNCHANGED resting
  /\ UNCHANGED <<log, rows, pc, head, out, known, last, missed, scanFaults, scans>>

(* A process ends, with or without finishing, and another takes its place.     *)
ScanDies(p) ==
  /\ pc[p] # "idle" \/ last[p] > 0
  /\ Fault
  /\ pc' = [pc EXCEPT ![p] = "idle"] /\ head' = [head EXCEPT ![p] = 0]
  /\ out' = [out EXCEPT ![p] = {}] /\ known' = [known EXCEPT ![p] = {}]
  /\ last' = [last EXCEPT ![p] = 0] /\ failedHead' = [failedHead EXCEPT ![p] = 0]
  /\ resting' = [resting EXCEPT ![p] = FALSE] /\ missed' = [missed EXCEPT ![p] = FALSE]
  /\ UNCHANGED <<log, rows, scans>>

FNext ==
  \/ \E change \in Changes : CommitFiles(change)
  \/ \E p \in Procs : \/ Startup(p) \/ Refresh(p) \/ Git(p) \/ ReadShas(p)
                      \/ Insert(p) \/ ScanEnds(p) \/ Rested(p) \/ ScanDies(p)
FSpec == FInit /\ [][FNext]_fvars

-----------------------------------------------------------------------------
(* A process that does not scan again, because it has scanned this HEAD, has   *)
(* found the fixes of one file each that a scan can see, whatever was          *)
(* committed, died or was scanned by others meanwhile, unless an insertion     *)
(* failed in it (fix_history.py:726, 743-747).                               *)
FixesKnown == \A p \in Procs : last[p] = HEAD /\ ~missed[p] =>
  \A c \in Visible : log[c].fix /\ Cardinality(log[c].files) = 1 =>
    \E f \in log[c].files : <<c, f>> \in rows
=============================================================================

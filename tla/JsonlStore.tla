----------------------------- MODULE JsonlStore -----------------------------
(***************************************************************************)
(* One JSON-lines file of `.codevira/` (decisions.jsonl and its sisters),  *)
(* its lock and the calls that read, append to and rewrite it:             *)
(*   mcp_server/storage/atomic.py       file_lock, atomic_write_bytes      *)
(*   mcp_server/storage/jsonl_store.py  append, append_many,               *)
(*        append_with_generated_id, read_all, compact, transform_all       *)
(*                                                                         *)
(* A worker is a thread of one of several processes (an MCP server per     *)
(* editor, a CLI command, a hook).  A call takes the process's own lock    *)
(* for the path, opens the path, takes an advisory lock on what it opened, *)
(* and then reads and writes the file BY NAME.  A rewrite replaces the     *)
(* name's inode, so "the file that is locked" and "the file that has the   *)
(* name" are different things here, as they are in the code.               *)
(*                                                                         *)
(* A file is abstracted to what its readers tell apart: the records on     *)
(* well-formed lines, the records whose line no longer parses, and whether *)
(* the last line lacks its newline.                                        *)
(***************************************************************************)
EXTENDS Integers, Sequences, FiniteSets, FiniteSetsExt

CONSTANTS
  Workers, Procs, ProcOf,   \* the threads, the processes, and whose thread is whose
  OpsOf,                    \* OpsOf[w]: the calls that worker w makes
  OsLock,                   \* "flock" | "sentinel" (Windows) | "none" (flock raised OSError)
  Inodes,                   \* inodes to draw from: enough that one is always free
  SeedFiles,                \* contents the file may have at the start
  NoWorker, NoInode,
  MaxCalls,                 \* bound: calls made in a behaviour
  MaxCrashes,               \* bound: processes killed
  MaxTears                  \* bound: writes that stop half way (ENOSPC, kill)

Appends  == {"append", "append_many", "append_with_generated_id"}
Rewrites == {"compact", "transform_all"}
Ops      == Appends \cup Rewrites \cup {"read_all"}

(* A record: the call that wrote it, its place in that call's blob, and the *)
(* number in its "D00000N" id.  num = 0: the id is none that the allocator  *)
(* counts (an amendment borrows its target's, a repaired id is hashed).     *)
(* Call 0 stands for whatever was in the file before.                       *)
Rec  == [call : Nat, part : Nat, num : Nat]
(* `open` is the record on the last line when only its newline is missing.   *)
File == [ok : SUBSET Rec, bad : SUBSET Rec, torn : BOOLEAN, open : SUBSET Rec]
NoFile == [ok |-> {}, bad |-> {}, torn |-> FALSE, open |-> {}]

ASSUME ConstantsAssumption ==
  /\ ProcOf \in [Workers -> Procs]
  /\ OpsOf \in [Workers -> SUBSET Ops]
  /\ OsLock \in {"flock", "sentinel", "none"}
  /\ NoWorker \notin Workers
  /\ NoInode \notin Inodes
  /\ MaxCalls \in Nat /\ MaxCrashes \in Nat /\ MaxTears \in Nat

ASSUME SeedAssumption ==
  \A f \in SeedFiles :
    /\ f \in File
    /\ f.bad = {} /\ f.open = {}
    /\ IsFiniteSet(f.ok)
    /\ \A r \in f.ok : r.call = 0

VARIABLES
  path,      \* the inode the name refers to
  files,     \* contents by inode
  plock,     \* plock[p]: the thread of p that holds its threading.Lock
  fd,        \* fd[w]: the inode w opened to lock
  held,      \* held[w]: the advisory lock w holds on fd[w]
  sentinel,  \* does the Windows sentinel file exist
  pc, op,
  seen,      \* seen[w]: what w read
  wfd,       \* wfd[w]: the inode w opened for appending
  blob,      \* blob[w]: the records w is about to write
  since,     \* since[w]: what was acknowledged when w's call began
  acked,     \* records of the append calls that returned
  dropped,   \* records a compaction was told to drop
  calls, crashes, tears

lockVars == <<plock, fd, held, sentinel>>
callVars == <<op, seen, wfd, blob, since>>
histVars == <<acked, dropped>>
countVars == <<calls, crashes, tears>>
vars == <<path, files, lockVars, pc, callVars, histVars, countVars>>

Control == {"idle", "start", "opened", "locked", "loaded", "writing", "done", "failed"}

-----------------------------------------------------------------------------
(* What the calls do to a file's contents.                                  *)

RangeOf(s) == {s[i] : i \in DOMAIN s}

(* Mutant: a glued line takes the whole batch with it.                       *)
AppendedAllGlued(f, b) ==
  IF f.torn THEN [ok |-> f.ok \ f.open, bad |-> f.bad \cup f.open \cup RangeOf(b),
                  torn |-> FALSE, open |-> {}]
            ELSE [f EXCEPT !.ok = @ \cup RangeOf(b)]
AppendedKeepingOpen(f, b) ==
  IF f.torn THEN [ok |-> (f.ok \ f.open) \cup (RangeOf(b) \ {b[1]}),
                  bad |-> f.bad \cup f.open \cup {b[1]}, torn |-> FALSE, open |-> f.open]
            ELSE [f EXCEPT !.ok = @ \cup RangeOf(b)]

(* open(path, "ab"); fh.write(blob): the blob goes after the last byte.  If  *)
(* that byte is no newline the blob's first line joins the line before it,   *)
(* and the joined line parses as neither.                                    *)
Appended(f, b) ==
  IF f.torn
  THEN [ok   |-> (f.ok \ f.open) \cup (RangeOf(b) \ {b[1]}),
        bad  |-> f.bad \cup f.open \cup {b[1]},
        torn |-> FALSE,
        open |-> {}]
  ELSE [f EXCEPT !.ok = @ \cup RangeOf(b)]

(* The write stopped inside line k + 1 of the blob; `whole` when only the    *)
(* newline is missing, so that a reader still takes the line for a record.   *)
CutShort(f, b, k, whole) ==
  LET g == IF k = 0 THEN f ELSE Appended(f, SubSeq(b, 1, k))
  IN  IF g.torn
      THEN [ok |-> g.ok \ g.open, bad |-> g.bad \cup g.open, torn |-> TRUE, open |-> {}]
      ELSE [g EXCEPT !.ok   = IF whole THEN @ \cup {b[k + 1]} ELSE @,
                     !.torn = TRUE,
                     !.open = IF whole THEN {b[k + 1]} ELSE {}]

CutShorts(f, b) ==
  {CutShort(f, b, k, whole) : k \in 0 .. Len(b) - 1, whole \in BOOLEAN}

(* Mutant: the number of records plus one.                                   *)
NextNumByCount(f) == 1 + Cardinality(f.ok)

(* max over the base records' sequential ids, plus one.                      *)
NextNum(f) == 1 + Max({r.num : r \in f.ok} \cup {0})

(* compact: the kept lines, malformed ones among them, each with a newline.  *)
Compacted(f, drop) ==
  [ok |-> f.ok \ drop, bad |-> f.bad, torn |-> FALSE, open |-> {}]

(* The transform `repair-ids` passes: of the records that share a number all *)
(* but one get an id that is not sequential.  IdRepair has the choice.       *)
Loser(f, r) ==
  \E s \in f.ok : /\ s.num = r.num
                  /\ r.num > 0
                  /\ \/ s.call < r.call
                     \/ s.call = r.call /\ s.part < r.part

(* Mutant: the losers are left out.                                          *)
TransformedDropping(f) ==
  [ok |-> {r \in f.ok : ~Loser(f, r)}, bad |-> f.bad, torn |-> FALSE, open |-> {}]

Transformed(f) ==
  [ok   |-> {r \in f.ok : ~Loser(f, r)} \cup {[r EXCEPT !.num = 0] : r \in {q \in f.ok : Loser(f, q)}},
   bad  |-> f.bad,
   torn |-> FALSE,
   open |-> {}]

-----------------------------------------------------------------------------
Init ==
  /\ \/ path = NoInode /\ files = [i \in Inodes |-> NoFile]
     \/ \E i \in Inodes, f \in SeedFiles :
          /\ path = i
          /\ files = [j \in Inodes |-> IF j = i THEN f ELSE NoFile]
  /\ plock = [p \in Procs |-> NoWorker]
  /\ fd = [w \in Workers |-> NoInode]
  /\ held = [w \in Workers |-> "no"]
  /\ sentinel = FALSE
  /\ pc = [w \in Workers |-> "idle"]
  /\ op = [w \in Workers |-> "read_all"]
  /\ seen = [w \in Workers |-> NoFile]
  /\ wfd = [w \in Workers |-> NoInode]
  /\ blob = [w \in Workers |-> << >>]
  /\ since = [w \in Workers |-> {}]
  /\ acked = {} /\ dropped = {}
  /\ calls = 0 /\ crashes = 0 /\ tears = 0

Current == IF path = NoInode THEN NoFile ELSE files[path]

(* An inode nothing refers to: what mkstemp and O_CREAT hand out.            *)
Free(i) == i # path /\ \A w \in Workers : i # fd[w] /\ i # wfd[w]

NewRec(part, num) == [call |-> calls + 1, part |-> part, num |-> num]

(* A call begins.  read_all and compact return at once when there is no file. *)
Call(w, o) ==
  /\ pc[w] = "idle"
  /\ o \in OpsOf[w]
  /\ calls < MaxCalls
  /\ calls' = calls + 1
  /\ op' = [op EXCEPT ![w] = o]
  /\ blob' = [blob EXCEPT ![w] =
                CASE o = "append"      -> <<NewRec(1, 0)>>
                  [] o = "append_many" -> <<NewRec(1, 0), NewRec(2, 0)>>
                  [] o = "append_with_generated_id" -> <<NewRec(1, 0)>>
                  [] OTHER -> << >>]
  /\ since' = [since EXCEPT ![w] = acked]
  /\ pc' = [pc EXCEPT ![w] =
              IF path = NoInode /\ o \in {"read_all", "compact"} THEN "idle" ELSE "start"]
  /\ UNCHANGED <<path, files, lockVars, seen, wfd, histVars, crashes, tears>>

(* The process lock, then os.open(path, O_RDWR | O_CREAT).  One step: the    *)
(* open could as well come right after the acquire.                          *)
Enter(w) ==
  /\ pc[w] = "start"
  /\ plock[ProcOf[w]] = NoWorker
  /\ plock' = [plock EXCEPT ![ProcOf[w]] = w]
  /\ IF path = NoInode
     THEN \E i \in Inodes : /\ Free(i)
                            /\ path' = i
                            /\ files' = [files EXCEPT ![i] = NoFile]
                            /\ fd' = [fd EXCEPT ![w] = i]
     ELSE /\ fd' = [fd EXCEPT ![w] = path]
          /\ UNCHANGED <<path, files>>
  /\ pc' = [pc EXCEPT ![w] = "opened"]
  /\ UNCHANGED <<held, sentinel, callVars, histVars, countVars>>

(* Mutant: every call takes the shared lock.                                 *)
ModeShared(w) == "sh"

Mode(w) == IF op[w] = "read_all" THEN "sh" ELSE "ex"

(* fcntl.flock on the descriptor: it excludes those who opened the same inode. *)
Flock(w) ==
  /\ OsLock = "flock"
  /\ \A v \in Workers \ {w} :
       held[v] # "no" /\ fd[v] = fd[w] => Mode(w) = "sh" /\ held[v] = "sh"
  /\ held' = [held EXCEPT ![w] = Mode(w)]
  /\ UNCHANGED sentinel

(* Mutant: it waits for a stale sentinel to go away.                         *)
SentinelWaits(w) ==
  /\ OsLock = "sentinel" /\ ~sentinel
  /\ sentinel' = TRUE
  /\ held' = [held EXCEPT ![w] = "ex"]

(* Windows: create `<path>.lock` with O_EXCL; five seconds of failing, and   *)
(* the call goes on without it.                                              *)
Sentinel(w) ==
  /\ OsLock = "sentinel"
  /\ IF sentinel
     THEN UNCHANGED <<held, sentinel>>
     ELSE /\ sentinel' = TRUE
          /\ held' = [held EXCEPT ![w] = "ex"]

(* flock raised OSError (a file system without it): no lock, with a warning. *)
Unlockable(w) == OsLock = "none" /\ UNCHANGED <<held, sentinel>>

Acquire(w) ==
  /\ pc[w] = "opened"
  /\ Flock(w) \/ Sentinel(w) \/ Unlockable(w)
  /\ pc' = [pc EXCEPT ![w] = "locked"]
  /\ UNCHANGED <<path, files, plock, fd, callVars, histVars, countVars>>

(* Mutant: what transform_all replaced, the locks are given back after the   *)
(* read.                                                                     *)
LoadThenUnlock(w) ==
  /\ pc[w] = "locked"
  /\ op[w] \in {"read_all", "append_with_generated_id"} \cup Rewrites
  /\ seen' = [seen EXCEPT ![w] = files[path]]
  /\ blob' = [blob EXCEPT ![w] =
                IF op[w] = "append_with_generated_id"
                THEN <<[@[1] EXCEPT !.num = NextNum(files[path])]>>
                ELSE @]
  /\ plock' = [plock EXCEPT ![ProcOf[w]] = NoWorker]
  /\ held' = [held EXCEPT ![w] = "no"]
  /\ pc' = [pc EXCEPT ![w] = IF op[w] = "read_all" THEN "done" ELSE "loaded"]
  /\ UNCHANGED <<path, files, fd, sentinel, op, wfd, since, histVars, countVars>>

(* The part of the body that reads: open(path), by name.                     *)
Load(w) ==
  /\ pc[w] = "locked"
  /\ op[w] \in {"read_all", "append_with_generated_id"} \cup Rewrites
  /\ seen' = [seen EXCEPT ![w] = files[path]]
  /\ blob' = [blob EXCEPT ![w] =
                IF op[w] = "append_with_generated_id"
                THEN <<[@[1] EXCEPT !.num = NextNum(files[path])]>>
                ELSE @]
  /\ pc' = [pc EXCEPT ![w] = IF op[w] = "read_all" THEN "done" ELSE "loaded"]
  /\ UNCHANGED <<path, files, lockVars, op, wfd, since, histVars, countVars>>

(* open(path, "ab"), by name too.                                            *)
OpenAppend(w) ==
  /\ \/ pc[w] = "locked" /\ op[w] \in {"append", "append_many"}
     \/ pc[w] = "loaded" /\ op[w] = "append_with_generated_id"
  /\ wfd' = [wfd EXCEPT ![w] = path]
  /\ pc' = [pc EXCEPT ![w] = "writing"]
  /\ UNCHANGED <<path, files, lockVars, op, seen, blob, since, histVars, countVars>>

Write(w) ==
  /\ pc[w] = "writing"
  /\ files' = [files EXCEPT ![wfd[w]] = Appended(@, blob[w])]
  /\ pc' = [pc EXCEPT ![w] = "done"]
  /\ UNCHANGED <<path, lockVars, callVars, histVars, countVars>>

(* The write raises OSError with part of the blob on disk.                   *)
WriteStopsShort(w) ==
  /\ pc[w] = "writing"
  /\ tears < MaxTears
  /\ tears' = tears + 1
  /\ \E f \in CutShorts(files[wfd[w]], blob[w]) : files' = [files EXCEPT ![wfd[w]] = f]
  /\ pc' = [pc EXCEPT ![w] = "failed"]
  /\ UNCHANGED <<path, lockVars, callVars, histVars, calls, crashes>>

(* atomic_write_text: a new file, synced, takes the name.                    *)
ReplaceBy(f) ==
  \E i \in Inodes : /\ Free(i)
                    /\ path' = i
                    /\ files' = [files EXCEPT ![i] = f]

(* The predicate of a compaction may drop anything that parses.              *)
Compact(w) ==
  /\ pc[w] = "loaded" /\ op[w] = "compact"
  /\ \E drop \in SUBSET seen[w].ok :
       /\ ReplaceBy(Compacted(seen[w], drop))
       /\ dropped' = dropped \cup drop
  /\ pc' = [pc EXCEPT ![w] = "done"]
  /\ UNCHANGED <<lockVars, callVars, acked, countVars>>

(* should_write: nothing is written when no id changed.                      *)
TransformAll(w) ==
  /\ pc[w] = "loaded" /\ op[w] = "transform_all"
  /\ IF \E r \in seen[w].ok : Loser(seen[w], r)
     THEN ReplaceBy(Transformed(seen[w]))
     ELSE UNCHANGED <<path, files>>
  /\ pc' = [pc EXCEPT ![w] = "done"]
  /\ UNCHANGED <<lockVars, callVars, histVars, countVars>>

(* The finally clauses: unlock, close, release; then the call returns (or    *)
(* raises, when its write failed).                                           *)
Release(w) ==
  /\ pc[w] \in {"done", "failed"}
  /\ acked' = IF pc[w] = "done" THEN acked \cup RangeOf(blob[w]) ELSE acked
  /\ held' = [held EXCEPT ![w] = "no"]
  /\ sentinel' = (sentinel /\ ~(OsLock = "sentinel" /\ held[w] = "ex"))
  /\ plock' = [plock EXCEPT ![ProcOf[w]] = NoWorker]
  /\ fd' = [fd EXCEPT ![w] = NoInode]
  /\ wfd' = [wfd EXCEPT ![w] = NoInode]
  /\ seen' = [seen EXCEPT ![w] = NoFile]
  /\ blob' = [blob EXCEPT ![w] = << >>]
  /\ since' = [since EXCEPT ![w] = {}]
  /\ pc' = [pc EXCEPT ![w] = "idle"]
  /\ UNCHANGED <<path, files, op, dropped, countVars>>

(* Process p is killed.  The system closes its descriptors, which frees the  *)
(* flocks; the sentinel file stays.  A write under way is not done, or done, *)
(* or stopped part way.                                                      *)
Killed(p) == {w \in Workers : ProcOf[w] = p}

Crash(p) ==
  LET reset(f, v) == [w \in Workers |-> IF w \in Killed(p) THEN v ELSE f[w]]
      writers == {w \in Killed(p) : pc[w] = "writing"}
  IN
  /\ crashes < MaxCrashes
  /\ \E w \in Killed(p) : pc[w] # "idle"
  /\ crashes' = crashes + 1
  /\ \/ UNCHANGED <<files, tears>>
     \/ \E w \in writers : /\ files' = [files EXCEPT ![wfd[w]] = Appended(@, blob[w])]
                           /\ UNCHANGED tears
     \/ \E w \in writers : /\ tears < MaxTears
                           /\ tears' = tears + 1
                           /\ \E f \in CutShorts(files[wfd[w]], blob[w]) :
                                files' = [files EXCEPT ![wfd[w]] = f]
  /\ pc' = reset(pc, "idle")
  /\ held' = reset(held, "no")
  /\ fd' = reset(fd, NoInode)
  /\ wfd' = reset(wfd, NoInode)
  /\ seen' = reset(seen, NoFile)
  /\ blob' = reset(blob, << >>)
  /\ since' = reset(since, {})
  /\ plock' = [plock EXCEPT ![p] = NoWorker]
  /\ UNCHANGED <<path, sentinel, op, histVars, calls>>

Step(w) ==
  \/ Enter(w) \/ Acquire(w) \/ Load(w) \/ OpenAppend(w) \/ Write(w)
  \/ Compact(w) \/ TransformAll(w) \/ Release(w)

(* The bound MaxCalls has been reached and every call has ended.             *)
Exhausted ==
  /\ calls = MaxCalls
  /\ \A w \in Workers : pc[w] = "idle"
  /\ UNCHANGED vars

Next ==
  \/ Exhausted
  \/ \E w \in Workers, o \in Ops : Call(w, o)
  \/ \E w \in Workers : Step(w) \/ WriteStopsShort(w)
  \/ \E p \in Procs : Crash(p)

Spec == Init /\ [][Next]_vars

(* A thread that is running goes on running, and a lock that stays free is   *)
(* taken.  Nothing is assumed about who wins a lock two threads want.        *)
FairSpec == Spec /\ \A w \in Workers : WF_vars(Step(w))

-----------------------------------------------------------------------------
(* Types, and that only a record on an unterminated last line is open.        *)
WellFormed(f) ==
  /\ f.open \subseteq f.ok
  /\ f.open # {} => f.torn

TypeOK ==
  /\ path \in Inodes \cup {NoInode}
  /\ files \in [Inodes -> File]
  /\ \A i \in Inodes : WellFormed(files[i])
  /\ plock \in [Procs -> Workers \cup {NoWorker}]
  /\ fd \in [Workers -> Inodes \cup {NoInode}]
  /\ held \in [Workers -> {"no", "sh", "ex"}]
  /\ sentinel \in BOOLEAN
  /\ pc \in [Workers -> Control]
  /\ op \in [Workers -> Ops]
  /\ seen \in [Workers -> File]
  /\ wfd \in [Workers -> Inodes \cup {NoInode}]
  /\ blob \in [Workers -> Seq(Rec)]
  /\ since \in [Workers -> SUBSET Rec]
  /\ acked \subseteq Rec /\ dropped \subseteq Rec
  /\ calls \in 0 .. MaxCalls /\ crashes \in 0 .. MaxCrashes /\ tears \in 0 .. MaxTears

Readable == Current.ok
Inside(w) == pc[w] \in {"locked", "loaded", "writing", "done", "failed"}

(* "Concurrent writers must serialize" (atomic.py:162): while a writer is    *)
(* between taking the lock and giving it back, no other call is.             *)
MutualExclusion ==
  \A v, w \in Workers :
    v # w /\ Inside(v) /\ Inside(w) => op[v] = "read_all" /\ op[w] = "read_all"

(* A record whose append returned is read back, with the id its caller was   *)
(* given, unless a compaction was told to drop it: no rewrite, append or     *)
(* repair of another thread undoes it.                                       *)
AckedReadable == acked \subseteq Readable \cup dropped

(* ... and each interrupted write costs at most one returned record.         *)
TearsLoseOneEach == Cardinality(acked \ (Readable \cup dropped)) <= tears

(* Two readable records share a sequential number only if the file began     *)
(* that way: the allocator never hands out the id of a record in the file.   *)
LiveIdsDistinct ==
  \A r, s \in Readable :
    r # s /\ r.num = s.num /\ r.num > 0 => r.call = 0 /\ s.call = 0

(* Two calls of append_with_generated_id never return the same id, whether   *)
(* or not their records can still be read.                                   *)
ReturnedIdsDistinct ==
  \A r, s \in acked : r # s /\ r.num = s.num => r.num = 0

(* While no write has stopped half way, no id is returned twice.              *)
WholeIdsDistinct == tears = 0 => ReturnedIdsDistinct

(* A read returns every record that had been acknowledged when it began, but *)
(* for what a compaction dropped.                                            *)
ReadsAreFresh ==
  \A w \in Workers :
    pc[w] = "done" /\ op[w] = "read_all" => since[w] \subseteq seen[w].ok \cup dropped

(* A rewrite publishes what it computed from the file as it is: nothing was  *)
(* added behind its back, so nothing is undone.                              *)
RewritesSeeAll ==
  [][\A w \in Workers :
       pc[w] = "loaded" /\ op[w] \in Rewrites /\ pc'[w] = "done" => seen[w] = Current]_vars

(* No call waits for ever on a lock: whoever holds one gives it back, and a  *)
(* lock whose holder was killed is free again or is given up on.             *)
EveryCallEnds == \A w \in Workers : pc[w] # "idle" ~> pc[w] = "idle"

(* The file, as its callers see it, is the log that AbstractLog promises:     *)
(* locks, inodes and lines are how it is kept.                               *)
Log == INSTANCE AbstractLog
         WITH log <- Readable, removed <- dropped, returned <- acked,
              SeedLogs <- {f.ok : f \in SeedFiles} \cup {{}}
ImplementsLog == Log!Spec
=============================================================================

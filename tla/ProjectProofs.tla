---------------------------- MODULE ProjectProofs ----------------------------
(***************************************************************************)
(* Eight parts of a project that share nothing, for every value of their   *)
(* constants: the fixes that processes learn from git (FixHistory), the    *)
(* ends of turns (SessionLog), the scratchpad (WorkingMemory), the first   *)
(* contact with a project (FirstContact), the registry of projects         *)
(* (Registry), hooks with their scripts (Installation), what servers do to *)
(* the stores when they start (Migrations) and what edits do to the        *)
(* symbols of locked decisions (HookEngine).                               *)
(***************************************************************************)
EXTENDS FixHistory, SessionLog, WorkingMemory, FirstContact, Registry, Installation,
        Migrations, HookEngine, SetLemmas, SequenceTheorems

-----------------------------------------------------------------------------
(* The ends of turns.                                                         *)

(* A turn whose end was refused is marked, until it ends.                     *)
TurnInv ==
  /\ turn \in [Sessions -> {"idle", "working", "again"}]
  /\ refusals \in [Sessions -> 0 .. 1]
  /\ \A s \in Sessions : turn[s] = "working" => refusals[s] = 0

LEMMA TurnStep == ASSUME TurnInv, [TNext]_(tvars) PROVE TurnInv'
<1>1. CASE CommitWork \/ WriteLog \/ UNCHANGED tvars
  BY <1>1 DEF TurnInv, CommitWork, WriteLog, tvars
<1>2. ASSUME NEW s \in Sessions, Begin(s) PROVE TurnInv'
  BY <1>2 DEF TurnInv, Begin
<1>3. ASSUME NEW s \in Sessions, Prompt(s) PROVE TurnInv'
  BY <1>3 DEF TurnInv, Prompt
<1>4. ASSUME NEW s \in Sessions, Stop(s) PROVE TurnInv'
  <2>1. CASE turn' = [turn EXCEPT ![s] = "idle"] /\ UNCHANGED refusals
    BY <2>1 DEF TurnInv
  <2>2. CASE /\ turn[s] = "working" /\ turn' = [turn EXCEPT ![s] = "again"]
             /\ refusals' = [refusals EXCEPT ![s] = @ + 1]
    BY <2>2 DEF TurnInv
  <2> QED
    BY <1>4, <2>1, <2>2 DEF Stop
<1> QED
  BY <1>1, <1>2, <1>3, <1>4 DEF TNext

(* No turn is refused its end twice, in any number of sessions and whatever   *)
(* is committed, logged or begun anew meanwhile.                              *)
THEOREM RefusedOnce == TSpec => []TurnsEnd
<1>1. TInit => TurnInv
  BY DEF TInit, TurnInv
<1>2. TurnInv /\ [TNext]_(tvars) => TurnInv'
  BY TurnStep
<1>3. TurnInv => TurnsEnd
  BY DEF TurnInv, TurnsEnd
<1> QED
  BY <1>1, <1>2, <1>3, PTL DEF TSpec

-----------------------------------------------------------------------------
(* The fixes that a process knows.                                            *)

Stages == {"idle", "git", "shas", "insert"}

(* A fix that a lookup may ask for, and that there is a row of it.            *)
Single(c) == log[c].fix /\ Cardinality(log[c].files) = 1
Recorded(c) == \E f \in log[c].files : <<c, f>> \in rows

(* The scan of p is for a HEAD that p will remember, and is inserting.        *)
Inserting(p) == pc[p] = "insert" /\ head[p] # 0

FixTypes ==
  /\ log \in Seq(Changes)
  /\ \A r \in rows : r[1] \in 1 .. HEAD /\ r[2] \in FiledUnder(r[1]) /\ r = <<r[1], r[2]>>
  /\ pc \in [Procs -> Stages]
  /\ head \in [Procs -> 0 .. HEAD] /\ last \in [Procs -> 0 .. HEAD]
  /\ out \in [Procs -> SUBSET (1 .. HEAD)] /\ known \in [Procs -> SUBSET (1 .. HEAD)]
  /\ missed \in [Procs -> BOOLEAN]

(* What a scan for HEAD has found of what git shows now: it has the commits in *)
(* hand, or their rows are there.  What was remembered before is older.       *)
ScanOf(p) ==
  /\ pc[p] # "idle" /\ head[p] # 0 => last[p] < head[p]
  /\ \A c \in known[p] : \E r \in rows : r[1] = c
  /\ pc[p] = "shas" /\ head[p] # 0 => \A c \in Visible : c <= head[p] => c \in out[p]
  /\ Inserting(p) /\ ~missed[p] =>
       \A c \in Visible : c <= head[p] /\ Single(c) => c \in out[p] \ known[p] \/ Recorded(c)
  /\ ~Inserting(p) /\ ~missed[p] =>
       \A c \in Visible : c <= last[p] /\ Single(c) => Recorded(c)

FixInv == FixTypes /\ \A p \in Procs : ScanOf(p)

LEMMA HeadIsNat ==
  ASSUME FixInv
  PROVE  HEAD \in Nat /\ DOMAIN log = 1 .. HEAD /\ \A c \in DOMAIN log : log[c] \in Changes
BY LenProperties, ElementOfSeq DEF FixInv, FixTypes, HEAD

(* A row of a commit is that of its file, when it has one.                    *)
LEMMA RowOfSingle ==
  ASSUME FixInv, NEW r \in rows, Single(r[1])
  PROVE  Recorded(r[1])
BY DEF FixInv, FixTypes, FiledUnder, Single, Recorded

(* HEAD moves on.                                                             *)
LEMMA CommitKeeps ==
  ASSUME FixInv, NEW change \in Changes, CommitFiles(change)
  PROVE  FixInv'
<1>1. HEAD \in Nat /\ DOMAIN log = 1 .. HEAD
  BY HeadIsNat
<1>2. log' = Append(log, change) /\ UNCHANGED <<rows, pc, head, out, known, memory>>
  BY DEF CommitFiles
<1>3. log' \in Seq(Changes) /\ HEAD' = HEAD + 1 /\ \A c \in 1 .. HEAD : log'[c] = log[c]
  BY <1>2, AppendProperties DEF FixInv, FixTypes, HEAD
<1>4. \A c \in 1 .. HEAD : FiledUnder(c)' = FiledUnder(c) /\ (Single(c)' <=> Single(c)) /\ (Recorded(c)' <=> Recorded(c))
  BY <1>2, <1>3 DEF FiledUnder, Single, Recorded
<1>5. 1 .. HEAD \subseteq 1 .. HEAD' /\ 0 .. HEAD \subseteq 0 .. HEAD'
  BY <1>1, <1>3
<1>6. FixTypes'
  BY <1>2, <1>3, <1>4, <1>5 DEF FixInv, FixTypes, memory
<1>7. \A c \in Visible' : c <= HEAD => c \in Visible
  BY <1>1, <1>3, FixAssumption DEF Visible
<1>8. ASSUME NEW p \in Procs
      PROVE  ScanOf(p)'
  <2>1. head[p] \in 0 .. HEAD /\ last[p] \in 0 .. HEAD
    BY DEF FixInv, FixTypes
  <2>2. \A c \in Visible' : c \in Nat /\ 1 <= c
    BY <1>1, <1>3 DEF Visible
  <2>3. \A c \in Visible' : c <= head[p] \/ c <= last[p] => c \in Visible /\ c \in 1 .. HEAD
    BY <1>1, <1>7, <2>1, <2>2
  <2> QED
    BY <1>2, <1>4, <2>3 DEF FixInv, ScanOf, Inserting, memory
<1> QED
  BY <1>6, <1>8 DEF FixInv

(* One process takes a step, which may add rows of commits that there are.    *)
LEMMA OneProcess ==
  ASSUME FixInv, NEW p \in Procs, log' = log, rows \subseteq rows',
         \A r \in rows' : r[1] \in 1 .. HEAD /\ r[2] \in FiledUnder(r[1]) /\ r = <<r[1], r[2]>>,
         NEW pcp \in Stages, pc' = [pc EXCEPT ![p] = pcp],
         NEW hp \in 0 .. HEAD, head' = [head EXCEPT ![p] = hp],
         NEW op \in SUBSET (1 .. HEAD), out' = [out EXCEPT ![p] = op],
         NEW kp \in SUBSET (1 .. HEAD), known' = [known EXCEPT ![p] = kp],
         NEW lp \in 0 .. HEAD, last' = [last EXCEPT ![p] = lp],
         NEW mp \in BOOLEAN, missed' = [missed EXCEPT ![p] = mp],
         ScanOf(p)'
  PROVE  FixInv'
<1>1. HEAD' = HEAD /\ Visible' = Visible /\ \A c : FiledUnder(c)' = FiledUnder(c) /\ (Single(c)' <=> Single(c))
                                                  /\ (Recorded(c) => Recorded(c)')
  BY DEF HEAD, Visible, FiledUnder, Single, Recorded
<1>2. FixTypes'
  BY <1>1 DEF FixInv, FixTypes
<1>3. ASSUME NEW q \in Procs, q # p
      PROVE  ScanOf(q)'
  <2>1. ScanOf(q)
    BY DEF FixInv
  <2>2. /\ pc'[q] = pc[q] /\ head'[q] = head[q] /\ out'[q] = out[q] /\ known'[q] = known[q]
        /\ last'[q] = last[q] /\ missed'[q] = missed[q]
    BY <1>3 DEF FixInv, FixTypes
  <2> QED
    BY <1>1, <2>1, <2>2 DEF ScanOf, Inserting
<1>4. \A q \in Procs : ScanOf(q)'
  BY <1>3
<1> QED
  BY <1>2, <1>4 DEF FixInv

(* What is known of a process, and what it leaves alone.                      *)
LEMMA OfProcess ==
  ASSUME FixInv, NEW p \in Procs
  PROVE  /\ ScanOf(p) /\ HEAD \in Nat /\ 0 \in 0 .. HEAD
         /\ pc[p] \in Stages /\ head[p] \in 0 .. HEAD /\ last[p] \in 0 .. HEAD
         /\ out[p] \in SUBSET (1 .. HEAD) /\ known[p] \in SUBSET (1 .. HEAD) /\ missed[p] \in BOOLEAN
         /\ pc = [pc EXCEPT ![p] = pc[p]] /\ head = [head EXCEPT ![p] = head[p]]
         /\ out = [out EXCEPT ![p] = out[p]] /\ known = [known EXCEPT ![p] = known[p]]
         /\ last = [last EXCEPT ![p] = last[p]] /\ missed = [missed EXCEPT ![p] = missed[p]]
         /\ \A r \in rows : r[1] \in 1 .. HEAD /\ r[2] \in FiledUnder(r[1]) /\ r = <<r[1], r[2]>>
<1>1. HEAD \in Nat /\ 0 \in 0 .. HEAD
  BY HeadIsNat
<1> QED
  BY <1>1 DEF FixInv, FixTypes

(* What git shows, and what a lookup may ask for, is a matter of the commits.  *)
LEMMA SameLog ==
  ASSUME log' = log
  PROVE  Visible' = Visible /\ HEAD' = HEAD /\ \A c : Single(c)' <=> Single(c)
BY DEF HEAD, Visible, Single

(* Steps that touch nothing the invariant speaks of.                          *)
LEMMA RestKeeps ==
  ASSUME FixInv, UNCHANGED <<log, rows, pc, head, out, known, last, missed>>
  PROVE  FixInv'
<1>1. HEAD' = HEAD /\ Visible' = Visible
      /\ \A c : FiledUnder(c)' = FiledUnder(c) /\ (Single(c)' <=> Single(c)) /\ (Recorded(c)' <=> Recorded(c))
  BY DEF HEAD, Visible, FiledUnder, Single, Recorded
<1>2. \A p \in Procs : ScanOf(p) => ScanOf(p)'
  BY <1>1 DEF ScanOf, Inserting
<1> QED
  BY <1>1, <1>2 DEF FixInv, FixTypes

LEMMA StartupKeeps ==
  ASSUME FixInv, NEW p \in Procs, Startup(p)
  PROVE  FixInv'
<1>1. /\ pc[p] = "idle" /\ last[p] = 0 /\ head' = [head EXCEPT ![p] = 0]
      /\ pc' = [pc EXCEPT ![p] = "git"]
      /\ UNCHANGED <<log, rows, out, known, last, missed>>
  BY DEF Startup, memory
<1>2. \A c : Recorded(c) <=> Recorded(c)'
  BY <1>1 DEF Recorded
<1>v. /\ pc'[p] = "git" /\ head'[p] = 0 /\ out'[p] = out[p] /\ known'[p] = known[p]
      /\ last'[p] = last[p] /\ missed'[p] = missed[p]
  BY <1>1 DEF FixInv, FixTypes
<1>3. ScanOf(p)'
  BY <1>1, <1>2, <1>v, OfProcess, SameLog DEF ScanOf, Inserting
<1>4. "git" \in Stages
  BY DEF Stages
<1> QED
  BY <1>1, <1>3, <1>4, OfProcess, OneProcess

LEMMA RefreshKeeps ==
  ASSUME FixInv, NEW p \in Procs, Refresh(p)
  PROVE  FixInv'
<1>1. /\ pc[p] = "idle" /\ HEAD > 0 /\ UNCHANGED <<log, rows, out, known, last, missed>>
  BY DEF Refresh
<1>2. \A c : Recorded(c) <=> Recorded(c)'
  BY <1>1 DEF Recorded
<1>3. CASE UNCHANGED <<pc, head>>
  <2> QED
    BY <1>1, <1>3, RestKeeps
<1>4. CASE /\ HEAD # last[p] /\ pc' = [pc EXCEPT ![p] = "git"]
           /\ head' = [head EXCEPT ![p] = HEAD]
  <2>1. last[p] < HEAD /\ HEAD \in 0 .. HEAD
    BY <1>4, OfProcess
  <2>2. ScanOf(p)'
    <3>1. /\ pc'[p] = "git" /\ head'[p] = HEAD /\ out'[p] = out[p] /\ known'[p] = known[p]
          /\ last'[p] = last[p] /\ missed'[p] = missed[p]
      BY <1>1, <1>4 DEF FixInv, FixTypes
    <3> QED
      BY <1>1, <1>2, <2>1, <3>1, OfProcess, SameLog DEF ScanOf, Inserting
  <2>3. "git" \in Stages
    BY DEF Stages
  <2> QED
    BY <1>1, <1>4, <2>1, <2>2, <2>3, OfProcess, OneProcess
<1> QED
  BY <1>3, <1>4 DEF Refresh

LEMMA GitKeeps ==
  ASSUME FixInv, NEW p \in Procs, Git(p)
  PROVE  FixInv'
<1>1. pc[p] = "git" /\ UNCHANGED <<log, rows, head, known, last, missed>>
  BY DEF Git
<1>2. \A c : Recorded(c) <=> Recorded(c)'
  BY <1>1 DEF Recorded
<1>3. CASE out' = [out EXCEPT ![p] = Visible] /\ pc' = [pc EXCEPT ![p] = "shas"]
  <2>1. ScanOf(p)'
    <3>1. /\ pc'[p] = "shas" /\ head'[p] = head[p] /\ out'[p] = Visible /\ known'[p] = known[p]
          /\ last'[p] = last[p] /\ missed'[p] = missed[p]
      BY <1>1, <1>3 DEF FixInv, FixTypes
    <3> QED
      BY <1>1, <1>2, <3>1, OfProcess, SameLog DEF ScanOf, Inserting
  <2>2. Visible \in SUBSET (1 .. HEAD) /\ "shas" \in Stages
    BY DEF Visible, Stages
  <2> QED
    BY <1>1, <1>3, <2>1, <2>2, OfProcess, OneProcess
<1>4. CASE pc' = [pc EXCEPT ![p] = "idle"] /\ UNCHANGED out
  <2>1. ScanOf(p)'
    <3>1. /\ pc'[p] = "idle" /\ head'[p] = head[p] /\ out'[p] = out[p] /\ known'[p] = known[p]
          /\ last'[p] = last[p] /\ missed'[p] = missed[p]
      BY <1>1, <1>4 DEF FixInv, FixTypes
    <3> QED
      BY <1>1, <1>2, <3>1, OfProcess, SameLog DEF ScanOf, Inserting
  <2>2. "idle" \in Stages
    BY DEF Stages
  <2> QED
    BY <1>1, <1>4, <2>1, <2>2, OfProcess, OneProcess
<1> QED
  BY <1>3, <1>4 DEF Git

LEMMA ReadShasKeeps ==
  ASSUME FixInv, NEW p \in Procs, ReadShas(p)
  PROVE  FixInv'
<1>1. /\ pc[p] = "shas" /\ pc' = [pc EXCEPT ![p] = "insert"]
      /\ missed' = IF head[p] = 0 THEN missed ELSE [missed EXCEPT ![p] = FALSE]
      /\ UNCHANGED <<log, rows, head, out, last>>
  BY DEF ReadShas
<1>2. \A c : Recorded(c) <=> Recorded(c)'
  BY <1>1 DEF Recorded
<1>3. PICK kp : kp \in {{}, {r[1] : r \in rows}} /\ known' = [known EXCEPT ![p] = kp]
  BY DEF ReadShas
<1>4. \A c \in kp : \E r \in rows : r[1] = c
  BY <1>3
<1>5. kp \in SUBSET (1 .. HEAD)
  BY <1>4, OfProcess
<1>6. \A c \in kp : Single(c) => Recorded(c)
  BY <1>4, RowOfSingle
<1> DEFINE mp == IF head[p] = 0 THEN missed[p] ELSE FALSE
<1>7. missed' = [missed EXCEPT ![p] = mp] /\ mp \in BOOLEAN
  BY <1>1, OfProcess
<1>8. head[p] # 0 => \A c \in Visible : c <= head[p] /\ Single(c) => c \in out[p] \ kp \/ Recorded(c)'
  BY <1>1, <1>2, <1>6, OfProcess DEF ScanOf
<1>9. head[p] = 0 /\ ~mp => \A c \in Visible : c <= last[p] /\ Single(c) => Recorded(c)'
  BY <1>1, <1>2, OfProcess DEF ScanOf, Inserting
<1>10. pc[p] # "idle" /\ head[p] # 0 => last[p] < head[p]
  BY OfProcess DEF ScanOf
<1> HIDE DEF mp
<1>11. ScanOf(p)'
  <2>1. /\ pc'[p] = "insert" /\ head'[p] = head[p] /\ out'[p] = out[p] /\ known'[p] = kp
        /\ last'[p] = last[p] /\ missed'[p] = mp
    BY <1>1, <1>3, <1>7 DEF FixInv, FixTypes
  <2>2. rows' = rows
    BY DEF ReadShas
  <2> QED
    BY <1>1, <1>4, <1>8, <1>9, <1>10, <2>1, <2>2, SameLog DEF ScanOf, Inserting
<1>12. "insert" \in Stages
  BY DEF Stages
<1> QED
  BY <1>1, <1>3, <1>5, <1>7, <1>11, <1>12, OfProcess, OneProcess

(* The row of a commit that leaves the hand is there, or its absence noted.   *)
LEMMA InsertKeeps ==
  ASSUME FixInv, NEW p \in Procs, Insert(p)
  PROVE  FixInv'
<1>1. pc[p] = "insert" /\ UNCHANGED <<log, pc, head, known, last>>
  BY DEF Insert
<1>2. PICK r \in New(p) :
        /\ out' = [out EXCEPT ![p] = @ \ {r[1]}]
        /\ \/ rows' = rows \cup {r} /\ missed' = missed
           \/ missed' = [missed EXCEPT ![p] = TRUE] /\ rows' = rows
  BY DEF Insert
<1>3. /\ r[1] \in out[p] \ known[p] /\ r[2] \in FiledUnder(r[1]) /\ r = <<r[1], r[2]>>
  BY <1>2 DEF New
<1> DEFINE c0 == r[1]
           op == out[p] \ {c0}
<1>4. c0 \in 1 .. HEAD /\ op \in SUBSET (1 .. HEAD) /\ out' = [out EXCEPT ![p] = op]
  BY <1>2, <1>3, OfProcess
<1>5. \A c : Recorded(c) => Recorded(c)'
  BY <1>1, <1>2 DEF Recorded
<1>6. rows \subseteq rows'
      /\ \A x \in rows' : x[1] \in 1 .. HEAD /\ x[2] \in FiledUnder(x[1]) /\ x = <<x[1], x[2]>>
  BY <1>2, <1>3, <1>4, OfProcess
<1>7. PICK mp \in BOOLEAN : /\ missed' = [missed EXCEPT ![p] = mp]
                            /\ ~mp => ~missed[p] /\ r \in rows'
  BY <1>2, OfProcess
<1>8. r \in rows' /\ Single(c0) => Recorded(c0)'
  BY <1>1, <1>3 DEF Single, Recorded, FiledUnder
<1>9. head[p] # 0 /\ ~mp =>
        \A c \in Visible : c <= head[p] /\ Single(c) => c \in op \ known[p] \/ Recorded(c)'
  BY <1>1, <1>5, <1>7, <1>8, OfProcess DEF ScanOf, Inserting
<1>10. head[p] = 0 /\ ~mp => \A c \in Visible : c <= last[p] /\ Single(c) => Recorded(c)'
  BY <1>1, <1>5, <1>7, OfProcess DEF ScanOf, Inserting
<1>11. /\ head[p] # 0 => last[p] < head[p]
       /\ \A c \in known[p] : \E x \in rows : x[1] = c
  BY <1>1, OfProcess DEF ScanOf
<1> HIDE DEF op, c0
<1>12. ScanOf(p)'
  <2>1. /\ pc'[p] = "insert" /\ head'[p] = head[p] /\ out'[p] = op /\ known'[p] = known[p]
        /\ last'[p] = last[p] /\ missed'[p] = mp
    BY <1>1, <1>4, <1>7 DEF FixInv, FixTypes
  <2> QED
    BY <1>1, <1>6, <1>9, <1>10, <1>11, <2>1, SameLog DEF ScanOf, Inserting
<1> QED
  BY <1>1, <1>4, <1>6, <1>7, <1>12, OfProcess, OneProcess

LEMMA EndKeeps ==
  ASSUME FixInv, NEW p \in Procs, ScanEnds(p)
  PROVE  FixInv'
<1>1. /\ pc[p] = "insert" /\ New(p) = {} /\ pc' = [pc EXCEPT ![p] = "idle"]
      /\ out' = [out EXCEPT ![p] = {}] /\ known' = [known EXCEPT ![p] = {}]
      /\ UNCHANGED <<log, rows, head, missed>>
  BY DEF ScanEnds
<1> DEFINE lp == IF head[p] = 0 THEN last[p] ELSE head[p]
<1>2. last' = [last EXCEPT ![p] = lp] /\ lp \in 0 .. HEAD
  BY OfProcess DEF ScanEnds
<1>3. \A c : Recorded(c) <=> Recorded(c)'
  BY <1>1 DEF Recorded
<1>4. ASSUME NEW c \in out[p] \ known[p], Single(c)
      PROVE  FALSE
  <2>1. c \in DOMAIN log /\ log[c].files \subseteq Files
    BY OfProcess, HeadIsNat, FixAssumption
  <2>2. Cardinality(log[c].files) = 1
    BY <1>4 DEF Single
  <2>3. PICK f : f \in log[c].files
    <3>1. log[c].files # {}
      BY <2>2, FS_EmptySet
    <3> QED
      BY <3>1
  <2>4. <<c, f>> \in New(p)
    BY <1>4, <2>1, <2>2, <2>3 DEF New, FiledUnder, Single
  <2> QED
    BY <1>1, <2>4
<1>5. ~missed[p] => \A c \in Visible : c <= lp /\ Single(c) => Recorded(c)'
  BY <1>1, <1>3, <1>4, OfProcess DEF ScanOf, Inserting
<1> HIDE DEF lp
<1>6. ScanOf(p)'
  <2>1. /\ pc'[p] = "idle" /\ known'[p] = {} /\ last'[p] = lp /\ missed'[p] = missed[p]
    BY <1>1, <1>2 DEF FixInv, FixTypes
  <2> QED
    BY <1>1, <1>5, <2>1, SameLog DEF ScanOf, Inserting
<1>7. "idle" \in Stages
  BY DEF Stages
<1> QED
  BY <1>1, <1>2, <1>6, <1>7, OfProcess, OneProcess

LEMMA DieKeeps ==
  ASSUME FixInv, NEW p \in Procs, ScanDies(p)
  PROVE  FixInv'
<1>1. /\ pc' = [pc EXCEPT ![p] = "idle"] /\ head' = [head EXCEPT ![p] = 0]
      /\ out' = [out EXCEPT ![p] = {}] /\ known' = [known EXCEPT ![p] = {}]
      /\ last' = [last EXCEPT ![p] = 0] /\ missed' = [missed EXCEPT ![p] = FALSE]
      /\ log' = log /\ rows' = rows
  BY DEF ScanDies
<1>2. \A c \in Visible : ~(c <= 0)
  BY HeadIsNat DEF Visible
<1>3. ScanOf(p)'
  <2>1. pc'[p] = "idle" /\ known'[p] = {} /\ last'[p] = 0 /\ missed'[p] = FALSE
    BY <1>1 DEF FixInv, FixTypes
  <2> QED
    BY <1>1, <1>2, <2>1, SameLog DEF ScanOf, Inserting
<1>4. "idle" \in Stages
  BY DEF Stages
<1> QED
  BY <1>1, <1>3, <1>4, OfProcess, OneProcess

LEMMA FixStep == ASSUME FixInv, [FNext]_fvars PROVE FixInv'
<1>1. ASSUME NEW change \in Changes, CommitFiles(change) PROVE FixInv'
  BY <1>1, CommitKeeps
<1>2. ASSUME NEW p \in Procs,
             \/ Startup(p) \/ Refresh(p) \/ Git(p) \/ ReadShas(p)
             \/ Insert(p) \/ ScanEnds(p) \/ ScanDies(p)
      PROVE  FixInv'
  BY <1>2, StartupKeeps, RefreshKeeps, GitKeeps, ReadShasKeeps, InsertKeeps, EndKeeps, DieKeeps
<1>3. ASSUME NEW p \in Procs, Rested(p) PROVE FixInv'
  BY <1>3, RestKeeps DEF Rested
<1>4. CASE UNCHANGED fvars
  BY <1>4, RestKeeps DEF fvars
<1> QED
  BY <1>1, <1>2, <1>3, <1>4 DEF FNext

LEMMA FixInit == ASSUME FInit PROVE FixInv
<1>1. /\ log = <<>> /\ rows = {} /\ pc = [p \in Procs |-> "idle"]
      /\ head = [p \in Procs |-> 0] /\ out = [p \in Procs |-> {}] /\ known = out
      /\ last = head /\ missed = [p \in Procs |-> FALSE]
  BY DEF FInit
<1>2. HEAD = 0 /\ log \in Seq(Changes) /\ Visible = {}
  BY <1>1 DEF HEAD, Visible
<1>3. FixTypes
  BY <1>1, <1>2 DEF FixTypes, Stages
<1>4. \A p \in Procs : ScanOf(p)
  BY <1>1, <1>2 DEF ScanOf, Inserting
<1> QED
  BY <1>3, <1>4 DEF FixInv

(* Whatever is committed, scanned by others or dies meanwhile: a process that  *)
(* has scanned this HEAD and will not scan it again knows every fix of one    *)
(* file that a scan can see, unless an insertion failed in it.                *)
THEOREM FixesAreKnown == FSpec => []FixesKnown
<1>1. FInit => FixInv
  BY FixInit
<1>2. FixInv /\ [FNext]_fvars => FixInv'
  BY FixStep
<1>3. ASSUME FixInv
      PROVE  FixesKnown
  <2> SUFFICES ASSUME NEW p \in Procs, last[p] = HEAD, ~missed[p], NEW c \in Visible, Single(c)
               PROVE  Recorded(c)
    BY DEF FixesKnown, Single, Recorded
  <2>1. c <= last[p]
    BY <1>3, HeadIsNat DEF Visible
  <2>2. ~Inserting(p)
    BY <1>3, OfProcess DEF ScanOf, Inserting
  <2> QED
    BY <1>3, <2>1, <2>2, OfProcess DEF ScanOf
<1>4. FixInv => FixesKnown
  BY <1>3
<1> QED
  BY <1>1, <1>2, <1>4, PTL DEF FSpec

-----------------------------------------------------------------------------
(* Promotions out of the scratchpad.                                          *)

WorkRow == [id : Nat, target : Nat, session : WorkSessions \cup {""}, by : Workers \cup {""}, obs : Nat]
Record == [from : Nat, since : Nat]

(* One of the first n rows is a tombstone of entry id.                        *)
Buried(id, n) == \E i \in 1 .. n : wlog[i].target # 0 /\ wlog[i].id = id

(* Tombstones lead to records; a record was begun when its entry had none.    *)
RowsInv ==
  /\ wlog \in Seq(WorkRow) /\ ltm \in Seq(Record)
  /\ \A i \in DOMAIN wlog : wlog[i].target # 0 =>
       wlog[i].target \in DOMAIN ltm /\ ltm[wlog[i].target].from = wlog[i].id
  /\ \A j \in DOMAIN ltm : ltm[j].since <= Len(wlog) /\ ~Buried(ltm[j].from, ltm[j].since)

(* A promotion: what it has looked at, then the record that it wrote.         *)
PromotionInv ==
  /\ wpc \in [Workers -> {"idle", "check", "record", "mark", "archive", "drain"}]
  /\ job = [p \in Workers |-> job[p]]
  /\ \A p \in Workers : wpc[p] \in {"check", "record", "mark"} =>
       job[p] \in [entry : Nat, since : Nat, todo : {<<>>}]
  /\ \A p \in Workers : wpc[p] = "check" => job[p].since <= Len(wlog)
  /\ \A p \in Workers : wpc[p] = "record" =>
       job[p].since <= Len(wlog) /\ ~Buried(job[p].entry, job[p].since)
  /\ \A p \in Workers : wpc[p] = "mark" =>
       job[p].since \in DOMAIN ltm /\ ltm[job[p].since].from = job[p].entry

BufferInv ==
  /\ buffer \in [Workers -> Seq(Nat)] /\ drained \in [Workers -> Seq(Nat)] /\ observed \in Nat
  /\ \A p \in Workers : wpc[p] = "drain" => drained[p] # <<>>

WorkInv == RowsInv /\ PromotionInv /\ BufferInv

LEMMA RecordsAre ==
  ASSUME RowsInv
  PROVE  \A j \in DOMAIN ltm : ltm[j].from \in Nat /\ ltm[j].since \in Nat
<1>1. \A j \in DOMAIN ltm : ltm[j] \in Record
  BY ElementOfSeq, LenProperties DEF RowsInv
<1> QED
  BY <1>1 DEF Record

(* A row is added: an entry, or a tombstone of an entry that has a record.    *)
LEMMA RowAdded ==
  ASSUME RowsInv, NEW row \in WorkRow, wlog' = Append(wlog, row), ltm' = ltm,
         row.target # 0 => row.target \in DOMAIN ltm /\ ltm[row.target].from = row.id
  PROVE  /\ RowsInv' /\ Len(wlog) \in Nat /\ Len(wlog') = Len(wlog) + 1
         /\ \A id : \A n \in Nat : n <= Len(wlog) => (Buried(id, n)' <=> Buried(id, n))
<1>1. /\ Len(wlog) \in Nat /\ DOMAIN wlog = 1 .. Len(wlog) /\ wlog' \in Seq(WorkRow)
      /\ Len(wlog') = Len(wlog) + 1 /\ wlog'[Len(wlog) + 1] = row
      /\ \A i \in 1 .. Len(wlog) : wlog'[i] = wlog[i]
  BY AppendProperties, LenProperties DEF RowsInv
<1>2. DOMAIN wlog' = 1 .. Len(wlog) + 1
  BY <1>1, LenProperties
<1>3. \A id : \A n \in Nat : n <= Len(wlog) => (Buried(id, n)' <=> Buried(id, n))
  BY <1>1 DEF Buried
<1>4. \A j \in DOMAIN ltm : ltm[j].since \in Nat
  BY RecordsAre
<1>5. \A j \in DOMAIN ltm : ltm[j].since <= Len(wlog') /\ ~Buried(ltm[j].from, ltm[j].since)'
  BY <1>1, <1>3, <1>4 DEF RowsInv
<1>6. \A i \in DOMAIN wlog' : wlog'[i].target # 0 =>
        wlog'[i].target \in DOMAIN ltm /\ ltm[wlog'[i].target].from = wlog'[i].id
  BY <1>1, <1>2 DEF RowsInv
<1> QED
  BY <1>1, <1>3, <1>5, <1>6 DEF RowsInv

(* One worker goes somewhere, with a row or without.                          *)
LEMMA WorkerStep ==
  ASSUME WorkInv, NEW p \in Workers, ltm' = ltm,
         \/ wlog' = wlog
         \/ \E row \in WorkRow :
              /\ wlog' = Append(wlog, row)
              /\ row.target # 0 => row.target \in DOMAIN ltm /\ ltm[row.target].from = row.id,
         NEW l \in {"idle", "check", "record", "mark", "archive", "drain"},
         wpc' = [wpc EXCEPT ![p] = l],
         NEW k, job' = [job EXCEPT ![p] = k],
         l \in {"check", "record", "mark"} => k \in [entry : Nat, since : Nat, todo : {<<>>}],
         l \in {"check", "record"} => k.since <= Len(wlog),
         l = "record" => ~Buried(k.entry, k.since),
         l = "mark" => k.since \in DOMAIN ltm /\ ltm[k.since].from = k.entry
  PROVE  RowsInv' /\ PromotionInv'
<1>1. /\ RowsInv' /\ Len(wlog) \in Nat /\ Len(wlog') \in Nat /\ Len(wlog) <= Len(wlog')
      /\ \A id : \A n \in Nat : n <= Len(wlog) => (Buried(id, n)' <=> Buried(id, n))
  <2>1. CASE wlog' = wlog
    <3>1. \A id : \A n \in Nat : Buried(id, n)' <=> Buried(id, n)
      BY <2>1 DEF Buried
    <3>2. Len(wlog) \in Nat
      BY LenProperties DEF WorkInv, RowsInv
    <3>3. \A j \in DOMAIN ltm : ltm[j].since \in Nat
      BY RecordsAre DEF WorkInv
    <3> QED
      BY <2>1, <3>1, <3>2, <3>3 DEF WorkInv, RowsInv
  <2>2. ASSUME NEW row \in WorkRow, wlog' = Append(wlog, row),
               row.target # 0 => row.target \in DOMAIN ltm /\ ltm[row.target].from = row.id
        PROVE  /\ RowsInv' /\ Len(wlog) \in Nat /\ Len(wlog') \in Nat /\ Len(wlog) <= Len(wlog')
               /\ \A id : \A n \in Nat : n <= Len(wlog) => (Buried(id, n)' <=> Buried(id, n))
    <3>1. /\ RowsInv' /\ Len(wlog) \in Nat /\ Len(wlog') = Len(wlog) + 1
          /\ \A id : \A n \in Nat : n <= Len(wlog) => (Buried(id, n)' <=> Buried(id, n))
      BY <2>2, RowAdded DEF WorkInv
    <3> QED
      BY <3>1
  <2> QED
    BY <2>1, <2>2
<1>2. /\ wpc' \in [Workers -> {"idle", "check", "record", "mark", "archive", "drain"}]
      /\ job' = [q \in Workers |-> job'[q]] /\ wpc'[p] = l /\ job'[p] = k
      /\ \A q \in Workers \ {p} : wpc'[q] = wpc[q] /\ job'[q] = job[q]
  BY DEF WorkInv, PromotionInv
<1>3. ASSUME NEW q \in Workers
      PROVE  /\ wpc'[q] \in {"check", "record", "mark"} =>
                  job'[q] \in [entry : Nat, since : Nat, todo : {<<>>}]
             /\ wpc'[q] = "check" => job'[q].since <= Len(wlog')
             /\ wpc'[q] = "record" =>
                  job'[q].since <= Len(wlog') /\ ~Buried(job[q].entry, job[q].since)'
             /\ wpc'[q] = "mark" =>
                  job'[q].since \in DOMAIN ltm' /\ ltm'[job'[q].since].from = job'[q].entry
  <2> DEFINE b == job'[q]
             was == IF q = p THEN k ELSE job[q]
             at == IF q = p THEN l ELSE wpc[q]
  <2>1. b = was /\ wpc'[q] = at
    BY <1>2
  <2>2. /\ at \in {"check", "record", "mark"} => was \in [entry : Nat, since : Nat, todo : {<<>>}]
        /\ at \in {"check", "record"} => was.since <= Len(wlog)
        /\ at = "record" => ~Buried(was.entry, was.since)
        /\ at = "mark" => was.since \in DOMAIN ltm /\ ltm[was.since].from = was.entry
    BY DEF WorkInv, PromotionInv
  <2>3. at \in {"check", "record"} => was.since \in Nat /\ was.since <= Len(wlog')
    <3> HIDE DEF was, at
    <3> QED
      BY <1>1, <2>2
  <2>4. at = "record" => ~\E i \in 1 .. was.since : wlog'[i].target # 0 /\ wlog'[i].id = was.entry
    <3>1. PICK e, n : e = was.entry /\ n = was.since
      OBVIOUS
    <3>2. at = "record" => ~Buried(e, n) /\ n \in Nat /\ n <= Len(wlog)
      <4> HIDE DEF was, at
      <4> QED
        BY <2>2, <2>3, <3>1
    <3>3. at = "record" => ~\E i \in 1 .. n : wlog'[i].target # 0 /\ wlog'[i].id = e
      <4> HIDE DEF was, at
      <4> QED
        BY <1>1, <3>2 DEF Buried
    <3> HIDE DEF was, at
    <3> QED
      BY <3>1, <3>3
  <2>5. at = "record" => ~Buried(job[q].entry, job[q].since)'
    BY <2>1, <2>4 DEF Buried
  <2> HIDE DEF was, at
  <2> QED
    BY <2>1, <2>2, <2>3, <2>5
<1> QED
  BY <1>1, <1>2, <1>3 DEF PromotionInv

(* An entry that is added.                                                    *)
LEMMA EntryIsRow ==
  ASSUME RowsInv, NEW s \in WorkSessions, NEW p \in Workers, NEW obs \in Nat
  PROVE  Entry(s, p, obs) \in WorkRow /\ Entry(s, p, obs).target = 0
<1>1. Cardinality(Bases(wlog)) \in Nat
  <2>1. DOMAIN wlog = 1 .. Len(wlog) /\ Len(wlog) \in Nat
    BY LenProperties DEF RowsInv
  <2>2. IsFiniteSet(1 .. Len(wlog))
    BY <2>1, FS_Interval
  <2>3. Bases(wlog) \subseteq 1 .. Len(wlog)
    BY <2>1 DEF Bases
  <2>4. IsFiniteSet(Bases(wlog))
    BY <2>2, <2>3, FS_Subset
  <2> QED
    BY <2>4, FS_CardinalityType
<1> DEFINE n == Cardinality(Bases(wlog))
<1> HIDE DEF n
<1>2. Entry(s, p, obs) = [id |-> n + 1, target |-> 0, session |-> s, by |-> p, obs |-> obs]
  BY DEF Entry, n
<1>3. n + 1 \in Nat
  BY <1>1 DEF n
<1>4. [id |-> n + 1, target |-> 0, session |-> s, by |-> p, obs |-> obs] \in WorkRow
  BY <1>3, Zenon DEF WorkRow
<1> QED
  BY <1>2, <1>4

(* What a worker leaves alone.                                                *)
LEMMA OfWorker ==
  ASSUME WorkInv, NEW p \in Workers
  PROVE  /\ wpc[p] \in {"idle", "check", "record", "mark", "archive", "drain"}
         /\ wpc = [wpc EXCEPT ![p] = wpc[p]] /\ job = [job EXCEPT ![p] = job[p]]
         /\ Len(wlog) \in Nat /\ DOMAIN wlog = 1 .. Len(wlog) /\ \A i \in DOMAIN wlog : wlog[i].id \in Nat
<1>1. Len(wlog) \in Nat /\ DOMAIN wlog = 1 .. Len(wlog) /\ \A i \in DOMAIN wlog : wlog[i] \in WorkRow
  BY ElementOfSeq, LenProperties DEF WorkInv, RowsInv
<1>2. \A i \in DOMAIN wlog : wlog[i].id \in Nat
  BY <1>1 DEF WorkRow
<1>3. wpc \in [Workers -> {"idle", "check", "record", "mark", "archive", "drain"}]
  BY DEF WorkInv, PromotionInv
<1>5. job = [job EXCEPT ![p] = job[p]]
  BY DEF WorkInv, PromotionInv
<1> QED
  BY <1>1, <1>2, <1>3, <1>5

(* The buffers are not touched, and nobody begins to drain.                   *)
LEMMA BufferStays ==
  ASSUME WorkInv, UNCHANGED <<buffer, drained, observed>>, NEW p \in Workers,
         NEW l, wpc' = [wpc EXCEPT ![p] = l], l # "drain" \/ wpc[p] = "drain"
  PROVE  BufferInv'
BY DEF WorkInv, BufferInv, PromotionInv

LEMMA AddKeeps ==
  ASSUME WorkInv, NEW p \in Workers, Add(p)
  PROVE  WorkInv'
<1>1. PICK s \in WorkSessions : wlog' = Append(wlog, Entry(s, p, 0))
  BY DEF Add
<1>2. Entry(s, p, 0) \in WorkRow /\ Entry(s, p, 0).target = 0
  BY EntryIsRow DEF WorkInv
<1>3. wpc[p] = "idle" /\ UNCHANGED <<ltm, buffer, drained, wpc, job, observed>>
  BY DEF Add
<1>4. RowsInv' /\ PromotionInv'
  BY <1>1, <1>2, <1>3, OfWorker, WorkerStep
<1>5. BufferInv'
  BY <1>3, OfWorker, BufferStays
<1> QED
  BY <1>4, <1>5 DEF WorkInv

LEMMA PromoteKeeps ==
  ASSUME WorkInv, NEW p \in Workers, Promote(p)
  PROVE  WorkInv'
<1>1. PICK i \in Bases(wlog) :
        job' = [job EXCEPT ![p] = [NoJob EXCEPT !.entry = wlog[i].id, !.since = Len(wlog)]]
  BY DEF Promote
<1> DEFINE k == [NoJob EXCEPT !.entry = wlog[i].id, !.since = Len(wlog)]
<1>2. wlog[i].id \in Nat /\ Len(wlog) \in Nat
  BY OfWorker DEF Bases
<1>3. k \in [entry : Nat, since : Nat, todo : {<<>>}] /\ k.since = Len(wlog)
  BY <1>2 DEF NoJob
<1>4. /\ wpc' = [wpc EXCEPT ![p] = "check"] /\ job' = [job EXCEPT ![p] = k]
      /\ UNCHANGED <<wlog, ltm, buffer, drained, observed>>
  BY <1>1 DEF Promote, WGoto
<1> HIDE DEF k
<1>5. RowsInv' /\ PromotionInv'
  <2>1. k.since <= Len(wlog)
    BY <1>2, <1>3
  <2>2. "check" # "record" /\ "check" # "mark"
    OBVIOUS
  <2> QED
    BY <1>3, <1>4, <2>1, <2>2, WorkerStep
<1>6. BufferInv'
  BY <1>4, BufferStays
<1> QED
  BY <1>5, <1>6 DEF WorkInv

(* Without a tombstone now there was none among the rows that were there.     *)
LEMMA CheckKeeps ==
  ASSUME WorkInv, NEW p \in Workers, Check(p)
  PROVE  WorkInv'
<1>1. wpc[p] = "check" /\ UNCHANGED <<wlog, ltm, buffer, drained, observed>>
  BY DEF Check
<1>2. job[p] \in [entry : Nat, since : Nat, todo : {<<>>}] /\ job[p].since <= Len(wlog)
  BY <1>1 DEF WorkInv, PromotionInv
<1>3. CASE /\ job[p].entry \notin Dead(wlog) /\ wpc' = [wpc EXCEPT ![p] = "record"]
           /\ job' = [job EXCEPT ![p] = job[p]]
  <2>1. ~Buried(job[p].entry, job[p].since)
    BY <1>2, <1>3, OfWorker DEF Buried, Dead, Bases
  <2>2. RowsInv' /\ PromotionInv'
    BY <1>1, <1>2, <1>3, <2>1, WorkerStep
  <2>3. BufferInv'
    BY <1>1, <1>3, BufferStays
  <2> QED
    BY <2>2, <2>3 DEF WorkInv
<1>4. CASE wpc' = [wpc EXCEPT ![p] = "idle"] /\ job' = [job EXCEPT ![p] = NoJob]
  <2>1. RowsInv' /\ PromotionInv'
    BY <1>1, <1>4, WorkerStep
  <2>2. BufferInv'
    BY <1>1, <1>4, BufferStays
  <2> QED
    BY <2>1, <2>2 DEF WorkInv
<1> QED
  BY <1>3, <1>4, OfWorker DEF Check, WGoto

LEMMA RecordTargetKeeps ==
  ASSUME WorkInv, NEW p \in Workers, RecordTarget(p)
  PROVE  WorkInv'
<1>1. wpc[p] = "record" /\ UNCHANGED <<wlog, buffer, drained, observed>>
  BY DEF RecordTarget
<1>2. CASE ltm' = ltm /\ wpc' = [wpc EXCEPT ![p] = "idle"] /\ job' = [job EXCEPT ![p] = NoJob]
  <2>1. RowsInv' /\ PromotionInv'
    BY <1>1, <1>2, WorkerStep
  <2>2. BufferInv'
    BY <1>1, <1>2, BufferStays
  <2> QED
    BY <2>1, <2>2 DEF WorkInv
<1>3. CASE /\ ltm' = Append(ltm, [from |-> job[p].entry, since |-> job[p].since])
           /\ wpc' = [wpc EXCEPT ![p] = "mark"]
           /\ job' = [job EXCEPT ![p].since = Len(ltm) + 1]
  <2> DEFINE r == [from |-> job[p].entry, since |-> job[p].since]
             n == Len(ltm)
  <2>1. /\ job[p] \in [entry : Nat, since : Nat, todo : {<<>>}] /\ job[p].since <= Len(wlog)
        /\ ~Buried(job[p].entry, job[p].since)
    BY <1>1 DEF WorkInv, PromotionInv
  <2>2. r \in Record /\ r.from = job[p].entry /\ r.since = job[p].since
    BY <2>1 DEF Record
  <2> HIDE DEF r
  <2>3. ltm \in Seq(Record)
    BY DEF WorkInv, RowsInv
  <2>4. /\ ltm' \in Seq(Record) /\ n \in Nat /\ DOMAIN ltm = 1 .. n /\ DOMAIN ltm' = 1 .. n + 1
        /\ ltm'[n + 1] = r /\ \A j \in 1 .. n : ltm'[j] = ltm[j]
    <3>1. ltm' = Append(ltm, r)
      BY <1>3 DEF r
    <3>2. ltm' \in Seq(Record) /\ Len(ltm') = n + 1 /\ n \in Nat /\ DOMAIN ltm = 1 .. n
          /\ ltm'[n + 1] = r /\ \A j \in 1 .. n : ltm'[j] = ltm[j]
      BY <2>2, <2>3, <3>1, AppendProperties, LenProperties
    <3>3. DOMAIN ltm' = 1 .. Len(ltm')
      BY <3>2, LenProperties
    <3> QED
      BY <3>2, <3>3
  <2> HIDE DEF n
  <2>5. \A id, m : Buried(id, m)' <=> Buried(id, m)
    BY <1>1 DEF Buried
  <2>6. RowsInv'
    <3>1. \A i \in DOMAIN wlog : wlog[i].target # 0 =>
            wlog[i].target \in DOMAIN ltm' /\ ltm'[wlog[i].target].from = wlog[i].id
      BY <2>4 DEF WorkInv, RowsInv
    <3>2. \A j \in DOMAIN ltm' : ltm'[j].since <= Len(wlog)
            /\ ~\E i \in 1 .. ltm'[j].since : wlog[i].target # 0 /\ wlog[i].id = ltm'[j].from
      BY <2>1, <2>2, <2>4 DEF WorkInv, RowsInv, Buried
    <3> QED
      BY <1>1, <2>4, <3>1, <3>2 DEF WorkInv, RowsInv, Buried
  <2>7. PromotionInv'
    <3> DEFINE k == [job[p] EXCEPT !.since = n + 1]
    <3>1. k \in [entry : Nat, since : Nat, todo : {<<>>}] /\ k.entry = job[p].entry /\ k.since = n + 1
      BY <2>1, <2>4
    <3>2. /\ wpc' \in [Workers -> {"idle", "check", "record", "mark", "archive", "drain"}]
          /\ job' = [q \in Workers |-> job'[q]] /\ wpc'[p] = "mark" /\ job'[p] = k
          /\ \A q \in Workers \ {p} : wpc'[q] = wpc[q] /\ job'[q] = job[q]
      BY <1>3 DEF WorkInv, PromotionInv, n
    <3> HIDE DEF k
    <3>3. \A q \in Workers \ {p} :
            /\ wpc'[q] \in {"check", "record", "mark"} =>
                 job'[q] \in [entry : Nat, since : Nat, todo : {<<>>}]
            /\ wpc'[q] = "check" => job'[q].since <= Len(wlog)
            /\ wpc'[q] = "record" =>
                 /\ job'[q].since <= Len(wlog)
                 /\ ~\E i \in 1 .. job'[q].since : wlog[i].target # 0 /\ wlog[i].id = job'[q].entry
            /\ wpc'[q] = "mark" => job'[q].since \in DOMAIN ltm' /\ ltm'[job'[q].since].from = job'[q].entry
      BY <2>4, <3>2 DEF WorkInv, PromotionInv, Buried
    <3>4. k.since \in DOMAIN ltm' /\ ltm'[k.since].from = k.entry
      BY <2>2, <2>4, <3>1
    <3>5. \A q \in Workers :
            /\ wpc'[q] \in {"check", "record", "mark"} =>
                 job'[q] \in [entry : Nat, since : Nat, todo : {<<>>}]
            /\ wpc'[q] = "check" => job'[q].since <= Len(wlog)
            /\ wpc'[q] = "record" =>
                 /\ job'[q].since <= Len(wlog)
                 /\ ~\E i \in 1 .. job'[q].since : wlog[i].target # 0 /\ wlog[i].id = job'[q].entry
            /\ wpc'[q] = "mark" => job'[q].since \in DOMAIN ltm' /\ ltm'[job'[q].since].from = job'[q].entry
      BY <3>1, <3>2, <3>3, <3>4
    <3> QED
      BY <1>1, <3>2, <3>5 DEF PromotionInv, Buried
  <2>8. BufferInv'
    BY <1>1, <1>3, BufferStays
  <2> QED
    BY <2>6, <2>7, <2>8 DEF WorkInv
<1> QED
  BY <1>2, <1>3 DEF RecordTarget, WGoto

LEMMA MarkPromotedKeeps ==
  ASSUME WorkInv, NEW p \in Workers, MarkPromoted(p)
  PROVE  WorkInv'
<1>1. /\ wpc[p] = "mark" /\ wpc' = [wpc EXCEPT ![p] = "idle"] /\ job' = [job EXCEPT ![p] = NoJob]
      /\ UNCHANGED <<ltm, buffer, drained, observed>>
  BY DEF MarkPromoted, WGoto
<1> DEFINE row == Tombstone(job[p].entry, job[p].since)
<1>2. /\ job[p] \in [entry : Nat, since : Nat, todo : {<<>>}]
      /\ job[p].since \in DOMAIN ltm /\ ltm[job[p].since].from = job[p].entry
  BY <1>1 DEF WorkInv, PromotionInv
<1>3. row \in WorkRow /\ row.target = job[p].since /\ row.id = job[p].entry
  BY <1>2 DEF Tombstone, WorkRow
<1>4. wlog' = wlog \/ wlog' = Append(wlog, row)
  BY DEF MarkPromoted
<1> HIDE DEF row
<1>5. RowsInv' /\ PromotionInv'
  BY <1>1, <1>2, <1>3, <1>4, WorkerStep
<1>6. BufferInv'
  BY <1>1, BufferStays
<1> QED
  BY <1>5, <1>6 DEF WorkInv

LEMMA ArchivingKeeps ==
  ASSUME WorkInv, NEW p \in Workers, Commit(p) \/ Archive(p)
  PROVE  WorkInv'
<1>1. UNCHANGED <<wlog, ltm, buffer, drained, observed>>
  BY DEF Commit, Archive
<1>2. PICK l \in {"idle", "archive"} : wpc' = [wpc EXCEPT ![p] = l]
  BY DEF Commit, Archive, WGoto
<1>3. \E k : job' = [job EXCEPT ![p] = k]
  BY DEF Commit, Archive
<1>4. RowsInv' /\ PromotionInv'
  BY <1>1, <1>2, <1>3, WorkerStep
<1>5. BufferInv'
  BY <1>1, <1>2, BufferStays
<1> QED
  BY <1>4, <1>5 DEF WorkInv

(* Observations are buffered, and handed over to be written.                  *)
LEMMA BufferingKeeps ==
  ASSUME WorkInv, NEW p \in Workers, Dispatch(p) \/ Exit(p)
  PROVE  WorkInv'
<1>1. wpc[p] = "idle" /\ UNCHANGED <<wlog, ltm, job>>
  BY DEF Dispatch, Exit
<1>2. PICK b \in Seq(Nat) :
        /\ b # <<>> /\ observed' \in Nat
        /\ Flushed(p, b) \/ (buffer' = [buffer EXCEPT ![p] = b] /\ UNCHANGED <<drained, wpc>>)
  <2>1. CASE Dispatch(p)
    <3> DEFINE b == Append(buffer[p], observed + 1)
    <3>1. b \in Seq(Nat) /\ b # <<>> /\ observed' \in Nat
      <4>1. observed' = observed + 1
        BY <2>1 DEF Dispatch
      <4>2. observed \in Nat /\ observed + 1 \in Nat /\ buffer[p] \in Seq(Nat)
        BY DEF WorkInv, BufferInv
      <4> QED
        BY <4>1, <4>2, AppendProperties
    <3>2. Flushed(p, b) \/ (buffer' = [buffer EXCEPT ![p] = b] /\ UNCHANGED <<drained, wpc>>)
      BY <2>1 DEF Dispatch
    <3> HIDE DEF b
    <3> QED
      BY <3>1, <3>2
  <2>2. CASE Exit(p)
    BY <2>2 DEF WorkInv, BufferInv, Exit
  <2> QED
    BY <2>1, <2>2
<1>3. CASE /\ buffer' = [buffer EXCEPT ![p] = <<>>] /\ drained' = [drained EXCEPT ![p] = b]
           /\ wpc' = [wpc EXCEPT ![p] = "drain"]
  <2>1. RowsInv' /\ PromotionInv'
    BY <1>1, <1>3, OfWorker, WorkerStep
  <2>2. <<>> \in Seq(Nat)
    OBVIOUS
  <2>3. BufferInv'
    BY <1>2, <1>3, <2>2 DEF WorkInv, BufferInv, PromotionInv
  <2> QED
    BY <2>1, <2>3 DEF WorkInv
<1>4. CASE /\ \E c \in {<<>>, b} : buffer' = [buffer EXCEPT ![p] = c]
           /\ UNCHANGED <<drained, wpc>>
  <2>1. RowsInv' /\ PromotionInv'
    BY <1>1, <1>4, OfWorker, WorkerStep
  <2>2. <<>> \in Seq(Nat)
    OBVIOUS
  <2>3. BufferInv'
    BY <1>2, <1>4, <2>2 DEF WorkInv, BufferInv
  <2> QED
    BY <2>1, <2>3 DEF WorkInv
<1> QED
  BY <1>2, <1>3, <1>4 DEF Flushed, WGoto

LEMMA DrainKeeps ==
  ASSUME WorkInv, NEW p \in Workers, Drain(p)
  PROVE  WorkInv'
<1>1. /\ wpc[p] = "drain" /\ drained' = [drained EXCEPT ![p] = Tail(@)]
      /\ wpc' = [wpc EXCEPT ![p] = IF Tail(drained[p]) = <<>> THEN "idle" ELSE "drain"]
      /\ UNCHANGED <<ltm, buffer, job, observed>>
  BY DEF Drain, WGoto
<1>2. drained[p] \in Seq(Nat) /\ drained[p] # <<>>
  BY <1>1 DEF WorkInv, BufferInv
<1>3. Head(drained[p]) \in Nat /\ Tail(drained[p]) \in Seq(Nat)
  BY <1>2, HeadTailProperties
<1>4. \/ wlog' = wlog
      \/ \E row \in WorkRow : wlog' = Append(wlog, row) /\ row.target = 0
  <2>1. \A s \in WorkSessions : /\ Entry(s, p, Head(drained[p])) \in WorkRow
                            /\ Entry(s, p, Head(drained[p])).target = 0
    BY <1>3, EntryIsRow DEF WorkInv
  <2> QED
    BY <2>1 DEF Drain
<1>5. RowsInv' /\ PromotionInv'
  BY <1>1, <1>4, OfWorker, WorkerStep
<1>6. BufferInv'
  BY <1>1, <1>3 DEF WorkInv, BufferInv, PromotionInv
<1> QED
  BY <1>5, <1>6 DEF WorkInv

LEMMA KillKeeps ==
  ASSUME WorkInv, NEW p \in Workers, Kill(p)
  PROVE  WorkInv'
<1>1. /\ buffer' = [buffer EXCEPT ![p] = <<>>] /\ drained' = [drained EXCEPT ![p] = <<>>]
      /\ wpc' = [wpc EXCEPT ![p] = "idle"] /\ job' = [job EXCEPT ![p] = NoJob]
      /\ UNCHANGED <<wlog, ltm, observed>>
  BY DEF Kill, WGoto
<1>2. RowsInv' /\ PromotionInv'
  BY <1>1, WorkerStep
<1>3. <<>> \in Seq(Nat)
  OBVIOUS
<1>4. BufferInv'
  BY <1>1, <1>3 DEF WorkInv, BufferInv, PromotionInv
<1> QED
  BY <1>2, <1>4 DEF WorkInv

LEMMA WorkStep == ASSUME WorkInv, [WMNext]_(wmvars) PROVE WorkInv'
<1>1. CASE UNCHANGED wmvars
  BY <1>1 DEF wmvars, WorkInv, RowsInv, PromotionInv, BufferInv, Buried
<1>2. ASSUME NEW p \in Workers,
             \/ Add(p) \/ Promote(p) \/ Check(p) \/ RecordTarget(p) \/ MarkPromoted(p)
             \/ Commit(p) \/ Archive(p) \/ Dispatch(p) \/ Exit(p) \/ Drain(p) \/ Kill(p)
      PROVE  WorkInv'
  BY <1>2, AddKeeps, PromoteKeeps, CheckKeeps, RecordTargetKeeps, MarkPromotedKeeps,
     ArchivingKeeps, BufferingKeeps, DrainKeeps, KillKeeps
<1> QED
  BY <1>1, <1>2 DEF WMNext

LEMMA WorkInit == ASSUME WMInit PROVE WorkInv
<1>1. /\ wlog = <<>> /\ ltm = <<>> /\ buffer = [p \in Workers |-> <<>>]
      /\ drained = [p \in Workers |-> <<>>] /\ wpc = [p \in Workers |-> "idle"]
      /\ job = [p \in Workers |-> NoJob] /\ observed = 0
  BY DEF WMInit
<1>2. RowsInv
  BY <1>1 DEF RowsInv
<1>3. PromotionInv
  BY <1>1 DEF PromotionInv
<1>4. <<>> \in Seq(Nat)
  OBVIOUS
<1>5. BufferInv
  BY <1>1, <1>4 DEF BufferInv
<1> QED
  BY <1>2, <1>3, <1>5 DEF WorkInv

LEMMA WorkInvHolds == WMSpec => []WorkInv
<1>1. WMInit => WorkInv
  BY WorkInit
<1>2. WorkInv /\ [WMNext]_(wmvars) => WorkInv'
  BY WorkStep
<1> QED
  BY <1>1, <1>2, PTL DEF WMSpec

(* Only promotions that overlap make two records of an entry, or one whose     *)
(* tombstone was not written: none begins after a tombstone.  And a tombstone  *)
(* leads to the record that its entry became.  For any number of processes,   *)
(* entries, promotions, failed writes and kills.                              *)
THEOREM PromotionsDoHold == WMSpec => []PromotionsHold
<1>1. ASSUME WorkInv
      PROVE  PromotedOnce
  <2> SUFFICES ASSUME NEW j \in DOMAIN ltm,
                      ltm[j].from \in Dead(SubSeq(wlog, 1, ltm[j].since))
               PROVE  FALSE
    BY DEF PromotedOnce
  <2> DEFINE n == ltm[j].since
             l == SubSeq(wlog, 1, n)
  <2>1. n \in Nat /\ n <= Len(wlog) /\ wlog \in Seq(WorkRow) /\ Len(wlog) \in Nat /\ ~Buried(ltm[j].from, n)
    BY <1>1, RecordsAre, LenProperties DEF WorkInv, RowsInv
  <2> HIDE DEF n
  <2>2. DOMAIN l = 1 .. n /\ \A i \in 1 .. n : l[i] = wlog[i]
    BY <2>1
  <2> HIDE DEF l
  <2>3. PICK i \in DOMAIN l : l[i].target # 0 /\ l[i].id = ltm[j].from
    BY DEF Dead, Bases, l, n
  <2> QED
    BY <2>1, <2>2, <2>3 DEF Buried
<1>2. WorkInv => TombstonesLead
  BY DEF WorkInv, RowsInv, TombstonesLead, Bases
<1>3. WorkInv => PromotionsHold
  BY <1>1, <1>2 DEF PromotionsHold
<1> QED
  BY <1>3, WorkInvHolds, PTL

-----------------------------------------------------------------------------
(* The first contact with a project.                                          *)

(* The directories of a project, and those it may be sent to.                 *)
Own(p) == {Central(p), Legacy(p)}
Reach(p) == Own(p) \cup {Central(q) : q \in opted}

Repairs == {"config", "meta", "register", "unsure", "mark", "decide"}
ContactJobs == [at : Repairs \cup {"init", "scaffold"}, root : Projects, dir : Dirs]
InitThreads == [at : {"config", "register", "graph"}, root : Projects, dir : Dirs]
IndexThreads == [at : {"resolve", "build"}, root : Projects, dir : Dirs]

(* What nobody opted in has nothing under ~/.codevira; the graph, unless the    *)
(* index thread went astray.  A marker tells of a row.                        *)
DataInv ==
  /\ has \in [Dirs -> SUBSET Things] /\ graph \in [Dirs -> SUBSET Projects]
  /\ opted \subseteq Projects /\ astray \subseteq Projects
  /\ \A p \in Projects \ opted :
       has[Central(p)] = {} /\ "config" \notin has[Legacy(p)] /\ p \notin inGlobal
  /\ \A p \in Projects \ (opted \cup astray) : graph[Central(p)] = {}
  /\ \A p \in Projects : \A d \in Own(p) : "marker" \in has[d] => p \in inGlobal
  /\ \A c \in healed : c[2] \in Dirs /\ {"config", "meta"} \subseteq has[c[2]] /\ c[1] \in inGlobal

(* What a server remembers: until its initialisation has begun, a project's    *)
(* own directory.                                                            *)
ServerInv ==
  /\ bound \in Projects /\ begun \in BOOLEAN
  /\ optCache \subseteq Projects /\ \A p \in optCache : OptedIn(p)
  /\ cache \in [Projects -> SUBSET Dirs]
  /\ \A p \in Projects : cache[p] \subseteq Reach(p) /\ (~begun => cache[p] \subseteq Own(p))

(* What a task has done so far.                                               *)
Repaired(j) ==
  /\ j.root \in opted
  /\ IF j.at \in Repairs THEN j.dir \in Own(j.root) ELSE j.dir \in Reach(j.root)
  /\ j.at \in Repairs \ {"config"} => "config" \in has[j.dir]
  /\ j.at \in Repairs \ {"config", "meta"} => "meta" \in has[j.dir]
  /\ j.at \in {"mark", "decide"} => j.root \in inGlobal
Initialising(t) == t.root \in opted /\ t.dir \in Own(t.root)
Indexing(t) ==
  /\ t.root \in opted \cup astray /\ t.dir \in Reach(t.root)
  /\ t.at = "resolve" => t.root \in opted

TasksInv ==
  /\ contactJob \in [{"server", "command"} -> ContactJobs \cup {NoTask}]
  /\ \A a \in {"server", "command"} : contactJob[a] # NoTask => Repaired(contactJob[a])
  /\ initThread \in InitThreads \cup {NoTask}
  /\ initThread # NoTask => Initialising(initThread)
  /\ indexThread \in IndexThreads \cup {NoTask}
  /\ indexThread # NoTask => Indexing(indexThread)

ContactInv == DataInv /\ ServerInv /\ TasksInv

LEMMA DirectoriesDiffer ==
  /\ \A p \in Projects : Central(p) \in Dirs /\ Legacy(p) \in Dirs
  /\ \A p, q : (Central(p) = Central(q) <=> p = q) /\ (Legacy(p) = Legacy(q) <=> p = q)
               /\ Central(p) # Legacy(q)
  /\ \A d \in Dirs : \E p \in Projects : d = Central(p) \/ d = Legacy(p)
BY DEF Central, Legacy, Dirs

(* What is opted in is resolved to a directory of its own.                    *)
LEMMA ResolvedTo ==
  ASSUME DataInv, NEW p \in Projects
  PROVE  /\ Resolve(has, p) \in Dirs /\ Resolve(has, p) \in Reach(p)
         /\ OptedIn(p) => p \in opted /\ Resolve(has, p) \in Own(p)
<1>1. \A d \in Clones(has, p) : \E q \in opted : d = Central(q)
  BY DirectoriesDiffer DEF Clones, DataInv
<1>2. Resolve(has, p) \in {Central(p), Legacy(p)} \cup Clones(has, p)
  BY DEF Resolve
<1>3. OptedIn(p) => p \in opted /\ Resolve(has, p) \in Own(p)
  BY DEF OptedIn, Resolve, DataInv, Own
<1>4. opted \subseteq Projects
  BY DEF DataInv
<1> QED
  BY <1>1, <1>2, <1>3, <1>4, DirectoriesDiffer DEF Reach, Own

LEMMA DataDirIs ==
  ASSUME DataInv, ServerInv, NEW p \in Projects
  PROVE  /\ DataDir(p) \in Dirs /\ DataDir(p) \in Reach(p)
         /\ OptedIn(p) /\ ~begun => DataDir(p) \in Own(p)
<1>1. DataDir(p) \in cache[p] \/ DataDir(p) = Resolve(has, p)
  BY DEF DataDir
<1> QED
  BY <1>1, ResolvedTo DEF ServerInv

(* Nothing is taken away but git_shared.                                      *)
Grows ==
  /\ opted \subseteq opted' /\ astray \subseteq astray' /\ inGlobal \subseteq inGlobal'
  /\ \A d \in Dirs : has[d] \ {"shared"} \subseteq has'[d]

LEMMA TaskStands ==
  ASSUME DataInv, Grows
  PROVE  /\ \A j \in ContactJobs : Repaired(j) => Repaired(j)'
         /\ \A t \in InitThreads : Initialising(t) => Initialising(t)'
         /\ \A t \in IndexThreads : Indexing(t) => Indexing(t)'
<1>1. \A p : Own(p)' = Own(p) /\ Reach(p) \subseteq Reach(p)'
  BY DEF Own, Reach, Central, Legacy, Grows
<1>2. ASSUME NEW j \in ContactJobs, Repaired(j)
      PROVE  Repaired(j)'
  BY <1>1, <1>2 DEF Repaired, ContactJobs, Grows
<1>3. ASSUME NEW t \in InitThreads, Initialising(t)
      PROVE  Initialising(t)'
  BY <1>1, <1>3 DEF Initialising, Grows
<1>4. ASSUME NEW t \in IndexThreads, Indexing(t)
      PROVE  Indexing(t)'
  BY <1>1, <1>4 DEF Indexing, Grows
<1> QED
  BY <1>2, <1>3, <1>4

LEMMA ServerStands ==
  ASSUME DataInv, ServerInv, Grows, UNCHANGED process
  PROVE  ServerInv'
<1>1. \A p : Own(p)' = Own(p) /\ Reach(p) \subseteq Reach(p)'
  BY DEF Own, Reach, Central, Legacy, Grows
<1>2. \A p \in Projects : OptedIn(p) => OptedIn(p)'
  BY DirectoriesDiffer DEF OptedIn, Grows
<1> QED
  BY <1>1, <1>2 DEF ServerInv, process

(* A task that works for a project p writes into a directory that p may be     *)
(* sent to; a marker into p's own, when it has a row.                         *)
LEMMA DataStep ==
  ASSUME DataInv, NEW p \in opted', opted \subseteq opted', opted' \subseteq Projects, astray' = astray,
         has' \in [Dirs -> SUBSET Things], graph' \in [Dirs -> SUBSET Projects],
         inGlobal \subseteq inGlobal', inGlobal' \subseteq inGlobal \cup {p},
         \A d \in Dirs : has[d] \ {"shared"} \subseteq has'[d],
         \A d \in Dirs : has'[d] # has[d] \/ graph'[d] # graph[d] => d \in Reach(p)',
         \A d \in Dirs : "marker" \in has'[d] => "marker" \in has[d] \/ (d \in Own(p) /\ p \in inGlobal'),
         healed' = healed
  PROVE  DataInv' /\ Grows
<1>1. Grows
  BY DEF Grows
<1>2. \A q \in Projects \ opted' : Central(q) \notin Reach(p)' /\ Legacy(q) \notin Reach(p)'
  BY DirectoriesDiffer DEF Reach, Own
<1>3. \A q \in Projects \ opted' :
        has'[Central(q)] = {} /\ "config" \notin has'[Legacy(q)] /\ q \notin inGlobal'
  BY <1>2, DirectoriesDiffer DEF DataInv
<1>4. \A q \in Projects \ (opted' \cup astray') : graph'[Central(q)] = {}
  BY <1>2, DirectoriesDiffer DEF DataInv
<1>5. \A q \in Projects : \A d \in Own(q) : "marker" \in has'[d] => q \in inGlobal'
  BY DirectoriesDiffer DEF DataInv, Own
<1>6. \A c \in healed : c[2] \in Dirs /\ {"config", "meta"} \subseteq has'[c[2]] /\ c[1] \in inGlobal'
  BY DEF DataInv
<1> QED
  BY <1>1, <1>3, <1>4, <1>5, <1>6 DEF DataInv, Own, Central, Legacy

(* A task or a thread goes on; what does not, stands.                         *)
LEMMA TasksMove ==
  ASSUME ContactInv, Grows, NEW a \in {"server", "command"},
         NEW j, contactJob' = [contactJob EXCEPT ![a] = j],
         j \in {contactJob[a], NoTask} \/ (j \in ContactJobs /\ Repaired(j)'),
         NEW t, initThread' = t,
         t \in {initThread, NoTask} \/ (t \in InitThreads /\ Initialising(t)'),
         NEW x, indexThread' = x,
         x \in {indexThread, NoTask} \/ (x \in IndexThreads /\ Indexing(x)')
  PROVE  TasksInv'
<1>1. \A b \in {"server", "command"} : \E k \in ContactJobs \cup {NoTask} :
        contactJob'[b] = k /\ (k # NoTask => Repaired(k)')
  BY TaskStands DEF ContactInv, TasksInv
<1>2. \A b \in {"server", "command"} : contactJob'[b] # NoTask => Repaired(contactJob[b])'
  BY <1>1 DEF Repaired, Own, Reach
<1>3. contactJob' \in [{"server", "command"} -> ContactJobs \cup {NoTask}]
  BY <1>1 DEF ContactInv, TasksInv
<1>4. t \in InitThreads \cup {NoTask} /\ (t # NoTask => Initialising(t)')
  BY TaskStands DEF ContactInv, TasksInv
<1>5. x \in IndexThreads \cup {NoTask} /\ (x # NoTask => Indexing(x)')
  BY TaskStands DEF ContactInv, TasksInv
<1>6. /\ initThread' # NoTask => Initialising(initThread)'
      /\ indexThread' # NoTask => Indexing(indexThread)'
  BY <1>4, <1>5 DEF Initialising, Indexing, Own, Reach
<1> QED
  BY <1>2, <1>3, <1>4, <1>5, <1>6 DEF TasksInv, NoTask

(* A task of the server's or a command's goes on, and the threads do not.      *)
LEMMA OneTask ==
  ASSUME ContactInv, DataInv', ServerInv', Grows, NEW a \in {"server", "command"},
         NEW j \in ContactJobs \cup {NoTask}, contactJob' = [contactJob EXCEPT ![a] = j],
         j # NoTask => Repaired(j)', UNCHANGED <<initThread, indexThread>>
  PROVE  ContactInv'
<1>1. PICK t : t = initThread
  OBVIOUS
<1>2. PICK x : x = indexThread
  OBVIOUS
<1>3. TasksInv'
  BY <1>1, <1>2, TasksMove
<1> QED
  BY <1>3 DEF ContactInv

(* A thread goes on, and the tasks do not.                                    *)
LEMMA OneThread ==
  ASSUME ContactInv, DataInv', ServerInv', Grows, UNCHANGED contactJob,
         NEW t, initThread' = t,
         t \in {initThread, NoTask} \/ (t \in InitThreads /\ Initialising(t)'),
         NEW x, indexThread' = x,
         x \in {indexThread, NoTask} \/ (x \in IndexThreads /\ Indexing(x)')
  PROVE  ContactInv'
<1>1. PICK j : j = contactJob["server"]
  OBVIOUS
<1>2. contactJob' = [contactJob EXCEPT !["server"] = j]
  BY <1>1 DEF ContactInv, TasksInv
<1>3. TasksInv'
  BY <1>1, <1>2, TasksMove
<1> QED
  BY <1>3 DEF ContactInv

(* Nothing in the directories, nor in what was opted in, changes.              *)
LEMMA DataSame ==
  ASSUME DataInv, UNCHANGED <<has, graph, inGlobal, opted, healed, astray>>
  PROVE  DataInv' /\ Grows
BY DEF DataInv, Grows, Own, Central, Legacy

LEMMA JobIs ==
  ASSUME ContactInv, NEW a \in DOMAIN contactJob, contactJob[a].at \in Repairs \cup {"init", "scaffold"}
  PROVE  /\ a \in {"server", "command"} /\ contactJob[a] \in ContactJobs /\ Repaired(contactJob[a])
         /\ contactJob[a].root \in opted /\ contactJob[a].dir \in Dirs /\ opted \subseteq Projects
         /\ contactJob[a].dir \in Reach(contactJob[a].root)
         /\ contactJob[a].at \in Repairs => contactJob[a].dir \in Own(contactJob[a].root)
<1>1. contactJob[a] # NoTask
  BY DEF NoTask, Repairs
<1> QED
  BY <1>1 DEF ContactInv, TasksInv, DataInv, Repaired, ContactJobs, Reach

(* What a task writes into its directory.                                     *)
LEMMA TaskGives ==
  ASSUME ContactInv, NEW p \in opted, NEW d \in Dirs, d \in Reach(p), NEW w \in SUBSET Things,
         Give(d, w), "marker" \in w => d \in Own(p) /\ p \in inGlobal,
         UNCHANGED <<graph, opted, healed, astray>>,
         inGlobal \subseteq inGlobal', inGlobal' \subseteq inGlobal \cup {p}
  PROVE  /\ DataInv' /\ Grows
         /\ has'[d] = has[d] \cup w /\ \A e \in Dirs \ {d} : has'[e] = has[e]
<1>1. /\ has' \in [Dirs -> SUBSET Things]
      /\ has'[d] = has[d] \cup w /\ \A e \in Dirs \ {d} : has'[e] = has[e]
  BY DEF ContactInv, DataInv, Give
<1>2. p \in opted' /\ opted' \subseteq Projects /\ graph' \in [Dirs -> SUBSET Projects] /\ Reach(p)' = Reach(p)
  BY DEF ContactInv, DataInv, Reach, Own, Central, Legacy
<1>3. \A e \in Dirs : has[e] \ {"shared"} \subseteq has'[e]
  BY <1>1
<1>4. \A e \in Dirs : has'[e] # has[e] \/ graph'[e] # graph[e] => e \in Reach(p)'
  BY <1>1, <1>2
<1>5. \A e \in Dirs : "marker" \in has'[e] => "marker" \in has[e] \/ (e \in Own(p) /\ p \in inGlobal')
  BY <1>1
<1> QED
  BY <1>1, <1>2, <1>3, <1>4, <1>5, DataStep DEF ContactInv

(* A repair comes to stage w, with what that stage asks for.                  *)
LEMMA RepairAt ==
  ASSUME ContactInv, NEW a \in DOMAIN contactJob, NEW j \in ContactJobs, j = contactJob[a],
         j.at \in Repairs, NEW w \in Repairs \ {"config"}, Go(a, w),
         UNCHANGED <<process, initThread, indexThread>>, DataInv', Grows,
         "config" \in has'[j.dir], w # "meta" => "meta" \in has'[j.dir],
         w \in {"mark", "decide"} => j.root \in inGlobal'
  PROVE  ContactInv'
<1>1. PICK k : k = [j EXCEPT !.at = w]
  OBVIOUS
<1>2. a \in {"server", "command"} /\ j.root \in opted /\ j.dir \in Own(j.root)
  BY JobIs
<1>3. k \in ContactJobs /\ k.at = w /\ k.root = j.root /\ k.dir = j.dir
  BY <1>1 DEF ContactJobs
<1>4. Repaired(k)'
  BY <1>2, <1>3 DEF Repaired, Grows, Own, Central, Legacy
<1>5. ServerInv'
  BY ServerStands DEF ContactInv
<1>6. contactJob' = [contactJob EXCEPT ![a] = k]
  BY <1>1 DEF Go
<1> QED
  BY <1>2, <1>3, <1>4, <1>5, <1>6, OneTask

LEMMA WriteConfigKeeps ==
  ASSUME ContactInv, NEW a \in DOMAIN contactJob, WriteConfig(a)
  PROVE  ContactInv'
<1>1. PICK j : j = contactJob[a]
  OBVIOUS
<1>2. /\ j \in ContactJobs /\ j.root \in opted /\ j.dir \in Dirs /\ j.dir \in Reach(j.root)
      /\ j.at \in Repairs
  BY <1>1, JobIs DEF WriteConfig, Repairs
<1>3. DataInv' /\ Grows /\ has'[j.dir] = has[j.dir] \cup {"config"}
  BY <1>1, <1>2, TaskGives DEF WriteConfig, Things, histories
<1> QED
  BY <1>1, <1>2, <1>3, RepairAt DEF WriteConfig, Repairs

LEMMA WriteMetadataKeeps ==
  ASSUME ContactInv, NEW a \in DOMAIN contactJob, WriteMetadata(a)
  PROVE  ContactInv'
<1>1. PICK j : j = contactJob[a]
  OBVIOUS
<1>2. /\ j \in ContactJobs /\ j.root \in opted /\ j.dir \in Dirs /\ j.dir \in Reach(j.root)
      /\ j.at = "meta" /\ Repaired(j) /\ j.dir \in Own(j.root) /\ opted \subseteq Projects
  BY <1>1, JobIs DEF WriteMetadata, Repairs
<1>3. DataInv' /\ Grows /\ has'[j.dir] = has[j.dir] \cup {"meta"} /\ inGlobal' = inGlobal
  BY <1>1, <1>2, TaskGives DEF WriteMetadata, Things, histories
<1>4. "config" \in has[j.dir] /\ ("marker" \in has[j.dir] => j.root \in inGlobal)
  BY <1>2 DEF ContactInv, DataInv, Repaired, Repairs
<1>5. CASE "marker" \in has[j.dir]
  BY <1>1, <1>2, <1>3, <1>4, <1>5, RepairAt DEF WriteMetadata, Repairs
<1>6. CASE "marker" \notin has[j.dir]
  BY <1>1, <1>2, <1>3, <1>4, <1>6, RepairAt DEF WriteMetadata, Repairs
<1> QED
  BY <1>5, <1>6

LEMMA RegisterKeeps ==
  ASSUME ContactInv, NEW a \in DOMAIN contactJob, Register(a)
  PROVE  ContactInv'
<1>1. PICK j : j = contactJob[a]
  OBVIOUS
<1>2. /\ j \in ContactJobs /\ j.root \in opted /\ j.dir \in Dirs /\ j.dir \in Reach(j.root)
      /\ j.at = "register" /\ Repaired(j)
  BY <1>1, JobIs DEF Register, Repairs
<1>3. PICK w \in {"mark", "unsure"} :
        /\ Go(a, w)
        /\ inGlobal' = inGlobal \cup {j.root} \/ (w = "unsure" /\ inGlobal' = inGlobal)
  BY <1>1 DEF Register
<1>4. UNCHANGED <<has, graph, opted, healed, astray, process, initThread, indexThread>>
  BY DEF Register, histories
<1>5. Give(j.dir, {})
  BY <1>4 DEF Give, ContactInv, DataInv
<1>6. DataInv' /\ Grows
  BY <1>2, <1>3, <1>4, <1>5, TaskGives
<1>7. {"config", "meta"} \subseteq has[j.dir]
  BY <1>2 DEF Repaired, Repairs
<1> QED
  BY <1>1, <1>2, <1>3, <1>4, <1>6, <1>7, RepairAt DEF Repairs

LEMMA MarkKeeps ==
  ASSUME ContactInv, NEW a \in DOMAIN contactJob, Mark(a)
  PROVE  ContactInv'
<1>1. PICK j : j = contactJob[a]
  OBVIOUS
<1>2. /\ j \in ContactJobs /\ j.root \in opted /\ j.dir \in Dirs /\ j.dir \in Reach(j.root)
      /\ j.at = "mark" /\ j.dir \in Own(j.root) /\ j.root \in inGlobal
      /\ {"config", "meta"} \subseteq has[j.dir]
  BY <1>1, JobIs DEF Mark, Repairs, Repaired
<1>3. DataInv' /\ Grows /\ has'[j.dir] = has[j.dir] \cup {"marker"} /\ inGlobal' = inGlobal
  BY <1>1, <1>2, TaskGives DEF Mark, Things, histories
<1> QED
  BY <1>1, <1>2, <1>3, RepairAt DEF Mark, Repairs

(* The repair is done, and the server's first leaves the rest to a thread.     *)
LEMMA DecideKeeps ==
  ASSUME ContactInv, NEW a \in DOMAIN contactJob, Decide(a)
  PROVE  ContactInv'
<1>1. PICK j : j = contactJob[a]
  OBVIOUS
<1>2. /\ j \in ContactJobs /\ j.root \in opted /\ j.dir \in Dirs /\ j.dir \in Own(j.root)
      /\ {"config", "meta"} \subseteq has[j.dir] /\ a \in {"server", "command"}
      /\ opted \subseteq Projects
      /\ j.at = "decide" => j.root \in inGlobal
  BY <1>1, JobIs DEF Decide, Repairs, Repaired
<1>3. UNCHANGED <<has, graph, inGlobal, bound, cache, optCache, indexThread, opted, astray>>
  BY DEF Decide
<1>4. \A c \in healed' : c \in healed \/ (c = <<j.root, j.dir>> /\ j.at = "decide")
  BY <1>1 DEF Decide
<1>5. DataInv'
  <2>1. \A c \in healed' : c[2] \in Dirs /\ {"config", "meta"} \subseteq has[c[2]] /\ c[1] \in inGlobal
    BY <1>2, <1>4 DEF ContactInv, DataInv
  <2> QED
    BY <1>3, <2>1 DEF ContactInv, DataInv, Own, Central, Legacy
<1>6. Grows
  BY <1>3 DEF Grows
<1>7. ServerInv'
  <2>1. begun' \in BOOLEAN /\ (begun => begun')
    BY DEF Decide, ContactInv, ServerInv
  <2> QED
    BY <1>3, <2>1 DEF ContactInv, ServerInv, OptedIn, Own, Reach, Central, Legacy
<1>8. contactJob' = [contactJob EXCEPT ![a] = NoTask]
  BY DEF Decide
<1>9. PICK t : initThread' = t
  OBVIOUS
<1>10. t \in {initThread, NoTask, At("config", j.root, j.dir)}
  BY <1>1, <1>9 DEF Decide
<1>11. t \in {initThread, NoTask} \/ (t \in InitThreads /\ Initialising(t)')
  <2>1. ASSUME t = At("config", j.root, j.dir)
        PROVE  t \in InitThreads /\ t.root = j.root /\ t.dir = j.dir
    BY <1>2, <2>1 DEF At, InitThreads
  <2> QED
    BY <1>2, <1>3, <1>10, <2>1 DEF Initialising, Own, Central, Legacy
<1>12. PICK x : x = indexThread
  OBVIOUS
<1>13. TasksInv'
  BY <1>2, <1>3, <1>6, <1>8, <1>9, <1>11, <1>12, TasksMove
<1> QED
  BY <1>5, <1>7, <1>13 DEF ContactInv

(* A call binds its project; the first that is allowed begins the repair.      *)
LEMMA CallKeeps ==
  ASSUME ContactInv, NEW p \in Projects, Call(p)
  PROVE  ContactInv'
<1> DEFINE fresh == IF p = bound THEN cache ELSE NoneCached
           d == IF p = bound THEN DataDir(p) ELSE Resolve(has, p)
<1>1. UNCHANGED <<has, graph, inGlobal, opted, healed, astray, begun, initThread, indexThread>>
      /\ bound' = p
  BY DEF Call, histories
<1>2. DataInv' /\ Grows
  BY <1>1, DataSame DEF ContactInv
<1>3. Allowed(p) => OptedIn(p)
  BY DEF Allowed, ContactInv, ServerInv
<1>4. /\ d \in Dirs /\ d \in Reach(p)
      /\ OptedIn(p) => p \in opted /\ (~begun => d \in Own(p))
  BY ResolvedTo, DataDirIs DEF ContactInv
<1>5. fresh \in [Projects -> SUBSET Dirs]
      /\ \A q \in Projects : fresh[q] \subseteq Reach(q) /\ (~begun => fresh[q] \subseteq Own(q))
  BY DEF ContactInv, ServerInv, NoneCached
<1>6. optCache' \in {optCache, IF OptedIn(p) THEN optCache \cup {p} ELSE optCache}
  BY <1>3 DEF Call
<1>7. \/ cache' = fresh
      \/ OptedIn(p) /\ ~begun /\ cache' = [fresh EXCEPT ![p] = {d}]
  BY <1>3 DEF Call
<1>8. \/ contactJob' = contactJob
      \/ OptedIn(p) /\ ~begun /\ contactJob' = [contactJob EXCEPT !["server"] = At("config", p, d)]
  BY <1>3 DEF Call
<1> HIDE DEF fresh, d
<1>9. ServerInv'
  <2>1. cache' \in [Projects -> SUBSET Dirs]
        /\ \A q \in Projects : cache'[q] \subseteq Reach(q) /\ (~begun => cache'[q] \subseteq Own(q))
    BY <1>4, <1>5, <1>7
  <2>2. optCache' \subseteq Projects /\ \A q \in optCache' : OptedIn(q)
    BY <1>6 DEF ContactInv, ServerInv
  <2> QED
    BY <1>1, <2>1, <2>2 DEF ContactInv, ServerInv, OptedIn, Reach, Own, Central, Legacy
<1>10. PICK j : j = contactJob'["server"]
  OBVIOUS
<1>11. /\ contactJob' = [contactJob EXCEPT !["server"] = j]
       /\ j = contactJob["server"] \/ (OptedIn(p) /\ ~begun /\ j = At("config", p, d))
  BY <1>8, <1>10 DEF ContactInv, TasksInv
<1>12. ASSUME OptedIn(p), ~begun, j = At("config", p, d)
       PROVE  j \in ContactJobs /\ Repaired(j)'
  <2>1. j \in ContactJobs /\ j.at = "config" /\ j.root = p /\ j.dir = d
    BY <1>4, <1>12 DEF At, ContactJobs, Repairs
  <2> QED
    BY <1>1, <1>4, <1>12, <2>1 DEF Repaired, Repairs, Own, Central, Legacy
<1>13. PICK t : t = initThread
  OBVIOUS
<1>14. PICK x : x = indexThread
  OBVIOUS
<1>15. TasksInv'
  BY <1>1, <1>2, <1>11, <1>12, <1>13, <1>14, TasksMove
<1> QED
  BY <1>2, <1>9, <1>15 DEF ContactInv

LEMMA CommandKeeps ==
  ASSUME ContactInv, NEW p \in Projects, Command(p)
  PROVE  ContactInv'
<1>1. PICK j : j = At("config", p, Resolve(has, p))
  OBVIOUS
<1>2. /\ contactJob' = [contactJob EXCEPT !["command"] = j] /\ OptedIn(p)
      /\ UNCHANGED <<has, graph, inGlobal, opted, healed, astray, process, initThread, indexThread>>
  BY <1>1 DEF Command, histories
<1>3. DataInv' /\ Grows
  BY <1>2, DataSame DEF ContactInv
<1>4. ServerInv'
  BY <1>2, <1>3, ServerStands DEF ContactInv
<1>5. Resolve(has, p) \in Dirs /\ Resolve(has, p) \in Own(p) /\ p \in opted
  BY <1>2, ResolvedTo DEF ContactInv
<1>6. j \in ContactJobs /\ j.at = "config" /\ j.root = p /\ j.dir = Resolve(has, p)
  BY <1>1, <1>5 DEF At, ContactJobs, Repairs
<1>7. Repaired(j)'
  BY <1>2, <1>5, <1>6 DEF Repaired, Repairs, Own, Central, Legacy
<1> QED
  BY <1>2, <1>3, <1>4, <1>6, <1>7, OneTask

LEMMA InitThreadIs ==
  ASSUME ContactInv, initThread.at \in {"config", "register", "graph"}
  PROVE  /\ initThread \in InitThreads /\ initThread.root \in opted /\ initThread.root \in Projects
         /\ initThread.dir \in Dirs /\ initThread.dir \in Own(initThread.root)
<1>1. initThread # NoTask
  BY DEF NoTask
<1> QED
  BY <1>1 DEF ContactInv, TasksInv, DataInv, Initialising, InitThreads

LEMMA ThreadConfigKeeps == ASSUME ContactInv, ThreadConfig PROVE ContactInv'
<1>1. PICK t : t = initThread
  OBVIOUS
<1>2. t \in InitThreads /\ t.root \in opted /\ t.root \in Projects /\ t.dir \in Dirs /\ t.dir \in Own(t.root)
  BY <1>1, InitThreadIs DEF ThreadConfig
<1>3. /\ has' = [has EXCEPT ![t.dir] = (@ \ {"shared"}) \cup {"config", "meta"}]
      /\ cache' = [cache EXCEPT ![t.root] = {}] /\ initThread' = [t EXCEPT !.at = "register"]
      /\ UNCHANGED <<graph, inGlobal, bound, optCache, begun, contactJob, indexThread, opted, healed, astray>>
  BY <1>1 DEF ThreadConfig, histories
<1>4. DataInv' /\ Grows
  <2>1. /\ has' \in [Dirs -> SUBSET Things]
        /\ has'[t.dir] = (has[t.dir] \ {"shared"}) \cup {"config", "meta"}
        /\ \A d \in Dirs \ {t.dir} : has'[d] = has[d]
    BY <1>2, <1>3 DEF ContactInv, DataInv, Things
  <2>2. t.root \in opted' /\ opted' \subseteq Projects /\ graph' \in [Dirs -> SUBSET Projects] /\ t.dir \in Reach(t.root)'
    BY <1>2, <1>3 DEF ContactInv, DataInv, Own, Reach, Central, Legacy
  <2>3. \A d \in Dirs : has[d] \ {"shared"} \subseteq has'[d]
    BY <2>1
  <2>4. \A d \in Dirs : has'[d] # has[d] \/ graph'[d] # graph[d] => d \in Reach(t.root)'
    BY <1>3, <2>1, <2>2
  <2>5. \A d \in Dirs : "marker" \in has'[d] => "marker" \in has[d]
    BY <2>1
  <2> QED
    BY <1>3, <2>1, <2>2, <2>3, <2>4, <2>5, DataStep DEF ContactInv
<1>5. ServerInv'
  <2>1. \A q \in Projects : OptedIn(q) => OptedIn(q)'
    BY <1>4, DirectoriesDiffer DEF OptedIn, Grows
  <2> QED
    BY <1>2, <1>3, <2>1 DEF ContactInv, ServerInv, Own, Reach, Central, Legacy
<1>6. PICK u : u = [t EXCEPT !.at = "register"]
  OBVIOUS
<1>7. u \in InitThreads /\ u.root = t.root /\ u.dir = t.dir
  BY <1>2, <1>6 DEF InitThreads
<1>8. Initialising(u)'
  BY <1>2, <1>3, <1>7 DEF Initialising, Own, Central, Legacy
<1>9. PICK x : x = indexThread
  OBVIOUS
<1> QED
  BY <1>3, <1>4, <1>5, <1>6, <1>7, <1>8, <1>9, OneThread

LEMMA ThreadRegisterKeeps == ASSUME ContactInv, ThreadRegister PROVE ContactInv'
<1>1. PICK t : t = initThread
  OBVIOUS
<1>2. t \in InitThreads /\ t.root \in opted /\ t.root \in Projects /\ t.dir \in Dirs /\ t.dir \in Own(t.root)
  BY <1>1, InitThreadIs DEF ThreadRegister
<1>3. /\ inGlobal' \in {inGlobal, inGlobal \cup {t.root}} /\ initThread' = [t EXCEPT !.at = "graph"]
      /\ UNCHANGED <<has, graph, process, contactJob, indexThread, opted, healed, astray>>
  BY <1>1 DEF ThreadRegister, histories
<1>4. DataInv' /\ Grows
  <2>1. Give(t.dir, {}) /\ t.dir \in Reach(t.root)
    BY <1>2, <1>3 DEF Give, ContactInv, DataInv, Reach
  <2> QED
    BY <1>2, <1>3, <2>1, TaskGives
<1>5. ServerInv'
  BY <1>3, <1>4, ServerStands DEF ContactInv
<1>6. PICK u : u = [t EXCEPT !.at = "graph"]
  OBVIOUS
<1>7. u \in InitThreads /\ u.root = t.root /\ u.dir = t.dir
  BY <1>2, <1>6 DEF InitThreads
<1>8. Initialising(u)'
  BY <1>2, <1>3, <1>7 DEF Initialising, Own, Central, Legacy
<1>9. PICK x : x = indexThread
  OBVIOUS
<1> QED
  BY <1>3, <1>4, <1>5, <1>6, <1>7, <1>8, <1>9, OneThread

(* A graph is built, of a project that is opted in or astray.                 *)
LEMMA GraphBuilt ==
  ASSUME ContactInv, NEW p \in opted \cup astray, NEW d \in Dirs, d \in Reach(p), NEW g \in SUBSET Projects,
         graph' = [graph EXCEPT ![d] = g] \/ graph' = graph,
         UNCHANGED <<has, inGlobal, opted, healed, astray>>
  PROVE  DataInv' /\ Grows
<1>1. \A q \in Projects \ (opted \cup astray) : Central(q) # d
  BY DirectoriesDiffer DEF Reach, Own
<1>2. graph' \in [Dirs -> SUBSET Projects] /\ \A q \in Projects \ (opted \cup astray) : graph'[Central(q)] = {}
  BY <1>1, DirectoriesDiffer DEF ContactInv, DataInv
<1> QED
  BY <1>2 DEF ContactInv, DataInv, Grows, Own, Central, Legacy

LEMMA ThreadGraphKeeps == ASSUME ContactInv, ThreadGraph PROVE ContactInv'
<1>1. PICK t : t = initThread
  OBVIOUS
<1>2. t \in InitThreads /\ t.root \in opted /\ t.root \in Projects /\ t.dir \in Dirs /\ t.dir \in Own(t.root)
  BY <1>1, InitThreadIs DEF ThreadGraph
<1>3. PICK x : x = At("resolve", t.root, t.dir)
  OBVIOUS
<1>4. /\ graph' = [graph EXCEPT ![t.dir] = graph[t.dir] \cup {t.root}] \/ graph' = graph
      /\ initThread' = NoTask /\ indexThread' = x
      /\ UNCHANGED <<has, inGlobal, process, contactJob, opted, healed, astray>>
  BY <1>1, <1>3 DEF ThreadGraph, histories
<1>5. DataInv' /\ Grows
  <2>1. graph[t.dir] \cup {t.root} \in SUBSET Projects /\ t.dir \in Reach(t.root)
    BY <1>2 DEF ContactInv, DataInv, Reach
  <2> QED
    BY <1>2, <1>4, <2>1, GraphBuilt
<1>6. ServerInv'
  BY <1>4, <1>5, ServerStands DEF ContactInv
<1>7. x \in IndexThreads /\ x.root = t.root /\ x.dir = t.dir
  BY <1>2, <1>3 DEF At, IndexThreads
<1>8. Indexing(x)'
  BY <1>2, <1>4, <1>7 DEF Indexing, Own, Reach, Central, Legacy
<1> QED
  BY <1>4, <1>5, <1>6, <1>7, <1>8, OneThread

LEMMA IndexThreadIs ==
  ASSUME ContactInv, indexThread.at \in {"resolve", "build"}
  PROVE  /\ indexThread # NoTask /\ indexThread \in IndexThreads /\ indexThread.dir \in Dirs
         /\ indexThread.root \in Projects /\ Indexing(indexThread)
<1>1. indexThread # NoTask
  BY DEF NoTask
<1> QED
  BY <1>1 DEF ContactInv, TasksInv, IndexThreads

(* The threads of a server come after its first repair.                       *)
Running == initThread # NoTask \/ indexThread # NoTask => begun

LEMMA RunningKeeps == ASSUME ContactInv, Running, [FCNext]_fcvars PROVE Running'
<1>1. CASE UNCHANGED <<initThread, indexThread, begun>>
  BY <1>1 DEF Running
<1>2. ASSUME NEW a \in DOMAIN contactJob, Decide(a) PROVE Running'
  BY <1>2 DEF Decide, Running
<1>3. CASE ThreadConfig \/ ThreadRegister \/ ThreadGraph
  BY <1>3, InitThreadIs DEF ThreadConfig, ThreadRegister, ThreadGraph, Running, process, NoTask
<1>4. CASE IndexResolve \/ IndexBuild
  BY <1>4, IndexThreadIs DEF IndexResolve, IndexBuild, Running, process
<1>5. CASE Restart
  BY <1>5 DEF Restart, Running
<1>6. CASE UNCHANGED fcvars
  BY <1>1, <1>6 DEF fcvars, process
<1>7. ASSUME NEW p \in Projects, Call(p) \/ Command(p) \/ InitData(p) PROVE Running'
  BY <1>1, <1>7 DEF Call, Command, InitData, process
<1>8. ASSUME NEW a \in DOMAIN contactJob, WriteConfig(a) \/ WriteMetadata(a) \/ Register(a) \/ Mark(a)
      PROVE  Running'
  BY <1>1, <1>8 DEF WriteConfig, WriteMetadata, Register, Mark, process
<1>9. CASE InitRegister \/ Interrupt \/ \E shared \in BOOLEAN : InitScaffold(shared)
  BY <1>1, <1>9 DEF InitRegister, Interrupt, InitScaffold, process
<1> QED
  BY <1>2, <1>3, <1>4, <1>5, <1>6, <1>7, <1>8, <1>9 DEF FCNext

(* The index thread takes whatever project is bound by now, and remembers the  *)
(* directory it finds.                                                       *)
LEMMA IndexResolveKeeps == ASSUME ContactInv, Running, IndexResolve PROVE ContactInv'
<1>1. PICK d : d = DataDir(bound)
  OBVIOUS
<1>2. bound \in Projects /\ d \in Dirs /\ d \in Reach(bound)
  BY <1>1, DataDirIs DEF ContactInv, ServerInv
<1>3. begun /\ indexThread.root \in opted
  BY IndexThreadIs DEF IndexResolve, Running, Indexing
<1>4. PICK x : x = At("build", bound, d)
  OBVIOUS
<1>5. /\ indexThread' = x /\ cache' = [cache EXCEPT ![bound] = {d}]
      /\ astray' = astray \cup ({bound} \ {indexThread.root})
      /\ UNCHANGED <<has, graph, inGlobal, bound, optCache, begun, contactJob, initThread, opted, healed>>
  BY <1>1, <1>4 DEF IndexResolve
<1>6. DataInv' /\ Grows
  BY <1>2, <1>5 DEF ContactInv, DataInv, Grows, Own, Central, Legacy
<1>7. ServerInv'
  BY <1>2, <1>3, <1>5 DEF ContactInv, ServerInv, OptedIn, Own, Reach, Central, Legacy
<1>8. x \in IndexThreads /\ x.root = bound /\ x.dir = d /\ x.at = "build"
  BY <1>2, <1>4 DEF At, IndexThreads
<1>9. Indexing(x)'
  BY <1>2, <1>3, <1>5, <1>8 DEF Indexing, Own, Reach, Central, Legacy
<1>10. PICK t : t = initThread
  OBVIOUS
<1> QED
  BY <1>5, <1>6, <1>7, <1>8, <1>9, <1>10, OneThread

LEMMA IndexBuildKeeps == ASSUME ContactInv, IndexBuild PROVE ContactInv'
<1>1. PICK x : x = indexThread
  OBVIOUS
<1>2. x.root \in opted \cup astray /\ x.dir \in Dirs /\ x.dir \in Reach(x.root) /\ x.root \in Projects
  BY <1>1, IndexThreadIs DEF IndexBuild, Indexing
<1>3. /\ graph' = [graph EXCEPT ![x.dir] = {x.root}] \/ graph' = graph
      /\ indexThread' = NoTask
      /\ UNCHANGED <<has, inGlobal, process, contactJob, initThread, opted, healed, astray>>
  BY <1>1 DEF IndexBuild, histories
<1>4. DataInv' /\ Grows
  BY <1>2, <1>3, GraphBuilt
<1>5. ServerInv'
  BY <1>3, <1>4, ServerStands DEF ContactInv
<1>6. PICK t : t = initThread
  OBVIOUS
<1> QED
  BY <1>3, <1>4, <1>5, <1>6, OneThread

(* migrate_to_centralized touches a project's own directory only, and only if   *)
(* the project is opted in; a project is resolved to its own then, or to one   *)
(* that is opted in.                                                         *)
LEMMA CentralisedIs ==
  ASSUME DataInv, NEW p \in Projects, NEW h, h = Centralised(p)
  PROVE  /\ h \in [Dirs -> SUBSET Things]
         /\ h # has => p \in opted
         /\ \A d \in Dirs \ {Central(p)} : h[d] = has[d]
         /\ has[Central(p)] \subseteq h[Central(p)]
         /\ "marker" \in h[Central(p)] => "marker" \in has[Central(p)] \/ p \in inGlobal
         /\ Resolve(h, p) \in Dirs
         /\ Resolve(h, p) \in Own(p) \cup {Central(q) : q \in opted}
<1>1. /\ h \in [Dirs -> SUBSET Things]
      /\ h # has => p \in opted
      /\ \A d \in Dirs \ {Central(p)} : h[d] = has[d]
      /\ has[Central(p)] \subseteq h[Central(p)]
      /\ "marker" \in h[Central(p)] => "marker" \in has[Central(p)] \cup has[Legacy(p)]
  <2>1. CASE h = has
    BY <2>1 DEF DataInv
  <2>2. CASE /\ "config" \in has[Legacy(p)]
             /\ h = [has EXCEPT ![Central(p)] = @ \cup has[Legacy(p)] \cup {"config", "meta"}]
    BY <2>2, DirectoriesDiffer DEF DataInv, Things
  <2> QED
    BY <2>1, <2>2 DEF Centralised
<1>2. \A d \in Clones(h, p) : \E q \in opted : d = Central(q)
  BY <1>1, DirectoriesDiffer DEF Clones, DataInv
<1>3. Resolve(h, p) \in {Central(p), Legacy(p)} \cup Clones(h, p)
  BY DEF Resolve
<1>4. opted \subseteq Projects
  BY DEF DataInv
<1>5. "marker" \in h[Central(p)] => "marker" \in has[Central(p)] \/ p \in inGlobal
  BY <1>1 DEF DataInv, Own
<1> QED
  BY <1>1, <1>2, <1>3, <1>4, <1>5, DirectoriesDiffer DEF Own

(* codevira init.                                                            *)
LEMMA InitDataKeeps ==
  ASSUME ContactInv, NEW p \in Projects, InitData(p)
  PROVE  ContactInv'
<1>1. PICK h : h = Centralised(p)
  OBVIOUS
<1>2. PICK d : d = Resolve(h, p)
  OBVIOUS
<1>3. /\ has' = [h EXCEPT ![d] = (@ \ {"shared"}) \cup {"config"}]
      /\ graph' = [graph EXCEPT ![d] = {p}] \/ graph' = graph
      /\ contactJob' = [contactJob EXCEPT !["command"] = At("init", p, d)]
      /\ opted' = opted \cup {p}
      /\ UNCHANGED <<inGlobal, process, initThread, indexThread, healed, astray>>
  BY <1>1, <1>2 DEF InitData
<1>4. /\ h \in [Dirs -> SUBSET Things] /\ d \in Dirs /\ d \in Own(p) \cup {Central(q) : q \in opted}
      /\ \A e \in Dirs \ {Central(p)} : h[e] = has[e]
      /\ has[Central(p)] \subseteq h[Central(p)] /\ Central(p) \in Dirs
      /\ "marker" \in h[Central(p)] => "marker" \in has[Central(p)] \/ p \in inGlobal
  BY <1>1, <1>2, CentralisedIs, DirectoriesDiffer DEF ContactInv
<1>5. DataInv' /\ Grows
  <2>1. /\ has' \in [Dirs -> SUBSET Things] /\ has'[d] = (h[d] \ {"shared"}) \cup {"config"}
        /\ \A e \in Dirs \ {d} : has'[e] = h[e]
    BY <1>3, <1>4 DEF Things
  <2>2. graph' \in [Dirs -> SUBSET Projects] /\ \A e \in Dirs \ {d} : graph'[e] = graph[e]
    BY <1>3 DEF ContactInv, DataInv
  <2>3. /\ p \in opted' /\ opted \subseteq opted' /\ opted' \subseteq Projects
        /\ d \in Reach(p)' /\ Central(p) \in Reach(p)'
    BY <1>3, <1>4 DEF ContactInv, DataInv, Reach, Own, Central, Legacy
  <2>4. \A e \in Dirs : has[e] \ {"shared"} \subseteq has'[e]
    BY <1>4, <2>1
  <2>5. \A e \in Dirs : has'[e] # has[e] \/ graph'[e] # graph[e] => e \in Reach(p)'
    BY <1>4, <2>1, <2>2, <2>3
  <2>6. \A e \in Dirs : "marker" \in has'[e] =>
          "marker" \in has[e] \/ (e \in Own(p) /\ p \in inGlobal')
    BY <1>3, <1>4, <2>1 DEF Own
  <2> QED
    BY <1>3, <2>1, <2>2, <2>3, <2>4, <2>5, <2>6, DataStep DEF ContactInv
<1>6. ServerInv'
  BY <1>3, <1>5, ServerStands DEF ContactInv
<1>7. PICK j : j = At("init", p, d)
  OBVIOUS
<1>8. j \in ContactJobs /\ j.at = "init" /\ j.root = p /\ j.dir = d
  BY <1>4, <1>7 DEF At, ContactJobs
<1>9. Repaired(j)'
  BY <1>3, <1>4, <1>8 DEF Repaired, Repairs, Own, Reach, Central, Legacy
<1> QED
  BY <1>3, <1>5, <1>6, <1>7, <1>8, <1>9, OneTask

LEMMA InitRegisterKeeps == ASSUME ContactInv, InitRegister PROVE ContactInv'
<1>1. PICK j : j = contactJob["command"]
  OBVIOUS
<1>2. /\ j \in ContactJobs /\ j.root \in opted /\ j.dir \in Dirs /\ j.dir \in Reach(j.root)
      /\ DOMAIN contactJob = {"server", "command"}
  <2>1. DOMAIN contactJob = {"server", "command"}
    BY DEF ContactInv, TasksInv
  <2> QED
    BY <1>1, <2>1, JobIs DEF InitRegister
<1>3. PICK w \in {{}, {"meta"}} :
        Give(j.dir, w) /\ inGlobal' \in {inGlobal, inGlobal \cup {j.root}}
  <2>1. CASE UNCHANGED <<has, inGlobal>>
    BY <2>1 DEF ContactInv, DataInv, Give
  <2>2. CASE inGlobal' = inGlobal \cup {j.root} /\ Give(j.dir, {"meta"})
    BY <2>2
  <2> QED
    BY <1>1, <2>1, <2>2 DEF InitRegister
<1>4. UNCHANGED <<graph, opted, healed, astray, process, initThread, indexThread>>
  BY DEF InitRegister, histories
<1>5. DataInv' /\ Grows
  BY <1>2, <1>3, <1>4, TaskGives DEF Things
<1>6. ServerInv'
  BY <1>4, <1>5, ServerStands DEF ContactInv
<1>7. PICK k : k = [j EXCEPT !.at = "scaffold"]
  OBVIOUS
<1>8. k \in ContactJobs /\ k.at = "scaffold" /\ k.root = j.root /\ k.dir = j.dir
  BY <1>2, <1>7 DEF ContactJobs
<1>9. Repaired(k)'
  BY <1>2, <1>4, <1>8 DEF Repaired, Repairs, Own, Reach, Central, Legacy
<1>10. contactJob' = [contactJob EXCEPT !["command"] = k]
  BY <1>1, <1>7 DEF InitRegister, Go
<1> QED
  BY <1>4, <1>5, <1>6, <1>8, <1>9, <1>10, OneTask

LEMMA InitScaffoldKeeps ==
  ASSUME ContactInv, NEW shared \in BOOLEAN, InitScaffold(shared)
  PROVE  ContactInv'
<1>1. PICK p : p = contactJob["command"].root
  OBVIOUS
<1>2. p \in opted /\ p \in Projects
  <2>1. DOMAIN contactJob = {"server", "command"}
    BY DEF ContactInv, TasksInv
  <2> QED
    BY <1>1, <2>1, JobIs DEF InitScaffold
<1>3. PICK w : w = {"config"} \cup IF shared THEN {"shared"} ELSE {}
  OBVIOUS
<1>4. /\ Give(Legacy(p), w) /\ contactJob' = [contactJob EXCEPT !["command"] = NoTask]
      /\ UNCHANGED <<graph, inGlobal, opted, healed, astray, process, initThread, indexThread>>
  BY <1>1, <1>3 DEF InitScaffold, histories
<1>5. Legacy(p) \in Dirs /\ Legacy(p) \in Reach(p) /\ w \in SUBSET Things /\ "marker" \notin w
  BY <1>2, <1>3, DirectoriesDiffer DEF Reach, Own, Things
<1>6. DataInv' /\ Grows
  BY <1>2, <1>4, <1>5, TaskGives
<1>7. ServerInv'
  BY <1>4, <1>6, ServerStands DEF ContactInv
<1> QED
  BY <1>4, <1>6, <1>7, OneTask

(* A server that starts migrates the directory of the project it starts in.    *)
LEMMA RestartKeeps == ASSUME ContactInv, Restart PROVE ContactInv'
<1>1. PICK h : h = Centralised(Home)
  OBVIOUS
<1>2. /\ has' = h /\ bound' = Home /\ cache' = NoneCached /\ optCache' = {} /\ begun' = FALSE
      /\ contactJob' = [contactJob EXCEPT !["server"] = NoTask]
      /\ initThread' = NoTask /\ indexThread' = NoTask
      /\ graph' = IF h = has THEN graph
                  ELSE [graph EXCEPT ![Central(Home)] = @ \cup graph[Legacy(Home)]]
      /\ UNCHANGED <<inGlobal, opted, healed, astray>>
  BY <1>1 DEF Restart, histories
<1>3. DataInv' /\ Grows
  <2>1. CASE h = has
    BY <1>2, <2>1, DataSame DEF ContactInv
  <2>2. CASE h # has
    <3>1. /\ h \in [Dirs -> SUBSET Things] /\ Home \in opted
          /\ \A e \in Dirs \ {Central(Home)} : h[e] = has[e]
          /\ has[Central(Home)] \subseteq h[Central(Home)]
          /\ "marker" \in h[Central(Home)] => "marker" \in has[Central(Home)] \/ Home \in inGlobal
      BY <1>1, <2>2, ContactAssumption, CentralisedIs DEF ContactInv
    <3>2. graph' \in [Dirs -> SUBSET Projects] /\ \A e \in Dirs \ {Central(Home)} : graph'[e] = graph[e]
      BY <1>2, <2>2, ContactAssumption, DirectoriesDiffer DEF ContactInv, DataInv
    <3>3. opted' \subseteq Projects /\ Home \in opted' /\ Central(Home) \in Reach(Home)'
      BY <1>2, <3>1 DEF ContactInv, DataInv, Reach, Own, Central, Legacy
    <3>4. \A e \in Dirs : has[e] \ {"shared"} \subseteq has'[e]
      BY <1>2, <3>1
    <3>5. \A e \in Dirs : has'[e] # has[e] \/ graph'[e] # graph[e] => e \in Reach(Home)'
      BY <1>2, <3>1, <3>2, <3>3
    <3>6. \A e \in Dirs : "marker" \in has'[e] =>
            "marker" \in has[e] \/ (e \in Own(Home) /\ Home \in inGlobal')
      BY <1>2, <3>1 DEF Own
    <3> QED
      BY <1>2, <3>1, <3>2, <3>3, <3>4, <3>5, <3>6, DataStep DEF ContactInv
  <2> QED
    BY <2>1, <2>2
<1>4. ServerInv'
  BY <1>2, ContactAssumption DEF ServerInv, NoneCached
<1>5. TasksInv'
  BY <1>2, <1>3, TasksMove
<1> QED
  BY <1>3, <1>4, <1>5 DEF ContactInv

LEMMA InterruptKeeps == ASSUME ContactInv, Interrupt PROVE ContactInv'
<1>1. /\ contactJob' = [contactJob EXCEPT !["command"] = NoTask]
      /\ UNCHANGED <<has, graph, inGlobal, opted, healed, astray, process, initThread, indexThread>>
  BY DEF Interrupt, histories
<1>2. DataInv' /\ Grows
  BY <1>1, DataSame DEF ContactInv
<1>3. ServerInv'
  BY <1>1, <1>2, ServerStands DEF ContactInv
<1> QED
  BY <1>1, <1>2, <1>3, OneTask

LEMMA ContactStep == ASSUME ContactInv, Running, [FCNext]_fcvars PROVE ContactInv'
<1>1. ASSUME NEW p \in Projects, Call(p) \/ Command(p) \/ InitData(p) PROVE ContactInv'
  BY <1>1, CallKeeps, CommandKeeps, InitDataKeeps
<1>2. ASSUME NEW a \in DOMAIN contactJob,
             WriteConfig(a) \/ WriteMetadata(a) \/ Register(a) \/ Mark(a) \/ Decide(a)
      PROVE  ContactInv'
  BY <1>2, WriteConfigKeeps, WriteMetadataKeeps, RegisterKeeps, MarkKeeps, DecideKeeps
<1>3. CASE ThreadConfig \/ ThreadRegister \/ ThreadGraph \/ IndexResolve \/ IndexBuild
  BY <1>3, ThreadConfigKeeps, ThreadRegisterKeeps, ThreadGraphKeeps, IndexResolveKeeps, IndexBuildKeeps
<1>4. CASE InitRegister \/ \E shared \in BOOLEAN : InitScaffold(shared)
  BY <1>4, InitRegisterKeeps, InitScaffoldKeeps
<1>5. CASE Restart \/ Interrupt
  BY <1>5, RestartKeeps, InterruptKeeps
<1>6. CASE UNCHANGED fcvars
  <2>1. UNCHANGED <<has, graph, inGlobal, opted, healed, astray, process, contactJob, initThread, indexThread>>
    BY <1>6 DEF fcvars, histories
  <2>2. DataInv' /\ Grows
    BY <2>1, DataSame DEF ContactInv
  <2>3. ServerInv'
    BY <2>1, <2>2, ServerStands DEF ContactInv
  <2>4. PICK t : t = initThread
    OBVIOUS
  <2>5. PICK x : x = indexThread
    OBVIOUS
  <2> QED
    BY <2>1, <2>2, <2>3, <2>4, <2>5, OneThread
<1> QED
  BY <1>1, <1>2, <1>3, <1>4, <1>5, <1>6 DEF FCNext

LEMMA ContactInit == ASSUME FCInit PROVE ContactInv /\ Running
<1>1. /\ has = Seed /\ graph = [d \in Dirs |-> {}] /\ inGlobal = {} /\ bound = Home
      /\ cache = NoneCached /\ optCache = {} /\ begun = FALSE
      /\ contactJob = [a \in {"server", "command"} |-> NoTask]
      /\ initThread = NoTask /\ indexThread = NoTask
      /\ opted = {p \in Projects : OptedIn(p)} /\ healed = {} /\ astray = {}
  BY DEF FCInit
<1>2. DataInv
  <2>1. \A p \in Projects \ opted : has[Central(p)] = {} /\ "config" \notin has[Legacy(p)]
    BY <1>1, ContactAssumption DEF OptedIn
  <2>2. \A p \in Projects : \A d \in Own(p) : "marker" \notin has[d]
    BY <1>1, ContactAssumption, DirectoriesDiffer DEF Own
  <2>3. \A p \in Projects : graph[Central(p)] = {}
    BY <1>1, DirectoriesDiffer
  <2> QED
    BY <1>1, <2>1, <2>2, <2>3, ContactAssumption DEF DataInv
<1>3. ServerInv
  BY <1>1, ContactAssumption DEF ServerInv, NoneCached
<1>4. TasksInv /\ Running
  BY <1>1 DEF TasksInv, Running
<1> QED
  BY <1>2, <1>3, <1>4 DEF ContactInv

LEMMA ContactInvHolds == FCSpec => [](ContactInv /\ Running)
<1>1. FCInit => ContactInv /\ Running
  BY ContactInit
<1>2. ContactInv /\ Running /\ [FCNext]_fcvars => (ContactInv /\ Running)'
  BY ContactStep, RunningKeeps
<1> QED
  BY <1>1, <1>2, PTL DEF FCSpec

(* Nothing appears under ~/.codevira, nor in global.db, for a project in which   *)
(* nobody ran `codevira init`: for any number of projects, whatever is called,  *)
(* bound, restarted and interrupted, and whether they are clones or not; a graph *)
(* only where the index thread took a project that was bound meanwhile.        *)
THEOREM StaysInert == FCSpec => []InertUntilOptedIn
<1>1. ContactInv => InertUntilOptedIn
  BY DEF ContactInv, DataInv, InertUntilOptedIn
<1> QED
  BY <1>1, ContactInvHolds, PTL

(* A first contact that ran to its end left configuration, metadata and a row,  *)
(* whatever was killed before, fails or runs beside it: the marker that lets a  *)
(* later one skip the row is written after the row, and per project.           *)
THEOREM ContactsDoHeal == FCSpec => []ContactsHeal
<1>1. ContactInv => ContactsHeal
  BY DEF ContactInv, DataInv, ContactsHeal
<1> QED
  BY <1>1, ContactInvHolds, PTL

-----------------------------------------------------------------------------
(* What a prune takes.                                                        *)

(* A row of p, or one with a remote that stands for a clone of p too.          *)
Accounted(p, r) ==
  p \in DOMAIN r \/ \E q \in DOMAIN r : q \in SameRepo(p) /\ r[q] # NoRemote

RegistryInv ==
  /\ claimed \subseteq Places /\ \A p \in claimed : Accounted(p, registry)
  /\ \A s \in start : s.root \in Places
  /\ orderly \subseteq DataDirs /\ plan.dirs \cap orderly = {}

LEMMA RepositoriesAreShared ==
  ASSUME NEW p \in Places, NEW q \in SameRepo(p)
  PROVE  /\ p \in SameRepo(p) /\ q \in Places /\ p \in SameRepo(q)
         /\ \A o \in SameRepo(q) : o \in SameRepo(p)
BY DEF SameRepo

(* Of the rows with one remote, opening the database leaves one.              *)
LEMMA OpeningAccounts ==
  ASSUME NEW p \in Places, Accounted(p, registry), NEW r \in Opened
  PROVE  Accounted(p, r)
<1>1. PICK L \in SUBSET DOMAIN registry :
        /\ r = Without(registry, L)
        /\ \A q \in DOMAIN registry :
             LET alike == {o \in DOMAIN registry : o \in SameRepo(q) /\ registry[o] = registry[q]} IN
             IF registry[q] = NoRemote THEN q \notin L ELSE Cardinality(alike \ L) = 1
  BY DEF Opened
<1>2. DOMAIN r = DOMAIN registry \ L /\ \A q \in DOMAIN r : r[q] = registry[q]
  BY <1>1 DEF Without
<1>3. ASSUME NEW q \in L
      PROVE  \E o \in DOMAIN r : o \in SameRepo(q) /\ r[o] # NoRemote
  <2> DEFINE alike == {o \in DOMAIN registry : o \in SameRepo(q) /\ registry[o] = registry[q]}
  <2>1. q \in DOMAIN registry /\ registry[q] # NoRemote /\ Cardinality(alike \ L) = 1
    BY <1>1, <1>3
  <2>2. alike \ L # {}
    BY <2>1, FS_EmptySet
  <2> QED
    BY <1>2, <2>1, <2>2
<1>4. p \in SameRepo(p)
  BY DEF SameRepo
<1>5. CASE p \in DOMAIN registry
  BY <1>2, <1>3, <1>5 DEF Accounted
<1>6. ASSUME NEW q \in DOMAIN registry, q \in SameRepo(p), registry[q] # NoRemote
      PROVE  Accounted(p, r)
  <2>1. CASE q \in L
    BY <1>3, <1>6, <2>1, RepositoriesAreShared DEF Accounted
  <2>2. CASE q \notin L
    BY <1>2, <1>6, <2>2 DEF Accounted
  <2> QED
    BY <2>1, <2>2
<1> QED
  BY <1>5, <1>6 DEF Accounted

(* Registering takes no remote away.                                          *)
LEMMA RegisteringAccounts ==
  ASSUME NEW r, NEW x, NEW remote
  PROVE  /\ Accounted(x, Registered(r, x, remote))
         /\ \A p : Accounted(p, r) => Accounted(p, Registered(r, x, remote))
<1>1. DOMAIN Registered(r, x, remote) = DOMAIN r \cup {x}
      /\ \A q \in DOMAIN r : r[q] # NoRemote => Registered(r, x, remote)[q] # NoRemote
  BY DEF Registered
<1> QED
  BY <1>1 DEF Accounted

(* Rows go, and with them what a row of them may have stood for.              *)
LEMMA WithdrawingAccounts ==
  ASSUME RegistryInv, NEW S, registry' = Without(registry, S), Withdraw(S)
  PROVE  claimed' \subseteq claimed /\ \A p \in claimed' : Accounted(p, registry')
<1>1. DOMAIN registry' = DOMAIN registry \ S /\ \A q \in DOMAIN registry' : registry'[q] = registry[q]
  BY DEF Without
<1>2. ASSUME NEW p \in claimed'
      PROVE  p \in claimed /\ Accounted(p, registry')
  <2>1. p \in claimed /\ p \in Places /\ \A q \in S : p \notin SameRepo(q)
    BY <1>2 DEF RegistryInv, Withdraw
  <2>2. \A q \in SameRepo(p) : q \notin S
    BY <2>1, RepositoriesAreShared
  <2>3. p \in SameRepo(p) /\ Accounted(p, registry)
    BY <2>1 DEF SameRepo, RegistryInv
  <2> QED
    BY <1>1, <2>1, <2>2, <2>3 DEF Accounted
<1> QED
  BY <1>2

(* What is in order has a row, and its project is on disk.                    *)
LEMMA ScansSpareTheLiving ==
  ASSUME RegistryInv, ScanGhosts \/ ScanOrphans
  PROVE  RegistryInv'
<1>1. ASSUME NEW p \in Places, KeyDir(p) \in InOrder
      PROVE  p \in here /\ p \in claimed /\ origin[KeyDir(p)] = p
  BY <1>1 DEF InOrder, KeyDir
<1>2. ASSUME NEW p \in Places, KeyDir(p) \in InOrder
      PROVE  ~Sweepable(p) /\ ~(origin[KeyDir(p)] \notin here \cup {NoOrigin})
  <2>1. p \in here /\ origin[KeyDir(p)] = p /\ Accounted(p, registry) /\ p # NoOrigin
    BY <1>1, <1>2, RegistryAssumption DEF RegistryInv
  <2>2. RowsOf(p) # {}
    BY <2>1 DEF RowsOf, Accounted
  <2> QED
    BY <2>1, <2>2 DEF Sweepable, Status
<1>3. orderly' = InOrder /\ UNCHANGED <<registry, start, claimed>>
  BY DEF ScanGhosts, ScanOrphans, Scan
<1>4. \A d \in plan'.dirs : \E p \in Places : d = KeyDir(p)
        /\ (Sweepable(p) \/ origin[KeyDir(p)] \notin here \cup {NoOrigin})
  BY DEF ScanGhosts, ScanOrphans, Scan
<1>5. InOrder \subseteq DataDirs
  <2>1. claimed \subseteq Places
    BY DEF RegistryInv
  <2> QED
    BY <2>1 DEF InOrder, DataDirs
<1>6. plan'.dirs \cap orderly' = {}
  BY <1>2, <1>3, <1>4
<1> QED
  BY <1>3, <1>5, <1>6 DEF RegistryInv, Accounted, SameRepo, DataDirs, KeyDir, InRepo

LEMMA RegistryStep == ASSUME RegistryInv, [RGNext]_rgvars PROVE RegistryInv'
<1>s. ASSUME claimed' \subseteq Places, \A p \in claimed' : Accounted(p, registry'),
             \A s \in start' : s.root \in Places,
             UNCHANGED <<plan, orderly>> \/ (plan' = NoPlan /\ orderly' = {})
      PROVE  RegistryInv'
  BY <1>s DEF RegistryInv, Accounted, SameRepo, DataDirs, KeyDir, InRepo, NoPlan
<1>1. ASSUME NEW p \in Places, InitWrites(p) PROVE RegistryInv'
  BY <1>1, <1>s DEF InitWrites, RegistryInv
<1>2. ASSUME NEW p \in Places, NEW r \in Opened, NEW remote, registry' = Registered(r, p, remote),
             claimed' = claimed \cup {p}, \A s \in start' : s.root \in Places, UNCHANGED <<plan, orderly>>
      PROVE  RegistryInv'
  <2>1. \A q \in claimed' : Accounted(q, registry')
    BY <1>2, OpeningAccounts, RegisteringAccounts DEF RegistryInv
  <2> QED
    BY <1>2, <1>s, <2>1 DEF RegistryInv
<1>3. CASE InitClaims
  <2>1. PICK s \in start, r \in Opened :
          registry' = Registered(r, s.root, Remote[s.root]) /\ claimed' = claimed \cup {s.root}
    BY <1>3 DEF InitClaims
  <2>2. s.root \in Places /\ start' = {} /\ UNCHANGED <<plan, orderly>>
    BY <1>3 DEF InitClaims, RegistryInv
  <2> QED
    BY <1>2, <2>1, <2>2
<1>4. CASE InitEnds
  BY <1>4, <1>s DEF InitEnds, RegistryInv
<1>5. ASSUME NEW p \in Places, Serve(p) PROVE RegistryInv'
  <2>1. PICK r \in Opened : registry' = Registered(r, p, NoRemote)
    BY <1>5 DEF Serve
  <2> QED
    BY <1>2, <1>5, <2>1 DEF Serve, RegistryInv
<1>6. ASSUME NEW p \in Places, Contact(p) PROVE RegistryInv'
  <2>0. UNCHANGED <<start, plan, orderly>>
    BY <1>6 DEF Contact
  <2>1. CASE UNCHANGED <<registry, claimed>>
    BY <2>0, <2>1, <1>s DEF RegistryInv
  <2>2. ASSUME NEW r \in Opened, registry' \in {r, Registered(r, p, Remote[p])},
               registry' = r => p \in DOMAIN r, claimed' = claimed \cup {p}
        PROVE  RegistryInv'
    <3>1. CASE registry' = r /\ p \in DOMAIN r
      <4>1. \A q \in claimed' : Accounted(q, registry')
        BY <2>2, <3>1, OpeningAccounts DEF RegistryInv, Accounted
      <4> QED
        BY <1>s, <2>0, <2>2, <4>1 DEF RegistryInv
    <3>2. CASE registry' = Registered(r, p, Remote[p])
      BY <1>2, <2>0, <2>2, <3>2 DEF RegistryInv
    <3> QED
      BY <2>2, <3>1, <3>2
  <2>3. CASE claimed' = claimed \cup {p} /\ \E r \in Opened :
               registry' = IF "graph" \in dir[DirOf(p)] /\ p \in DOMAIN r THEN r ELSE Registered(r, p, Remote[p])
    <3>1. PICK r \in Opened :
            registry' = IF "graph" \in dir[DirOf(p)] /\ p \in DOMAIN r THEN r ELSE Registered(r, p, Remote[p])
      BY <2>3
    <3>2. CASE p \in DOMAIN r
      BY <2>2, <2>3, <3>1, <3>2
    <3>3. CASE p \notin DOMAIN r
      BY <1>2, <2>0, <2>3, <3>1, <3>3 DEF RegistryInv
    <3> QED
      BY <3>2, <3>3
  <2> QED
    BY <1>6, <2>1, <2>3 DEF Contact
<1>7. ASSUME NEW p \in Places, Leave(p) \/ Return(p) \/ Untrack(p) \/ Reset(p) PROVE RegistryInv'
  BY <1>7, <1>s DEF Leave, Return, Untrack, Reset, RegistryInv
<1>8. ASSUME NEW p \in Places, ArchiveRow(p) PROVE RegistryInv'
  <2>1. claimed' \subseteq claimed /\ \A q \in claimed' : Accounted(q, registry')
    BY <1>8, WithdrawingAccounts DEF ArchiveRow
  <2> QED
    BY <1>8, <1>s, <2>1 DEF ArchiveRow, RegistryInv
<1>9. CASE RemovePlanned
  <2>1. claimed' \subseteq claimed /\ \A q \in claimed' : Accounted(q, registry')
    BY <1>9, WithdrawingAccounts DEF RemovePlanned
  <2> QED
    BY <1>9, <1>s, <2>1 DEF RemovePlanned, RegistryInv
<1>10. CASE Decline \/ UNCHANGED rgvars
  BY <1>10, <1>s DEF Decline, rgvars, RegistryInv
<1> QED
  BY <1>1, <1>3, <1>4, <1>5, <1>6, <1>7, <1>8, <1>9, <1>10, ScansSpareTheLiving DEF RGNext

LEMMA RegistryInit == ASSUME RGInit PROVE RegistryInv
BY DEF RGInit, RegistryInv, NoPlan

(* For any number of projects and clones, whatever is registered, archived,    *)
(* untracked, moved and put back between its scan and its removals: prune takes *)
(* no directory that was in good order when it looked.                        *)
THEOREM PrunesSpareTheLiving == RGSpec => PrunesOnlyTheDead
<1>1. RGInit => RegistryInv
  BY RegistryInit
<1>2. RegistryInv /\ [RGNext]_rgvars => RegistryInv'
  BY RegistryStep
<1>3. ASSUME RegistryInv, [RGNext]_rgvars
      PROVE  [PrunesOnlyTheDeadStep]_rgvars
  <2>1. CASE RemovePlanned
    <3>1. PICK S \in SUBSET plan.dirs : dir' = Emptied(dir, S)
      BY <2>1 DEF RemovePlanned
    <3>2. \A d \in orderly : d \in DataDirs /\ d \notin S
      BY <1>3 DEF RegistryInv
    <3>3. \A d \in orderly : dir'[d] = dir[d]
      BY <3>1, <3>2 DEF Emptied
    <3> QED
      BY <3>3 DEF PrunesOnlyTheDeadStep
  <2>2. CASE Decline
    BY <2>2 DEF Decline, onDisk, PrunesOnlyTheDeadStep
  <2>3. CASE UNCHANGED plan \/ plan = NoPlan
    BY <2>3 DEF PrunesOnlyTheDeadStep
  <2>4. ASSUME NEW p \in Places, InitWrites(p) \/ Serve(p) \/ Contact(p) \/ Leave(p) \/ Return(p)
                                 \/ ArchiveRow(p) \/ Untrack(p) \/ Reset(p)
        PROVE  UNCHANGED plan
    BY <2>4 DEF InitWrites, Serve, Contact, Leave, Return, ArchiveRow, Untrack, Reset
  <2>5. ASSUME InitClaims \/ InitEnds
        PROVE  UNCHANGED plan
    BY <2>5 DEF InitClaims, InitEnds
  <2>6. ASSUME ScanGhosts \/ ScanOrphans
        PROVE  plan = NoPlan
    BY <2>6 DEF ScanGhosts, ScanOrphans, Scan
  <2> QED
    BY <1>3, <2>1, <2>2, <2>3, <2>4, <2>5, <2>6 DEF RGNext
<1> QED
  BY <1>1, <1>2, <1>3, PTL DEF RGSpec, PrunesOnlyTheDead

-----------------------------------------------------------------------------
(* Hooks and their scripts.                                                   *)

(* Flattening sequences over a set gives a sequence over it: by the least      *)
(* length without a recursive function, and the least prefix of another type. *)
LEMMA FlattenedIs ==
  ASSUME NEW S, NEW s \in Seq(Seq(S))
  PROVE  FlattenSeq(s) \in Seq(S)
<1> DEFINE Body(g, m) == [i \in 1 .. m |-> IF i = 1 THEN s[i] ELSE g[i - 1] \o s[i]]
           Lacking == {m \in Nat : ~\E g : g = Body(g, m)}
<1>1. Lacking = {}
  <2> SUFFICES ASSUME Lacking # {} PROVE FALSE
    OBVIOUS
  <2>1. PICK m \in Lacking : \A k \in Lacking : m <= k
    <3> HIDE DEF Lacking
    <3>1. Lacking \in SUBSET Nat
      BY DEF Lacking
    <3> QED
      BY <3>1, LeastOf
  <2>2. m \in Nat /\ ~\E g : g = Body(g, m)
    OBVIOUS
  <2>3. m # 0
    <3>1. Body(s, 0) = Body(Body(s, 0), 0)
      OBVIOUS
    <3> QED
      BY <2>2, <3>1
  <2>4. m - 1 \in Nat /\ m - 1 \notin Lacking
    <3> HIDE DEF Lacking
    <3> QED
      BY <2>1, <2>2, <2>3
  <2>5. PICK g : g = Body(g, m - 1)
    BY <2>4
  <2> DEFINE h == [i \in 1 .. m |-> IF i <= m - 1 THEN g[i] ELSE IF i = 1 THEN s[i] ELSE g[i - 1] \o s[i]]
  <2>6. \A i \in 1 .. m - 1 : g[i] = IF i = 1 THEN s[i] ELSE g[i - 1] \o s[i]
    BY <2>5
  <2>7. \A i \in 1 .. m : h[i] = IF i = 1 THEN s[i] ELSE h[i - 1] \o s[i]
    <3> SUFFICES ASSUME NEW i \in 1 .. m PROVE h[i] = IF i = 1 THEN s[i] ELSE h[i - 1] \o s[i]
      OBVIOUS
    <3>1. i # 1 => i - 1 \in 1 .. m /\ i - 1 <= m - 1
      BY <2>2
    <3>2. i # 1 => h[i - 1] = g[i - 1]
      BY <3>1
    <3>3. CASE i <= m - 1
      BY <2>2, <2>6, <3>2, <3>3
    <3>4. CASE ~(i <= m - 1)
      BY <3>2, <3>4
    <3> QED
      BY <3>3, <3>4
  <2>8. h = Body(h, m)
    <3>1. h = [i \in 1 .. m |-> h[i]]
      OBVIOUS
    <3> HIDE DEF h
    <3> QED
      BY <2>7, <3>1
  <2> QED
    BY <2>2, <2>8
<1>2. Len(s) \in Nat /\ \A i \in 1 .. Len(s) : s[i] \in Seq(S)
  OBVIOUS
<1>3. CASE Len(s) = 0
  <2>1. s = <<>>
    BY <1>3
  <2> QED
    BY <1>3, <2>1 DEF FlattenSeq
<1>4. CASE Len(s) # 0
  <2> DEFINE f == CHOOSE g : g = Body(g, Len(s))
             Astray == {i \in 1 .. Len(s) : f[i] \notin Seq(S)}
  <2>1. f = Body(f, Len(s))
    BY <1>1, <1>2
  <2>2. \A i \in 1 .. Len(s) : f[i] = IF i = 1 THEN s[i] ELSE f[i - 1] \o s[i]
    <3> HIDE DEF f
    <3> QED
      BY <2>1
  <2>3. Astray = {}
    <3> SUFFICES ASSUME Astray # {} PROVE FALSE
      OBVIOUS
    <3> HIDE DEF f
    <3>1. PICK i \in Astray : \A k \in Astray : i <= k
      <4>1. Astray \in SUBSET Nat
        OBVIOUS
      <4> HIDE DEF Astray
      <4> QED
        BY <4>1, LeastOf
    <3>2. i \in 1 .. Len(s) /\ f[i] \notin Seq(S)
      OBVIOUS
    <3>3. CASE i = 1
      BY <1>2, <2>2, <3>2, <3>3
    <3>4. CASE i # 1
      <4>1. i - 1 \in 1 .. Len(s) /\ ~(i <= i - 1)
        BY <1>2, <3>2, <3>4
      <4>2. i - 1 \notin Astray
        <5> HIDE DEF Astray
        <5> QED
          BY <3>1, <4>1
      <4>3. f[i - 1] \in Seq(S)
        BY <4>1, <4>2
      <4>4. f[i - 1] \o s[i] \in Seq(S)
        BY <1>2, <3>2, <4>3, ConcatProperties
      <4> QED
        BY <2>2, <3>2, <3>4, <4>4
    <3> QED
      BY <3>3, <3>4
  <2>4. f[Len(s)] \in Seq(S)
    <3> HIDE DEF f
    <3> QED
      <4>1. Len(s) \in 1 .. Len(s)
        BY <1>2, <1>4
      <4> QED
        BY <2>3, <4>1
  <2>5. FlattenSeq(s) = f[Len(s)]
    BY <1>4 DEF FlattenSeq
  <2> QED
    BY <2>4, <2>5
<1> QED
  BY <1>3, <1>4

(* A finite set in sequence: of its elements, and all of them.                *)
LEMMA ListedIs ==
  ASSUME NEW S, IsFiniteSet(S)
  PROVE  /\ SetToSeq(S) \in Seq(S) /\ SetToSeq(S) \in [1 .. Cardinality(S) -> S]
         /\ Cardinality(S) \in Nat
         /\ \A x \in S : Contains(SetToSeq(S), x)
<1> DEFINE n == Cardinality(S)
           list == SetToSeq(S)
<1>1. n \in Nat
  BY FS_CardinalityType
<1>2. \E q \in [1 .. n -> S] : IsInjective(q)
  <2>1. PICK q \in Bijection(1 .. n, S) : TRUE
    BY FS_CardinalityType DEF ExistsBijection
  <2> QED
    BY <2>1 DEF Bijection, Injection, IsInjective
<1>3. list \in [1 .. n -> S] /\ IsInjective(list)
  BY <1>2 DEF SetToSeq
<1> HIDE DEF n, list
<1>4. \A x \in S : \E i \in 1 .. n : list[i] = x
  <2>1. list \in Injection(1 .. n, S)
    BY <1>3 DEF Injection, IsInjective
  <2>2. Cardinality(1 .. n) = Cardinality(S)
    BY <1>1, FS_Interval DEF n
  <2>3. list \in Surjection(1 .. n, S)
    BY <2>1, <2>2, FS_Injection
  <2> QED
    BY <2>3 DEF Surjection
<1>5. list \in Seq(S) /\ Len(list) = n
  BY <1>1, <1>3
<1>6. \A x \in S : Contains(list, x)
  BY <1>4, <1>5 DEF Contains
<1> QED
  BY <1>1, <1>3, <1>5, <1>6 DEF n, list

(* The steps that a command may plan.                                         *)
Writing == {Step("script", e) : e \in Events}
Taking == {Step("unscript", e) : e \in Events} \cup {Step("unregister", Events)}
Removals == {Step("remove", <<p, part>>) : p \in Sites, part \in Parts}
Clearing == {Step("remove-home", 0), Step("claude", FALSE)} \cup Removals
Additions == {Step("add", <<p, part>>) : p \in Sites, part \in Parts}
Founding == ({Step("claude", TRUE)} \cup {Step("track", p) : p \in Sites}) \cup Additions

Commands == {"none", "init", "setup", "hooks", "unhook", "uninstall", "forget"}
Removers == {"unhook", "uninstall", "forget"}
StepsOf(c) ==
  CASE c = "none" -> {}
    [] c = "init" -> Founding
    [] c = "setup" -> Founding \cup Writing \cup {Step("register", Events)}
    [] c = "hooks" -> Writing
    [] c \in Removers -> Taking \cup Clearing

LEMMA StepsAre ==
  /\ StepsOf("none") = {} /\ StepsOf("init") = Founding /\ StepsOf("hooks") = Writing
  /\ StepsOf("setup") = (Founding \cup Writing) \cup {Step("register", Events)}
  /\ \A c \in Removers : StepsOf(c) = Taking \cup Clearing
<1> HIDE DEF Founding, Writing, Taking, Clearing
<1> QED
  BY DEF StepsOf, Removers

InstallTypes ==
  /\ tracked \subseteq Sites /\ scripts \subseteq Events /\ registered \subseteq Events
  /\ cmd \in Commands /\ todo \in Seq(StepsOf(cmd))

(* A setup without failure has every script or still plans for it, a removal   *)
(* without failure has no registration or still plans to take them; so both     *)
(* leave things in order however they found them.                            *)
InstallInv ==
  /\ InstallTypes
  /\ failed /\ cmd # "none" => hitch
  /\ cmd = "setup" /\ ~failed => \A e \in Events : e \in scripts \/ Contains(todo, Step("script", e))
  /\ cmd \in Removers /\ ~failed => registered = {} \/ Contains(todo, Step("unregister", Events))
  /\ cmd \in {"none", "init", "hooks"} /\ ~hitch => registered \subseteq scripts

LEMMA OneOrNone ==
  ASSUME NEW S, NEW x \in S, NEW P
  PROVE  /\ (IF P THEN <<x>> ELSE <<>>) \in Seq(S) /\ <<x>> \in Seq(S)
         /\ Contains(<<x>>, x)
BY DEF Contains

LEMMA JoinedIs ==
  ASSUME NEW S, NEW s \in Seq(S), NEW t \in Seq(S)
  PROVE  /\ s \o t \in Seq(S)
         /\ \A x : Contains(s, x) \/ Contains(t, x) => Contains(s \o t, x)
<1>1. /\ s \o t \in Seq(S) /\ Len(s \o t) = Len(s) + Len(t)
      /\ \A i \in 1 .. Len(s) + Len(t) : (s \o t)[i] = IF i <= Len(s) THEN s[i] ELSE t[i - Len(s)]
  BY ConcatProperties
<1>2. Len(s) \in Nat /\ Len(t) \in Nat
  BY LenProperties
<1>3. ASSUME NEW i \in 1 .. Len(s)
      PROVE  i \in 1 .. Len(s \o t) /\ (s \o t)[i] = s[i]
  BY <1>1, <1>2
<1>4. ASSUME NEW i \in 1 .. Len(t)
      PROVE  i + Len(s) \in 1 .. Len(s \o t) /\ (s \o t)[i + Len(s)] = t[i]
  BY <1>1, <1>2
<1> QED
  BY <1>1, <1>3, <1>4 DEF Contains

LEMMA StepsListed ==
  ASSUME NEW op, NEW E \in SUBSET Events, NEW S, \A e \in E : Step(op, e) \in S
  PROVE  /\ AllSteps(op, E) \in Seq(S)
         /\ \A e \in E : Contains(AllSteps(op, E), Step(op, e))
<1> DEFINE steps == {Step(op, e) : e \in E}
<1>1. IsFiniteSet(E)
  BY InstallAssumption, FS_Subset
<1>2. IsFiniteSet(steps)
  <2> DEFINE f == [e \in E |-> Step(op, e)]
  <2>1. f \in Surjection(E, steps)
    BY DEF Surjection
  <2> QED
    BY <1>1, <2>1, FS_Surjection
<1>3. steps \subseteq S
  OBVIOUS
<1>4. SetToSeq(steps) \in Seq(steps) /\ \A x \in steps : Contains(SetToSeq(steps), x)
  <2> HIDE DEF steps
  <2> QED
    BY <1>2, ListedIs
<1>5. AllSteps(op, E) = SetToSeq(steps)
  BY DEF AllSteps
<1>6. SetToSeq(steps) \in Seq(S)
  <2> HIDE DEF steps
  <2> QED
    BY <1>3, <1>4, SeqMonotonic
<1>7. \A e \in E : Step(op, e) \in steps
  OBVIOUS
<1> HIDE DEF steps
<1> QED
  BY <1>4, <1>5, <1>6, <1>7

LEMMA SetupIs ==
  SetupPlan \in Seq(StepsOf("setup")) /\ \A e \in Events : Contains(SetupPlan, Step("script", e))
<1> DEFINE S == StepsOf("setup")
           first == <<Step("claude", TRUE)>>
           written == AllSteps("script", Events)
           final == <<Step("register", Events)>>
<1>1. /\ Step("claude", TRUE) \in S /\ Step("register", Events) \in S
      /\ \A e \in Events : Step("script", e) \in S
  <2>1. S = (Founding \cup Writing) \cup {Step("register", Events)}
    BY StepsAre
  <2>2. Step("claude", TRUE) \in Founding /\ \A e \in Events : Step("script", e) \in Writing
    BY DEF Founding, Writing
  <2> HIDE DEF S
  <2> QED
    BY <2>1, <2>2
<1>2. SetupPlan = (first \o written) \o final
  BY DEF SetupPlan
<1> HIDE DEF S
<1>3. /\ first \in Seq(S) /\ final \in Seq(S) /\ written \in Seq(S)
      /\ \A e \in Events : Contains(written, Step("script", e))
  BY <1>1, OneOrNone, StepsListed
<1> HIDE DEF first, written, final
<1>4. first \o written \in Seq(S) /\ \A e \in Events : Contains(first \o written, Step("script", e))
  BY <1>3, JoinedIs
<1> QED
  BY <1>2, <1>3, <1>4, JoinedIs DEF S

LEMMA RefreshIs == AllSteps("script", Events) \in Seq(StepsOf("hooks"))
<1>1. \A e \in Events : Step("script", e) \in StepsOf("hooks")
  BY StepsAre DEF Writing
<1> QED
  BY <1>1, StepsListed

(* What takes the hooks away: the scripts, then the registrations there are.   *)
LEMMA RemovalIs ==
  ASSUME InstallTypes, NEW c \in Removers
  PROVE  LET taken == IF registered = {} THEN <<>> ELSE <<Step("unregister", Events)>> IN
         /\ AllSteps("unscript", scripts) \in Seq(StepsOf(c)) /\ taken \in Seq(StepsOf(c))
         /\ registered = {} \/ Contains(taken, Step("unregister", Events))
<1> DEFINE S == StepsOf(c)
<1>1. S = Taking \cup Clearing
  BY StepsAre
<1>2. \A e \in scripts : Step("unscript", e) \in S
  BY <1>1 DEF Taking, InstallTypes
<1>3. Step("unregister", Events) \in S
  BY <1>1 DEF Taking
<1> HIDE DEF S
<1>4. AllSteps("unscript", scripts) \in Seq(S)
  BY <1>2, StepsListed DEF InstallTypes
<1>5. /\ <<>> \in Seq(S) /\ <<Step("unregister", Events)>> \in Seq(S)
      /\ Contains(<<Step("unregister", Events)>>, Step("unregister", Events))
  BY <1>3, OneOrNone
<1> QED
  BY <1>4, <1>5 DEF S

LEMMA UnhookIs ==
  ASSUME InstallTypes, HooksUninstall
  PROVE  /\ todo' \in Seq(StepsOf("unhook"))
         /\ registered = {} \/ Contains(todo', Step("unregister", Events))
<1> DEFINE unscripted == AllSteps("unscript", scripts)
           taken == IF registered = {} THEN <<>> ELSE <<Step("unregister", Events)>>
<1>1. todo' = unscripted \o taken
  BY DEF HooksUninstall, Run
<1>2. /\ unscripted \in Seq(StepsOf("unhook")) /\ taken \in Seq(StepsOf("unhook"))
      /\ registered = {} \/ Contains(taken, Step("unregister", Events))
  BY RemovalIs DEF Removers
<1> HIDE DEF unscripted, taken
<1> QED
  BY <1>1, <1>2, JoinedIs

LEMMA InProjectIs ==
  ASSUME NEW p \in Sites
  PROVE  InProject(p) \in Seq(Clearing)
<1> DEFINE Found(part) == IF part \in parts[p] THEN <<Step("remove", <<p, part>>)>> ELSE <<>>
<1>1. \A part \in Parts : Step("remove", <<p, part>>) \in Clearing
  <2>1. \A part \in Parts : Step("remove", <<p, part>>) \in Removals
    BY DEF Removals
  <2> HIDE DEF Found
  <2> QED
    BY <2>1 DEF Clearing
<1>2. \A part \in Parts : Found(part) \in Seq(Clearing)
  BY <1>1, OneOrNone
<1>3. /\ Found("store") \in Seq(Clearing) /\ Found("cache") \in Seq(Clearing)
      /\ Found("block") \in Seq(Clearing) /\ Found("nudge") \in Seq(Clearing)
  <2> HIDE DEF Found
  <2> QED
    BY <1>2 DEF Parts
<1>4. InProject(p) = ((Found("store") \o Found("cache")) \o Found("block")) \o Found("nudge")
  BY DEF InProject
<1> HIDE DEF Found
<1> QED
  BY <1>3, <1>4, JoinedIs

LEMMA UninstallIs ==
  ASSUME InstallTypes, NEW keepData \in BOOLEAN, NEW c \in {"uninstall", "forget"}
  PROVE  /\ UninstallPlan(keepData) \in Seq(StepsOf(c))
         /\ registered = {} \/ Contains(UninstallPlan(keepData), Step("unregister", Events))
<1> DEFINE S == StepsOf(c)
           first == IF home /\ ~keepData THEN <<Step("remove-home", 0)>> ELSE <<>>
           second == IF claude THEN <<Step("claude", FALSE)>> ELSE <<>>
           third == AllSteps("unscript", scripts)
           fourth == IF registered = {} THEN <<>> ELSE <<Step("unregister", Events)>>
           each == [i \in 1 .. Cardinality(tracked) |-> InProject(SetToSeq(tracked)[i])]
           final == IF keepData \/ ~home THEN <<>> ELSE FlattenSeq(each)
<1>1. S = Taking \cup Clearing
  BY StepsAre DEF Removers
<1>2. first \in Seq(S) /\ second \in Seq(S) /\ <<>> \in Seq(S)
  <2>1. Step("remove-home", 0) \in S /\ Step("claude", FALSE) \in S
    BY <1>1 DEF Clearing
  <2> HIDE DEF S
  <2> QED
    BY <2>1, OneOrNone
<1>3. /\ third \in Seq(S) /\ fourth \in Seq(S)
      /\ registered = {} \/ Contains(fourth, Step("unregister", Events))
  BY RemovalIs DEF Removers
<1>4. final \in Seq(S)
  <2>1. IsFiniteSet(tracked) /\ tracked \subseteq Sites
    BY InstallAssumption, FS_Subset DEF InstallTypes
  <2>2. Cardinality(tracked) \in Nat /\ SetToSeq(tracked) \in [1 .. Cardinality(tracked) -> tracked]
    BY <2>1, ListedIs
  <2>3. \A i \in 1 .. Cardinality(tracked) : InProject(SetToSeq(tracked)[i]) \in Seq(Clearing)
    BY <2>1, <2>2, InProjectIs
  <2>4. each \in Seq(Seq(Clearing))
    BY <2>2, <2>3
  <2> HIDE DEF each, S
  <2>5. FlattenSeq(each) \in Seq(Clearing)
    BY <2>4, FlattenedIs
  <2>6. FlattenSeq(each) \in Seq(S)
    BY <1>1, <2>5, SeqMonotonic
  <2> QED
    BY <1>2, <2>6
<1>5. UninstallPlan(keepData) = (((first \o second) \o third) \o fourth) \o final
  BY DEF UninstallPlan
<1> HIDE DEF S, first, second, third, fourth, final
<1>6. (first \o second) \o third \in Seq(S)
  BY <1>2, <1>3, JoinedIs
<1>7. /\ ((first \o second) \o third) \o fourth \in Seq(S)
      /\ \/ registered = {}
         \/ Contains(((first \o second) \o third) \o fourth, Step("unregister", Events))
  BY <1>3, <1>6, JoinedIs
<1> DEFINE hooks == ((first \o second) \o third) \o fourth
<1>8. hooks \in Seq(S) /\ (registered = {} \/ Contains(hooks, Step("unregister", Events)))
  BY <1>7
<1>9. UninstallPlan(keepData) = hooks \o final
  BY <1>5
<1> HIDE DEF hooks
<1>10. /\ hooks \o final \in Seq(S)
       /\ registered = {} \/ Contains(hooks \o final, Step("unregister", Events))
  BY <1>4, <1>8, JoinedIs
<1> QED
  BY <1>9, <1>10 DEF S

LEMMA RunKeeps ==
  ASSUME InstallInv, NEW work, NEW c \in Commands \ {"none"}, Run(c, work),
         work \in Seq(StepsOf(c)),
         c = "setup" => \A e \in Events : Contains(work, Step("script", e)),
         c \in Removers => registered = {} \/ Contains(work, Step("unregister", Events))
  PROVE  InstallInv'
<1>1. /\ cmd' = c /\ todo' = work /\ ~failed' /\ cmd = "none"
      /\ UNCHANGED <<tracked, scripts, registered, hitch>>
  BY DEF Run, machine
<1>2. InstallTypes'
  <2>1. StepsOf(cmd)' = StepsOf(cmd')
    BY DEF StepsOf, Founding, Writing, Taking, Clearing, Removals, Additions,
                Removers, Parts
  <2> QED
    BY <1>1, <2>1 DEF InstallInv, InstallTypes
<1> QED
  BY <1>1, <1>2 DEF InstallInv

LEMMA HeadAndTail ==
  ASSUME NEW S, NEW s \in Seq(S), s # <<>>
  PROVE  /\ Head(s) \in S /\ Tail(s) \in Seq(S)
         /\ \A x : Contains(s, x) => x = Head(s) \/ Contains(Tail(s), x)
<1>1. /\ Head(s) \in S /\ Tail(s) \in Seq(S) /\ Len(Tail(s)) = Len(s) - 1
      /\ \A i \in 1 .. Len(Tail(s)) : Tail(s)[i] = s[i + 1]
      /\ Head(s) = s[1] /\ Len(s) \in Nat
  BY HeadTailProperties, LenProperties
<1>2. ASSUME NEW i \in 1 .. Len(s), i # 1
      PROVE  i - 1 \in 1 .. Len(Tail(s)) /\ Tail(s)[i - 1] = s[i]
  BY <1>1, <1>2
<1> QED
  BY <1>1, <1>2 DEF Contains

(* What a step that succeeds does to the hooks.                               *)
LEMMA DoneIs ==
  ASSUME InstallTypes, NEW s, Done(s)
  PROVE  /\ s \in Founding => UNCHANGED <<scripts, registered>> /\ tracked' \subseteq Sites
         /\ s \in Taking \cup Clearing =>
              /\ scripts' \subseteq scripts /\ registered' \subseteq registered
              /\ tracked' \subseteq tracked
         /\ s = Step("unregister", Events) => registered' = {}
         /\ s = Step("register", Events) =>
              registered' = Events /\ UNCHANGED <<scripts, tracked>>
         /\ \A e \in Events : s = Step("script", e) =>
              scripts' = scripts \cup {e} /\ UNCHANGED <<registered, tracked>>
<1> USE DEF Done, Step
<1>1. ASSUME s \in Founding
      PROVE  UNCHANGED <<scripts, registered>> /\ tracked' \subseteq Sites
  BY <1>1 DEF Founding, Additions, InstallTypes
<1>2. ASSUME s \in Taking
      PROVE  /\ scripts' \subseteq scripts /\ registered' \subseteq registered
             /\ tracked' \subseteq tracked
  BY <1>2 DEF Taking
<1>3. ASSUME s \in Clearing
      PROVE  /\ scripts' \subseteq scripts /\ registered' \subseteq registered
             /\ tracked' \subseteq tracked
  BY <1>3 DEF Clearing, Removals
<1>4. s = Step("unregister", Events) => registered' = {}
  BY DEF InstallTypes
<1>5. s = Step("register", Events) => registered' = Events /\ UNCHANGED <<scripts, tracked>>
  BY DEF InstallTypes
<1>6. ASSUME NEW e \in Events, s = Step("script", e)
      PROVE  scripts' = scripts \cup {e} /\ UNCHANGED <<registered, tracked>>
  BY <1>6
<1> QED
  BY <1>1, <1>2, <1>3, <1>4, <1>5, <1>6

LEMMA ProceedKeeps == ASSUME InstallInv, Proceed PROVE InstallInv'
<1> DEFINE s == Head(todo)
<1>1. UNCHANGED cmd /\ todo # <<>> /\ todo' = Tail(todo)
  BY DEF Proceed
<1>2. /\ s \in StepsOf(cmd) /\ todo' \in Seq(StepsOf(cmd))
      /\ \A x : Contains(todo, x) => x = s \/ Contains(todo', x)
  BY <1>1, HeadAndTail DEF InstallInv, InstallTypes
<1>3. StepsOf(cmd)' = StepsOf(cmd)
  BY <1>1 DEF StepsOf, Founding, Writing, Taking, Clearing, Removals, Additions,
                Removers, Parts
<1>4. cmd \in Commands \ {"none"}
  BY <1>2, StepsAre DEF InstallInv, InstallTypes
<1>5. CASE failed' /\ hitch' /\ UNCHANGED <<tracked, scripts, registered>>
  BY <1>1, <1>2, <1>3, <1>5 DEF InstallInv, InstallTypes
<1>6. CASE Done(s) /\ UNCHANGED <<failed, hitch>>
  <2>1. /\ s \in Founding => UNCHANGED <<scripts, registered>> /\ tracked' \subseteq Sites
        /\ s \in Taking \cup Clearing =>
             /\ scripts' \subseteq scripts /\ registered' \subseteq registered
             /\ tracked' \subseteq tracked
        /\ s = Step("unregister", Events) => registered' = {}
        /\ s = Step("register", Events) =>
             registered' = Events /\ UNCHANGED <<scripts, tracked>>
        /\ \A e \in Events : s = Step("script", e) =>
             scripts' = scripts \cup {e} /\ UNCHANGED <<registered, tracked>>
    BY <1>6, DoneIs DEF InstallInv
  <2> HIDE DEF s
  <2>2. s \in Writing => \E e \in Events : s = Step("script", e)
    BY DEF Writing
  <2>3. tracked \subseteq Sites /\ scripts \subseteq Events /\ registered \subseteq Events
    BY DEF InstallInv, InstallTypes
  <2>4. CASE cmd = "setup"
    <3>1. s \in Founding \/ s \in Writing \/ s = Step("register", Events)
      BY <1>2, <2>4, StepsAre
    <3>2. InstallTypes'
      BY <1>1, <1>2, <1>3, <1>4, <2>1, <2>2, <2>3, <3>1 DEF InstallTypes
    <3>3. scripts \subseteq scripts'
      BY <2>1, <2>2, <3>1
    <3>4. ASSUME ~failed, NEW e \in Events
          PROVE  e \in scripts' \/ Contains(todo', Step("script", e))
      <4>1. e \in scripts \/ Contains(todo, Step("script", e))
        BY <2>4, <3>4 DEF InstallInv
      <4> QED
        BY <1>2, <2>1, <3>3, <4>1
    <3> QED
      BY <1>1, <1>6, <2>4, <3>2, <3>4 DEF InstallInv, Removers
  <2>5. CASE cmd \in Removers
    <3>1. s \in Taking \cup Clearing
      BY <1>2, <2>5, StepsAre
    <3>2. InstallTypes'
      BY <1>1, <1>2, <1>3, <1>4, <2>1, <2>3, <3>1 DEF InstallTypes
    <3>3. ~failed => registered' = {} \/ Contains(todo', Step("unregister", Events))
      <4>1. ~failed => registered = {} \/ Contains(todo, Step("unregister", Events))
        BY <2>5 DEF InstallInv
      <4> QED
        BY <1>2, <2>1, <3>1, <4>1
    <3> QED
      BY <1>1, <1>6, <2>5, <3>2, <3>3 DEF InstallInv, Removers
  <2>6. CASE cmd \in {"init", "hooks"}
    <3>1. s \in Founding \/ s \in Writing
      BY <1>2, <2>6, StepsAre
    <3>2. InstallTypes'
      BY <1>1, <1>2, <1>3, <1>4, <2>1, <2>2, <2>3, <3>1 DEF InstallTypes
    <3>3. scripts \subseteq scripts' /\ registered' = registered
      BY <2>1, <2>2, <3>1
    <3> QED
      BY <1>1, <1>6, <2>6, <3>2, <3>3 DEF InstallInv, Removers
  <2> QED
    BY <1>4, <2>4, <2>5, <2>6 DEF Commands, Removers
<1> QED
  BY <1>5, <1>6 DEF Proceed, machine

LEMMA EndKeepsHooks == ASSUME InstallInv, End PROVE InstallInv'
<1>1. /\ cmd # "none" /\ todo = <<>> /\ cmd' = "none"
      /\ hitch' = (hitch /\ (failed \/ cmd \notin {"setup", "unhook"}))
      /\ UNCHANGED <<tracked, scripts, registered, todo, failed>>
  BY DEF End, machine
<1>2. \A x : ~Contains(todo, x)
  BY <1>1 DEF Contains
<1>3. InstallTypes'
  BY <1>1 DEF InstallInv, InstallTypes, Commands
<1>4. failed => hitch'
  BY <1>1 DEF InstallInv
<1>5. ASSUME ~failed, ~hitch'
      PROVE  registered \subseteq scripts
  <2>1. CASE cmd = "setup"
    BY <1>2, <1>5, <2>1 DEF InstallInv, InstallTypes
  <2>2. CASE cmd \in Removers
    BY <1>2, <1>5, <2>2 DEF InstallInv
  <2>3. CASE cmd \in {"init", "hooks"}
    BY <1>1, <1>5, <2>3 DEF InstallInv
  <2> QED
    BY <1>1, <2>1, <2>2, <2>3 DEF InstallInv, InstallTypes, Commands, Removers
<1> QED
  BY <1>1, <1>3, <1>4, <1>5 DEF InstallInv, Removers

LEMMA DieKeepsHooks == ASSUME InstallInv, Die PROVE InstallInv'
<1>1. cmd' = "none" /\ todo' = <<>> /\ hitch' /\ UNCHANGED <<tracked, scripts, registered>>
  BY DEF Die, machine
<1>2. InstallTypes'
  BY <1>1 DEF InstallInv, InstallTypes, Commands
<1> QED
  BY <1>1, <1>2 DEF InstallInv, Removers

LEMMA InstallStep == ASSUME InstallInv, [NNext]_nvars PROVE InstallInv'
<1>1. CASE InitProject
  <2> DEFINE work(p) == <<Step("add", <<p, "store">>), Step("claude", TRUE),
                         Step("track", p), Step("add", <<p, "block">>),
                         Step("add", <<p, "cache">>)>>
  <2>1. PICK p \in Sites : Run("init", work(p))
    BY <1>1 DEF InitProject
  <2>2. \A part \in Parts : Step("add", <<p, part>>) \in Additions
    BY DEF Additions
  <2>3. /\ Step("add", <<p, "store">>) \in Additions /\ Step("add", <<p, "block">>) \in Additions
        /\ Step("add", <<p, "cache">>) \in Additions
    BY <2>2 DEF Parts
  <2>4. Step("claude", TRUE) \in Founding /\ Step("track", p) \in Founding
        /\ Additions \subseteq Founding
    BY DEF Founding
  <2>5. \A v, w, x, y, z \in Founding : <<v, w, x, y, z>> \in Seq(Founding)
    <3> HIDE DEF Founding
    <3> QED
      OBVIOUS
  <2>6. work(p) \in Seq(Founding)
    <3> HIDE DEF Founding
    <3> QED
      BY <2>3, <2>4, <2>5
  <2> HIDE DEF work
  <2>7. work(p) \in Seq(StepsOf("init")) /\ "init" \in Commands \ {"none"} /\ "init" \notin Removers
    BY <2>6, StepsAre DEF Commands, Removers
  <2> QED
    BY <2>1, <2>7, RunKeeps
<1>2. CASE Setup
  BY <1>2, SetupIs, RunKeeps DEF Setup, Commands, Removers
<1>3. CASE HooksInstall
  BY <1>3, RefreshIs, RunKeeps DEF HooksInstall, Commands, Removers
<1>4. CASE HooksUninstall
  <2>1. Run("unhook", todo')
    BY <1>4 DEF HooksUninstall, Run
  <2> QED
    BY <1>4, <2>1, UnhookIs, RunKeeps DEF InstallInv, Commands, Removers
<1>5. ASSUME NEW keepData \in BOOLEAN, Uninstall(keepData)
      PROVE  InstallInv'
  <2>1. PICK c \in {"uninstall", "forget"} : Run(c, UninstallPlan(keepData))
    BY <1>5 DEF Uninstall
  <2>2. /\ UninstallPlan(keepData) \in Seq(StepsOf(c))
        /\ registered = {} \/ Contains(UninstallPlan(keepData), Step("unregister", Events))
    BY UninstallIs DEF InstallInv
  <2> QED
    BY <2>1, <2>2, RunKeeps DEF Commands, Removers
<1>6. CASE Proceed
  BY <1>6, ProceedKeeps
<1>7. CASE End
  BY <1>7, EndKeepsHooks
<1>8. CASE Die
  BY <1>8, DieKeepsHooks
<1>9. CASE UNCHANGED nvars
  <2>1. UNCHANGED <<tracked, scripts, registered, cmd, todo, failed, hitch>>
    BY <1>9 DEF nvars
  <2>2. StepsOf(cmd)' = StepsOf(cmd)
    BY <2>1 DEF StepsOf, Founding, Writing, Taking, Clearing, Removals, Additions,
                Removers, Parts
  <2> QED
    BY <2>1, <2>2 DEF InstallInv, InstallTypes
<1> QED
  BY <1>1, <1>2, <1>3, <1>4, <1>5, <1>6, <1>7, <1>8, <1>9 DEF NNext

(* Between commands, and after a setup or a removal of the hooks that did not   *)
(* fail, settings.json runs only scripts that are there, for any number of     *)
(* projects, events, commands, steps that fail and processes that die          *)
(* (cli_hooks_admin.py, cli_uninstall.py).                                   *)
THEOREM HooksDoResolve == NSpec => []HooksResolve
<1>1. NInit => InstallInv
  BY StepsAre DEF NInit, InstallInv, InstallTypes, Commands, Removers
<1>2. InstallInv /\ [NNext]_nvars => InstallInv'
  BY InstallStep
<1>3. InstallInv => HooksResolve
  BY DEF InstallInv, HooksResolve
<1> QED
  BY <1>1, <1>2, <1>3, PTL DEF NSpec

-----------------------------------------------------------------------------
(* Servers that start at once.                                                *)

InOf(l, p) == IF p \in DOMAIN l THEN Records(l[p]) ELSE {}
Stored(l, mirrors, x) == \E p \in DOMAIN l \ mirrors : x \in InOf(l, p)

(* What a server of a root, at a step, with what it holds and has seen         *)
(* appended, knows of the logs.                                              *)
Knows(l, step, what, seenLate, root) ==
  /\ step = "copy" => InOf(l, Repo(root)) \subseteq seenLate
  /\ step = "copying" => /\ what[1] \in Seq(Nat)
                         /\ InOf(l, Repo(root)) \subseteq Records(what[1]) \cup seenLate
  /\ step = "write" => /\ what \in Seq(Nat)
                       /\ InOf(l, Main) \cup InOf(l, Wt) \subseteq Records(what) \cup seenLate
  /\ step = "rename" => InOf(l, Wt) \subseteq InOf(l, Main) \cup seenLate

LogsInv(l) == \A p \in DOMAIN l : l[p] \in Seq(Nat)

StartsInv ==
  /\ DOMAIN server = Servers /\ DOMAIN held = Servers /\ DOMAIN late = Servers
  /\ \A s, t \in Servers : server[s] \in Locked /\ server[t] \in Locked => s = t
  /\ found.moved \subseteq copied
  /\ \A s \in Servers : server[s] \in {"out", "out2"} => RootOf[s] \notin found.moved
  /\ decided \in Nat /\ LogsInv(logs)
  /\ \A s \in Servers : Knows(logs, server[s], held[s], late[s], RootOf[s])
  /\ \A x \in 1 .. decided : x \in excused \/ Stored(logs, Mirrors, x)

LEMMA InIs == \A p : In(p) = InOf(logs, p)
BY DEF In, InOf

LEMMA PlacesDiffer ==
  /\ \A q, r : Repo(q) # Orphan(r) /\ Repo(q) # AtHome(r)
  /\ \A r : Repo(r) \notin Mirrors
  /\ Main # Wt /\ Main = Repo("main") /\ Wt = Repo("wt")
<1>1. ASSUME NEW q, NEW r
      PROVE  Repo(q) # Orphan(r) /\ Repo(q) # AtHome(r)
  <2>1. Repo(q)[1] = "repo" /\ Orphan(r)[1] = "orphan" /\ AtHome(r)[1] = "central"
    BY DEF Repo, Orphan, AtHome
  <2> QED
    BY <2>1
<1>2. ASSUME NEW r
      PROVE  Repo(r) \notin Mirrors
  BY <1>1 DEF Mirrors
<1>3. Main[2] = "main" /\ Wt[2] = "wt"
  BY DEF Main, Wt, Repo
<1> QED
  BY <1>1, <1>2, <1>3 DEF Main, Wt

LEMMA WithIs ==
  ASSUME LogsInv(logs), NEW p, NEW q \in Seq(Nat), logs' = With(p, q)
  PROVE  /\ LogsInv(logs')
         /\ DOMAIN logs' = DOMAIN logs \cup {p}
         /\ \A x : InOf(logs', x) = IF x = p THEN Records(q) ELSE InOf(logs, x)
<1>1. logs' = [x \in DOMAIN logs \cup {p} |-> IF x = p THEN q ELSE logs[x]]
  BY DEF With
<1>2. LogsInv(logs')
  BY <1>1 DEF LogsInv
<1>3. DOMAIN logs' = DOMAIN logs \cup {p}
  BY <1>1
<1>4. ASSUME NEW x
      PROVE  InOf(logs', x) = IF x = p THEN Records(q) ELSE InOf(logs, x)
  <2>1. CASE x = p
    BY <1>1, <2>1 DEF InOf
  <2>2. CASE x # p /\ x \in DOMAIN logs
    BY <1>1, <2>2 DEF InOf
  <2>3. CASE x # p /\ x \notin DOMAIN logs
    BY <1>1, <2>3 DEF InOf
  <2> QED
    BY <2>1, <2>2, <2>3
<1> QED
  BY <1>2, <1>3, <1>4

LEMMA LessIs ==
  ASSUME LogsInv(logs), NEW p, logs' = Less({p})
  PROVE  /\ LogsInv(logs')
         /\ DOMAIN logs' = DOMAIN logs \ {p}
         /\ \A x : InOf(logs', x) = IF x = p THEN {} ELSE InOf(logs, x)
<1>1. logs' = [x \in DOMAIN logs \ {p} |-> logs[x]]
  BY DEF Less
<1> QED
  BY <1>1 DEF LogsInv, InOf

(* Nothing is stranded when a log is written, if what it held is excused,      *)
(* written again or a mirror's; nor when one is taken away.                   *)
LEMMA WithStores ==
  ASSUME LogsInv(logs), NEW p, NEW q \in Seq(Nat), logs' = With(p, q),
         NEW lost, p \in Mirrors \/ InOf(logs, p) \subseteq lost \cup Records(q)
  PROVE  \A x : Stored(logs, Mirrors, x) => x \in lost \/ Stored(logs', Mirrors, x)
<1> SUFFICES ASSUME NEW x, NEW k \in DOMAIN logs \ Mirrors, x \in InOf(logs, k), x \notin lost
             PROVE  \E r \in DOMAIN logs' \ Mirrors : x \in InOf(logs', r)
  BY DEF Stored
<1>1. /\ DOMAIN logs' = DOMAIN logs \cup {p}
      /\ \A y : InOf(logs', y) = IF y = p THEN Records(q) ELSE InOf(logs, y)
  BY WithIs
<1>2. k \in DOMAIN logs' \ Mirrors
  BY <1>1
<1>3. x \in InOf(logs', k)
  BY <1>1
<1> QED
  BY <1>2, <1>3

LEMMA LessStores ==
  ASSUME LogsInv(logs), NEW p, logs' = Less({p}), NEW lost,
         NEW k, k \notin Mirrors, k # p, InOf(logs, p) \subseteq lost \cup InOf(logs, k)
  PROVE  \A x : Stored(logs, Mirrors, x) => x \in lost \/ Stored(logs', Mirrors, x)
<1> SUFFICES ASSUME NEW x, NEW o \in DOMAIN logs \ Mirrors, x \in InOf(logs, o), x \notin lost
             PROVE  \E r \in DOMAIN logs' \ Mirrors : x \in InOf(logs', r)
  BY DEF Stored
<1>1. /\ DOMAIN logs' = DOMAIN logs \ {p}
      /\ \A y : InOf(logs', y) = IF y = p THEN {} ELSE InOf(logs, y)
  BY LessIs
<1>2. CASE o # p
  BY <1>1, <1>2
<1>3. CASE o = p
  <2>1. x \in InOf(logs, k)
    BY <1>3
  <2>2. k \in DOMAIN logs
    BY <2>1 DEF InOf
  <2> QED
    BY <1>1, <2>1, <2>2
<1> QED
  BY <1>2, <1>3

(* A server goes on.  Another that is in the middle of a migration does not,   *)
(* so it still knows what it knew of the logs.                               *)
LEMMA OneServerKeeps ==
  ASSUME StartsInv, NEW s \in Servers, NEW step, NEW what, NEW seenLate,
         To(s, step, what),
         DOMAIN late' = Servers,
         \A t \in Servers : late'[t] = IF t = s THEN seenLate ELSE late[t],
         found' = found, copied \subseteq copied', decided' = decided,
         step \in Locked => server[s] \in Locked \/ \A t \in Servers : server[t] \notin Locked,
         step \in {"out", "out2"} => RootOf[s] \notin found.moved,
         LogsInv(logs'),
         server[s] \in Locked \/ \A r : InOf(logs', Repo(r)) = InOf(logs, Repo(r)),
         Knows(logs', step, what, seenLate, RootOf[s]),
         excused \subseteq excused',
         \A x : Stored(logs, Mirrors, x) => x \in excused' \/ Stored(logs', Mirrors, x)
  PROVE  StartsInv'
<1>1. /\ DOMAIN server' = Servers /\ DOMAIN held' = Servers
      /\ server'[s] = step /\ held'[s] = what
      /\ \A t \in Servers \ {s} : server'[t] = server[t] /\ held'[t] = held[t] /\ late'[t] = late[t]
  BY DEF StartsInv, To
<1>2. \A t, u \in Servers : server'[t] \in Locked /\ server'[u] \in Locked => t = u
  BY <1>1 DEF StartsInv
<1>3. found.moved \subseteq copied' /\ Mirrors' = Mirrors
  BY DEF StartsInv, Mirrors
<1>4. \A t \in Servers : server'[t] \in {"out", "out2"} => RootOf[t] \notin found.moved
  BY <1>1 DEF StartsInv
<1>5. ASSUME NEW t \in Servers
      PROVE  Knows(logs', server'[t], held'[t], late'[t], RootOf[t])
  <2>1. CASE t = s
    BY <1>1, <2>1
  <2>2. CASE t # s
    <3>1. Knows(logs, server[t], held[t], late[t], RootOf[t])
      BY DEF StartsInv
    <3>2. CASE server[s] \in Locked
      <4>1. server[t] \notin Locked
        BY <2>2, <3>2 DEF StartsInv
      <4> QED
        BY <1>1, <2>2, <4>1 DEF Knows, Locked
    <3>3. CASE \A r : InOf(logs', Repo(r)) = InOf(logs, Repo(r))
      <4>1. InOf(logs', Main) = InOf(logs, Main) /\ InOf(logs', Wt) = InOf(logs, Wt)
        BY <3>3 DEF Main, Wt
      <4> QED
        BY <1>1, <2>2, <3>1, <3>3, <4>1 DEF Knows
    <3> QED
      BY <3>2, <3>3
  <2> QED
    BY <2>1, <2>2
<1>6. \A x \in 1 .. decided' : x \in excused' \/ Stored(logs', Mirrors', x)
  BY <1>3 DEF StartsInv
<1> QED
  BY <1>1, <1>2, <1>3, <1>4, <1>5, <1>6 DEF StartsInv

(* A server that leaves the logs as they are, and goes to a step before which   *)
(* it knows nothing of them.                                                  *)
LEMMA ServerMoves ==
  ASSUME StartsInv, NEW s \in Servers, NEW step, NEW what,
         To(s, step, what), UNCHANGED late \/ Look(s), UNCHANGED <<logs, found, decided>>,
         copied \subseteq copied', excused \subseteq excused',
         step \in Locked => server[s] \in Locked \/ \A t \in Servers : server[t] \notin Locked,
         step \in {"out", "out2"} => RootOf[s] \notin found.moved,
         step \notin {"copy", "copying", "write", "rename"}
  PROVE  StartsInv'
<1> DEFINE l == late'[s]
<1>1. DOMAIN late' = Servers /\ \A t \in Servers : late'[t] = IF t = s THEN l ELSE late[t]
  BY DEF StartsInv, Look
<1>2. LogsInv(logs') /\ \A x : Stored(logs, Mirrors, x) => Stored(logs', Mirrors, x)
  BY DEF StartsInv
<1> HIDE DEF l
<1>3. Knows(logs', step, what, l, RootOf[s])
  BY DEF Knows
<1> QED
  BY <1>1, <1>2, <1>3, OneServerKeeps

LEMMA BeginningIs ==
  ASSUME NEW l \in Seq(Nat), NEW q \in Beginnings(l)
  PROVE  q \in Seq(Nat) /\ Records(q) \subseteq Records(l)
<1>1. PICK k \in 0 .. Len(l) : q = SubSeq(l, 1, k)
  BY DEF Beginnings
<1>2. Len(l) \in Nat /\ DOMAIN l = 1 .. Len(l)
  BY LenProperties
<1>3. q \in Seq(Nat) /\ Len(q) = k /\ \A i \in 1 .. k : q[i] = l[i]
  <2>1. \A i \in 1 .. k : l[i] \in Nat
    BY <1>1, <1>2, ElementOfSeq
  <2>2. /\ SubSeq(l, 1, k) \in Seq(Nat) /\ Len(SubSeq(l, 1, k)) = IF 1 <= k THEN k - 1 + 1 ELSE 0
        /\ \A i \in 1 .. k - 1 + 1 : SubSeq(l, 1, k)[i] = l[1 + i - 1]
    BY <1>1, <1>2, <2>1, SubSeqProperties
  <2> QED
    BY <1>1, <1>2, <2>2
<1>4. DOMAIN q = 1 .. k /\ 1 .. k \subseteq DOMAIN l
  BY <1>1, <1>2, <1>3
<1> QED
  BY <1>3, <1>4 DEF Records

(* What the second log of a merge holds is in the first or after it.          *)
LEMMA MergedIs ==
  ASSUME NEW p \in Seq(Nat), NEW q \in Seq(Nat)
  PROVE  /\ Merged(p, q) \in Seq(Nat)
         /\ Records(p) \cup Records(q) \subseteq Records(Merged(p, q))
<1> DEFINE fresh == {i \in DOMAIN q : q[i] \notin Records(p)}
           n == Cardinality(fresh)
           Rank(i) == Cardinality({j \in fresh : j <= i})
           Nth(k) == CHOOSE i \in fresh : Rank(i) = k
           rest == [k \in 1 .. n |-> q[Nth(k)]]
<1>1. Len(q) \in Nat /\ DOMAIN q = 1 .. Len(q) /\ Len(p) \in Nat /\ DOMAIN p = 1 .. Len(p)
      /\ \A i \in DOMAIN q : q[i] \in Nat
  BY LenProperties, ElementOfSeq
<1>2. fresh \in SUBSET Nat /\ IsFiniteSet(fresh)
  <2>1. fresh \subseteq 1 .. Len(q) /\ IsFiniteSet(1 .. Len(q))
    BY <1>1, FS_Interval
  <2> QED
    BY <1>1, <2>1, FS_Subset
<1>3. Merged(p, q) = p \o rest
  BY DEF Merged
<1>4. /\ n \in Nat
      /\ \A i \in fresh : Rank(i) \in 1 .. n
      /\ \A i, j \in fresh : Rank(i) = Rank(j) => i = j
      /\ \A r \in 1 .. n : \E i \in fresh : Rank(i) = r
  <2> HIDE DEF fresh
  <2> QED
    BY <1>2, RanksFill
<1>5. fresh \subseteq DOMAIN q /\ \A i \in DOMAIN q : i \in fresh \/ q[i] \in Records(p)
  OBVIOUS
<1> HIDE DEF fresh, n, Rank
<1>6. \A k \in 1 .. n : Nth(k) \in fresh /\ Rank(Nth(k)) = k
  BY <1>4
<1>7. \A i \in fresh : Nth(Rank(i)) = i
  BY <1>4, <1>6
<1> HIDE DEF Nth
<1>8. rest \in Seq(Nat) /\ Len(rest) = n /\ \A k \in 1 .. n : rest[k] = q[Nth(k)]
  <2>1. \A k \in 1 .. n : q[Nth(k)] \in Nat
    BY <1>1, <1>5, <1>6
  <2> QED
    BY <1>4, <2>1
<1>9. \A i \in fresh : Rank(i) \in 1 .. n /\ rest[Rank(i)] = q[i]
  BY <1>4, <1>7, <1>8
<1> HIDE DEF rest
<1> DEFINE m == p \o rest
<1>10. /\ m \in Seq(Nat) /\ Len(m) = Len(p) + n
       /\ \A i \in 1 .. Len(p) + n : m[i] = IF i <= Len(p) THEN p[i] ELSE rest[i - Len(p)]
  BY <1>8, ConcatProperties
<1> HIDE DEF m
<1>11. \A i \in DOMAIN p : i \in DOMAIN m /\ m[i] = p[i]
  BY <1>1, <1>4, <1>10
<1>12. \A k \in 1 .. n : Len(p) + k \in DOMAIN m /\ m[Len(p) + k] = rest[k]
  <2> SUFFICES ASSUME NEW k \in 1 .. n
               PROVE  Len(p) + k \in DOMAIN m /\ m[Len(p) + k] = rest[k]
    OBVIOUS
  <2>1. Len(p) + k \in 1 .. Len(p) + n /\ ~(Len(p) + k <= Len(p)) /\ Len(p) + k - Len(p) = k
    BY <1>1, <1>4
  <2>2. DOMAIN m = 1 .. Len(p) + n
    BY <1>10
  <2> QED
    BY <1>10, <2>1, <2>2
<1>13. Records(p) \subseteq Records(m)
  BY <1>11 DEF Records
<1>14. \A i \in DOMAIN q : q[i] \in Records(m)
  <2> SUFFICES ASSUME NEW i \in DOMAIN q, i \in fresh
               PROVE  q[i] \in Records(m)
    BY <1>5, <1>13
  <2>1. q[i] = m[Len(p) + Rank(i)] /\ Len(p) + Rank(i) \in DOMAIN m
    BY <1>9, <1>12
  <2> QED
    BY <2>1 DEF Records
<1>15. Records(q) \subseteq Records(m)
  BY <1>14 DEF Records
<1> QED
  BY <1>3, <1>10, <1>13, <1>15 DEF m

LEMMA LogIs ==
  ASSUME StartsInv, NEW p
  PROVE  /\ p \in DOMAIN logs => logs[p] \in Seq(Nat) /\ InOf(logs, p) = Records(logs[p])
         /\ p \notin DOMAIN logs => InOf(logs, p) = {}
BY DEF StartsInv, LogsInv, InOf

LEMMA EnterKeeps ==
  ASSUME StartsInv, NEW p \in {Main, Wt}, Enter(p)
  PROVE  StartsInv'
<1> DEFINE old == IF p \in DOMAIN logs THEN logs[p] ELSE <<>>
           new == decided + 1
           q == old \o <<new>>
<1>1. /\ decided' = new /\ new \in Nat /\ logs' = With(p, q)
      /\ late' = [t \in Servers |-> late[t] \cup {new}]
      /\ UNCHANGED <<found, copied, server, held, excused>>
  BY DEF Enter, StartsInv
<1>2. old \in Seq(Nat) /\ Records(old) = InOf(logs, p)
  <2>1. CASE p \in DOMAIN logs
    BY <2>1, LogIs
  <2>2. CASE p \notin DOMAIN logs
    <3>1. old = <<>> /\ InOf(logs, p) = {}
      BY <2>2, LogIs
    <3> HIDE DEF old
    <3> QED
      BY <3>1 DEF Records
  <2> QED
    BY <2>1, <2>2
<1> HIDE DEF old, new
<1>3. q \in Seq(Nat) /\ Records(q) = InOf(logs, p) \cup {new}
  <2>1. <<new>> \in Seq(Nat) /\ Len(<<new>>) = 1 /\ <<new>>[1] = new
    BY <1>1
  <2>2. Len(old) \in Nat /\ DOMAIN old = 1 .. Len(old)
    BY <1>2, LenProperties
  <2>3. /\ q \in Seq(Nat) /\ Len(q) = Len(old) + 1
        /\ \A i \in 1 .. Len(old) + 1 : q[i] = IF i <= Len(old) THEN old[i] ELSE <<new>>[i - Len(old)]
    BY <1>2, <2>1, ConcatProperties
  <2> HIDE DEF q
  <2>4. DOMAIN q = 1 .. Len(old) + 1
    BY <2>3
  <2>5. q[Len(old) + 1] = new
    BY <2>1, <2>2, <2>3
  <2>6. \A i \in 1 .. Len(old) : q[i] = old[i]
    BY <2>2, <2>3
  <2>7. \A i \in 1 .. Len(old) + 1 : i \in 1 .. Len(old) \/ i = Len(old) + 1
    BY <2>2
  <2>8. 1 .. Len(old) \subseteq DOMAIN q /\ Len(old) + 1 \in DOMAIN q
    BY <2>2, <2>4
  <2>9. Records(q) = Records(old) \cup {new}
    BY <2>2, <2>4, <2>5, <2>6, <2>7, <2>8 DEF Records
  <2> QED
    BY <1>2, <2>3, <2>9
<1> HIDE DEF q
<1>4. /\ LogsInv(logs') /\ DOMAIN logs' = DOMAIN logs \cup {p}
      /\ \A x : InOf(logs', x) = IF x = p THEN InOf(logs, p) \cup {new} ELSE InOf(logs, x)
  BY <1>1, <1>3, WithIs DEF StartsInv
<1>5. ASSUME NEW t \in Servers
      PROVE  Knows(logs', server'[t], held'[t], late'[t], RootOf[t])
  <2>1. /\ server'[t] = server[t] /\ held'[t] = held[t] /\ late'[t] = late[t] \cup {new}
        /\ Knows(logs, server[t], held[t], late[t], RootOf[t])
    BY <1>1 DEF StartsInv
  <2>2. \A x : InOf(logs', x) \subseteq InOf(logs, x) \cup {new} /\ InOf(logs, x) \subseteq InOf(logs', x)
    BY <1>4
  <2> QED
    BY <2>1, <2>2 DEF Knows
<1>6. ASSUME NEW x \in 1 .. decided'
      PROVE  x \in excused' \/ Stored(logs', Mirrors', x)
  <2>1. Mirrors' = Mirrors
    BY <1>1 DEF Mirrors
  <2>2. CASE x = new
    <3>1. p \in DOMAIN logs' \ Mirrors /\ x \in InOf(logs', p)
      BY <1>4, <2>2, PlacesDiffer
    <3> QED
      BY <2>1, <3>1 DEF Stored
  <2>3. CASE x # new
    <3>1. x \in 1 .. decided
      BY <1>1, <2>3 DEF new, StartsInv
    <3>2. x \in excused \/ Stored(logs, Mirrors, x)
      BY <3>1 DEF StartsInv
    <3>3. Stored(logs, Mirrors, x) => Stored(logs', Mirrors, x)
      BY <1>4 DEF Stored
    <3> QED
      BY <1>1, <2>1, <3>2, <3>3
  <2> QED
    BY <2>2, <2>3
<1>7. /\ DOMAIN server' = Servers /\ DOMAIN held' = Servers /\ DOMAIN late' = Servers
      /\ decided' \in Nat
  BY <1>1 DEF StartsInv
<1>8. /\ found'.moved \subseteq copied'
      /\ \A s, t \in Servers : server'[s] \in Locked /\ server'[t] \in Locked => s = t
      /\ \A s \in Servers : server'[s] \in {"out", "out2"} => RootOf[s] \notin found'.moved
  BY <1>1 DEF StartsInv
<1> QED
  BY <1>4, <1>5, <1>6, <1>7, <1>8 DEF StartsInv

LEMMA PruneKeeps ==
  ASSUME StartsInv, NEW r \in Roots, Prune(r)
  PROVE  StartsInv'
<1>1. /\ logs' = Less({Orphan(r)}) /\ excused' = excused \cup InOf(logs, Orphan(r))
      /\ UNCHANGED <<found, copied, server, held, late, decided>>
  BY InIs DEF Prune
<1>2. /\ LogsInv(logs')
      /\ \A x : InOf(logs', x) = IF x = Orphan(r) THEN {} ELSE InOf(logs, x)
  BY <1>1, LessIs DEF StartsInv
<1>3. \A q : InOf(logs', Repo(q)) = InOf(logs, Repo(q))
  BY <1>2, PlacesDiffer
<1>4. InOf(logs', Main) = InOf(logs, Main) /\ InOf(logs', Wt) = InOf(logs, Wt)
  BY <1>3 DEF Main, Wt
<1>5. ASSUME NEW t \in Servers
      PROVE  Knows(logs', server'[t], held'[t], late'[t], RootOf[t])
  <2>1. /\ server'[t] = server[t] /\ held'[t] = held[t] /\ late'[t] = late[t]
        /\ Knows(logs, server[t], held[t], late[t], RootOf[t])
    BY <1>1 DEF StartsInv
  <2> QED
    BY <1>3, <1>4, <2>1 DEF Knows
<1>6. \A x : Stored(logs, Mirrors, x) => x \in excused' \/ Stored(logs', Mirrors, x)
  <2>1. LogsInv(logs) /\ Main \notin Mirrors /\ Main # Orphan(r)
        /\ InOf(logs, Orphan(r)) \subseteq excused' \cup InOf(logs, Main)
    BY <1>1, PlacesDiffer DEF StartsInv
  <2> QED
    BY <1>1, <2>1, LessStores
<1>7. Mirrors' = Mirrors
  BY <1>1 DEF Mirrors
<1>8. \A x \in 1 .. decided' : x \in excused' \/ Stored(logs', Mirrors', x)
  BY <1>1, <1>6, <1>7 DEF StartsInv
<1> QED
  BY <1>1, <1>2, <1>5, <1>8 DEF StartsInv

(* A log written over: what of it was not seen is new, and excused.            *)
LEMMA OneWriteKeeps ==
  ASSUME StartsInv, NEW s \in Servers, NEW p, NEW q \in Seq(Nat), NEW step, NEW what,
         logs' = With(p, q), To(s, step, what), UNCHANGED <<late, found, decided>>,
         copied \subseteq copied', excused \subseteq excused',
         InOf(logs, p) \subseteq excused' \cup Records(q) \/ p \in Mirrors,
         server[s] \in Locked \/ p \in Mirrors,
         step \in Locked => server[s] \in Locked,
         step \in {"out", "out2"} => RootOf[s] \notin found.moved,
         Knows(logs', step, what, late[s], RootOf[s])
  PROVE  StartsInv'
<1>1. DOMAIN late' = Servers /\ \A t \in Servers : late'[t] = IF t = s THEN late[s] ELSE late[t]
  BY DEF StartsInv
<1>2. LogsInv(logs) /\ LogsInv(logs')
      /\ \A x : InOf(logs', x) = IF x = p THEN Records(q) ELSE InOf(logs, x)
  BY WithIs DEF StartsInv
<1>3. server[s] \in Locked \/ \A r : InOf(logs', Repo(r)) = InOf(logs, Repo(r))
  BY <1>2, PlacesDiffer
<1>4. \A x : Stored(logs, Mirrors, x) => x \in excused' \/ Stored(logs', Mirrors, x)
  BY <1>2, WithStores
<1> QED
  BY <1>1, <1>2, <1>3, <1>4, OneServerKeeps

LEMMA CopyOutKeeps ==
  ASSUME StartsInv, NEW s \in Servers, CopyOut(s) \/ CopiedOut(s)
  PROVE  StartsInv'
<1> DEFINE src == Repo(RootOf[s])
           dst == AtHome(RootOf[s])
<1>1. server[s] \in {"out", "out2"} /\ RootOf[s] \notin found.moved /\ RootOf[s] \in Roots
  BY MigrationsAssumption DEF CopyOut, CopiedOut, StartsInv
<1>2. dst \in Mirrors
  BY <1>1 DEF Mirrors
<1>3. PICK step \in {"out2", "lock"} :
        /\ To(s, step, <<>>)
        /\ UNCHANGED <<late, found, decided, excused>> /\ copied \subseteq copied'
        /\ logs' = logs \/ (src \in DOMAIN logs
                             /\ \E q \in Beginnings(logs[src]) \cup {logs[src]} : logs' = With(dst, q))
  BY DEF CopyOut, CopiedOut
<1>4. step \notin Locked /\ (step \in {"out", "out2"} => RootOf[s] \notin found.moved)
      /\ step \notin {"copy", "copying", "write", "rename"}
  BY <1>1 DEF Locked
<1> HIDE DEF src, dst
<1>5. CASE logs' = logs
  BY <1>3, <1>4, <1>5, ServerMoves
<1>6. ASSUME src \in DOMAIN logs, NEW q \in Beginnings(logs[src]) \cup {logs[src]},
             logs' = With(dst, q)
      PROVE  StartsInv'
  <2>1. q \in Seq(Nat)
    BY <1>6, LogIs, BeginningIs
  <2>2. Knows(logs', step, <<>>, late[s], RootOf[s])
    BY <1>4 DEF Knows
  <2> QED
    BY <1>2, <1>3, <1>4, <1>6, <2>1, <2>2, OneWriteKeeps
<1> QED
  BY <1>3, <1>5, <1>6

LEMMA RecoverKeeps ==
  ASSUME StartsInv, NEW s \in Servers, Recover(s)
  PROVE  StartsInv'
<1> DEFINE dst == Repo(RootOf[s])
<1>1. /\ server[s] \in Locked /\ Look(s)
      /\ UNCHANGED <<logs, found, copied, decided, excused>>
  BY DEF Recover, Locked
<1>2. CASE dst \notin DOMAIN logs /\ To(s, "copy", held[s])
  <2>1. DOMAIN late' = Servers /\ \A t \in Servers : late'[t] = IF t = s THEN {} ELSE late[t]
    BY <1>1 DEF StartsInv, Look
  <2>2. Knows(logs', "copy", held[s], {}, RootOf[s])
    BY <1>1, <1>2 DEF Knows, InOf
  <2>3. LogsInv(logs') /\ \A x : Stored(logs, Mirrors, x) => Stored(logs', Mirrors, x)
    BY <1>1 DEF StartsInv
  <2> QED
    BY <1>1, <1>2, <2>1, <2>2, <2>3, OneServerKeeps
<1>3. CASE To(s, "recover", Tail(held[s]))
  BY <1>1, <1>3, ServerMoves
<1> QED
  BY <1>2, <1>3 DEF Recover

LEMMA CopyKeeps ==
  ASSUME StartsInv, NEW s \in Servers, Copy(s)
  PROVE  StartsInv'
<1> DEFINE src == Head(held[s])
           dst == Repo(RootOf[s])
           what == <<logs[src], Tail(held[s])>>
<1>1. /\ server[s] = "copy" /\ server[s] \in Locked
      /\ UNCHANGED <<found, copied, late, decided>>
      /\ InOf(logs, dst) \subseteq late[s]
  BY DEF Copy, Locked, StartsInv, Knows
<1>2. CASE src \notin DOMAIN logs
  <2>1. To(s, "recover", Tail(held[s])) /\ UNCHANGED <<logs, excused>>
    BY <1>2 DEF Copy
  <2> QED
    BY <1>1, <2>1, ServerMoves
<1>3. CASE src \in DOMAIN logs
  <2>1. PICK q \in Beginnings(logs[src]) : logs' = With(dst, q)
    BY <1>3 DEF Copy
  <2>2. /\ excused' = excused \cup (late[s] \cap InOf(logs, dst))
        /\ To(s, "copying", what)
    BY <1>3, InIs DEF Copy
  <2>3. logs[src] \in Seq(Nat) /\ what[1] = logs[src]
    BY <1>3, LogIs
  <2> HIDE DEF src, what
  <2>4. q \in Seq(Nat) /\ Records(q) \subseteq Records(what[1])
    BY <2>3, BeginningIs
  <2>5. InOf(logs', dst) = Records(q)
    BY <2>1, <2>4, WithIs DEF StartsInv
  <2>6. Knows(logs', "copying", what, late[s], RootOf[s])
    BY <2>3, <2>4, <2>5 DEF Knows
  <2>7. InOf(logs, dst) \subseteq excused'
    BY <1>1, <2>2
  <2> HIDE DEF dst
  <2> QED
    BY <1>1, <2>1, <2>2, <2>4, <2>6, <2>7, OneWriteKeeps
<1> QED
  BY <1>2, <1>3

LEMMA CopiedKeeps ==
  ASSUME StartsInv, NEW s \in Servers, Copied(s)
  PROVE  StartsInv'
<1> DEFINE dst == Repo(RootOf[s])
           q == held[s][1]
           what == held[s][2]
<1>1. /\ server[s] = "copying" /\ server[s] \in Locked /\ To(s, "recover", what)
      /\ UNCHANGED <<found, copied, late, decided>>
      /\ q \in Seq(Nat) /\ InOf(logs, dst) \subseteq Records(q) \cup late[s]
  BY DEF Copied, Locked, StartsInv, Knows
<1>2. CASE UNCHANGED <<logs, excused>>
  BY <1>1, <1>2, ServerMoves
<1>3. CASE logs' = With(dst, q) /\ excused' = excused \cup (late[s] \cap InOf(logs, dst))
  <2>1. InOf(logs, dst) \subseteq excused' \cup Records(q)
    BY <1>1, <1>3
  <2>2. Knows(logs', "recover", what, late[s], RootOf[s])
    BY DEF Knows
  <2> HIDE DEF dst, q, what
  <2> QED
    BY <1>1, <1>3, <2>1, <2>2, OneWriteKeeps
<1> QED
  BY <1>2, <1>3, InIs DEF Copied

LEMMA ReadBothKeeps ==
  ASSUME StartsInv, NEW s \in Servers, ReadBoth(s)
  PROVE  StartsInv'
<1> DEFINE main == IF Main \in DOMAIN logs THEN logs[Main] ELSE <<>>
           q == Merged(main, logs[Wt])
<1>1. /\ server[s] \in Locked /\ Look(s)
      /\ UNCHANGED <<logs, found, copied, decided, excused>>
  BY DEF ReadBoth, Locked
<1>2. CASE To(s, "once", <<>>)
  BY <1>1, <1>2, ServerMoves
<1>3. CASE In(Wt) # {} /\ To(s, "write", q)
  <2>1. Wt \in DOMAIN logs /\ logs[Wt] \in Seq(Nat) /\ InOf(logs, Wt) = Records(logs[Wt])
    BY <1>3, LogIs DEF In
  <2>2. main \in Seq(Nat) /\ InOf(logs, Main) = Records(main)
    <3>1. CASE Main \in DOMAIN logs
      BY <3>1, LogIs
    <3>2. CASE Main \notin DOMAIN logs
      <4>1. main = <<>> /\ InOf(logs, Main) = {}
        BY <3>2, LogIs
      <4> HIDE DEF main
      <4> QED
        BY <4>1 DEF Records
    <3> QED
      BY <3>1, <3>2
  <2> HIDE DEF main
  <2>3. q \in Seq(Nat) /\ InOf(logs, Main) \cup InOf(logs, Wt) \subseteq Records(q)
    BY <2>1, <2>2, MergedIs
  <2> HIDE DEF q
  <2>4. DOMAIN late' = Servers /\ \A t \in Servers : late'[t] = IF t = s THEN {} ELSE late[t]
    BY <1>1 DEF StartsInv, Look
  <2>5. Knows(logs', "write", q, {}, RootOf[s])
    BY <1>1, <2>3 DEF Knows
  <2>6. LogsInv(logs') /\ \A x : Stored(logs, Mirrors, x) => Stored(logs', Mirrors, x)
    BY <1>1 DEF StartsInv
  <2> QED
    BY <1>1, <1>3, <2>4, <2>5, <2>6, OneServerKeeps
<1> QED
  BY <1>2, <1>3 DEF ReadBoth

LEMMA WriteKeeps ==
  ASSUME StartsInv, NEW s \in Servers, Write(s)
  PROVE  StartsInv'
<1>1. /\ server[s] \in Locked /\ To(s, "rename", <<>>) /\ logs' = With(Main, held[s])
      /\ UNCHANGED <<found, copied, late, decided>>
      /\ excused' = excused \cup (late[s] \cap InOf(logs, Main))
      /\ held[s] \in Seq(Nat)
      /\ InOf(logs, Main) \cup InOf(logs, Wt) \subseteq Records(held[s]) \cup late[s]
  BY InIs DEF Write, Locked, StartsInv, Knows
<1>2. InOf(logs', Main) = Records(held[s]) /\ InOf(logs', Wt) = InOf(logs, Wt)
  <2>1. LogsInv(logs) /\ Main # Wt
    BY PlacesDiffer DEF StartsInv
  <2>2. \A x : InOf(logs', x) = IF x = Main THEN Records(held[s]) ELSE InOf(logs, x)
    BY <1>1, <2>1, WithIs
  <2> QED
    BY <2>1, <2>2
<1>3. Knows(logs', "rename", <<>>, late[s], RootOf[s])
  BY <1>1, <1>2 DEF Knows
<1>4. InOf(logs, Main) \subseteq excused' \cup Records(held[s])
  BY <1>1
<1> QED
  BY <1>1, <1>3, <1>4, OneWriteKeeps

LEMMA SetAsideKeeps ==
  ASSUME StartsInv, NEW s \in Servers, SetAside(s)
  PROVE  StartsInv'
<1>1. /\ server[s] \in Locked /\ To(s, "once", <<>>)
      /\ UNCHANGED <<found, copied, late, decided>>
      /\ InOf(logs, Wt) \subseteq InOf(logs, Main) \cup late[s]
  BY DEF SetAside, Locked, StartsInv, Knows
<1>2. CASE UNCHANGED <<logs, excused>>
  BY <1>1, <1>2, ServerMoves
<1>3. CASE logs' = Less({Wt}) /\ excused' = excused \cup (late[s] \cap InOf(logs, Wt))
  <2>1. LogsInv(logs')
    BY <1>3, LessIs DEF StartsInv
  <2>2. \A x : Stored(logs, Mirrors, x) => x \in excused' \/ Stored(logs', Mirrors, x)
    <3>1. LogsInv(logs) /\ Main \notin Mirrors /\ Main # Wt
          /\ InOf(logs, Wt) \subseteq excused' \cup InOf(logs, Main)
      BY <1>1, <1>3, PlacesDiffer DEF StartsInv
    <3> QED
      BY <1>3, <3>1, LessStores
  <2>3. DOMAIN late' = Servers /\ \A t \in Servers : late'[t] = IF t = s THEN late[s] ELSE late[t]
    BY <1>1 DEF StartsInv
  <2>4. Knows(logs', "once", <<>>, late[s], RootOf[s])
    BY DEF Knows
  <2> QED
    BY <1>1, <1>3, <2>1, <2>2, <2>3, <2>4, OneServerKeeps
<1> QED
  BY <1>2, <1>3, InIs DEF SetAside

LEMMA PerishKeeps ==
  ASSUME StartsInv, NEW s \in Servers, Perish(s)
  PROVE  StartsInv'
<1>1. To(s, "off", <<>>) /\ Look(s) /\ UNCHANGED <<found, copied, decided>>
  BY DEF Perish
<1>2. CASE UNCHANGED <<logs, excused>>
  BY <1>1, <1>2, ServerMoves DEF Locked
<1>3. ASSUME server[s] = "write", NEW q \in Beginnings(held[s]),
             logs' = With(Main, q), excused' = excused \cup InOf(logs, Main)
      PROVE  StartsInv'
  <2>1. server[s] \in Locked /\ q \in Seq(Nat)
    BY <1>3, BeginningIs DEF Locked, StartsInv, Knows
  <2>2. LogsInv(logs) /\ LogsInv(logs')
    BY <1>3, <2>1, WithIs DEF StartsInv
  <2>3. \A x : Stored(logs, Mirrors, x) => x \in excused' \/ Stored(logs', Mirrors, x)
    BY <1>3, <2>1, <2>2, WithStores
  <2>4. DOMAIN late' = Servers /\ \A t \in Servers : late'[t] = IF t = s THEN {} ELSE late[t]
    BY <1>1 DEF StartsInv, Look
  <2>5. Knows(logs', "off", <<>>, {}, RootOf[s]) /\ "off" \notin Locked
    BY DEF Knows, Locked
  <2> QED
    BY <1>1, <1>3, <2>1, <2>2, <2>3, <2>4, <2>5, OneServerKeeps
<1> QED
  BY <1>2, <1>3, InIs DEF Perish

LEMMA StartsStep == ASSUME StartsInv, [GNext]_gvars PROVE StartsInv'
<1>1. ASSUME NEW s \in Servers, Start(s)
      PROVE  StartsInv'
  <2>1. PICK step \in {"out", "lock"} :
          /\ To(s, step, <<>>) /\ UNCHANGED <<logs, found, copied, late, excused, decided>>
          /\ step = "out" => RootOf[s] \notin copied
    BY <1>1 DEF Start
  <2>2. step = "out" => RootOf[s] \notin found.moved
    BY <2>1 DEF StartsInv
  <2> QED
    BY <2>1, <2>2, ServerMoves DEF Locked
<1>2. ASSUME NEW s \in Servers, Lock(s)
      PROVE  StartsInv'
  <2>1. /\ UNCHANGED <<logs, found, copied, late, excused, decided>>
        /\ \/ To(s, "up", <<>>)
           \/ /\ \A t \in Servers : server[t] \notin Locked
              /\ To(s, "recover", <<Orphan(RootOf[s]), AtHome(RootOf[s])>>)
    BY <1>2 DEF Lock
  <2>2. CASE To(s, "up", <<>>)
    BY <2>1, <2>2, ServerMoves DEF Locked
  <2>3. ASSUME \A t \in Servers : server[t] \notin Locked, NEW what, To(s, "recover", what)
        PROVE  StartsInv'
    BY <2>1, <2>3, ServerMoves DEF Locked
  <2> QED
    BY <2>1, <2>2, <2>3
<1>3. ASSUME NEW s \in Servers, Recovered(s)
      PROVE  StartsInv'
  BY <1>3, ServerMoves DEF Recovered, Locked
<1>4. ASSUME NEW s \in Servers, Once(s) \/ Quit(s)
      PROVE  StartsInv'
  BY <1>4, ServerMoves DEF Once, Quit, Locked
<1>5. CASE UNCHANGED gvars
  BY <1>5 DEF gvars, StartsInv, Mirrors
<1> QED
  BY <1>1, <1>2, <1>3, <1>4, <1>5, EnterKeeps, PruneKeeps, CopyOutKeeps, RecoverKeeps, CopyKeeps,
     CopiedKeeps, ReadBothKeeps, WriteKeeps, SetAsideKeeps, PerishKeeps DEF GNext

LEMMA StartsInit == ASSUME GInit PROVE StartsInv
<1>1. PICK w \in Worlds :
        /\ logs = w.log /\ found.moved = w.moved /\ copied = w.moved /\ decided = w.decided
  BY DEF GInit
<1>2. /\ DOMAIN server = Servers /\ DOMAIN held = Servers /\ DOMAIN late = Servers
      /\ \A s \in Servers : server[s] = "off"
  BY DEF GInit
<1>3. /\ decided \in Nat /\ LogsInv(logs)
      /\ 1 .. decided = UNION {Records(logs[p]) : p \in DOMAIN logs \ Mirrors}
  BY <1>1, MigrationsAssumption DEF LogsInv, Mirrors
<1>4. \A x \in 1 .. decided : Stored(logs, Mirrors, x)
  BY <1>3 DEF Stored, InOf
<1>5. \A s \in Servers : Knows(logs, server[s], held[s], late[s], RootOf[s])
  BY <1>2 DEF Knows
<1> QED
  BY <1>1, <1>2, <1>3, <1>4, <1>5 DEF StartsInv, Locked

(* However many servers start at once, are killed and start again, while agents *)
(* record decisions and old stores are pruned, every decision is in a store    *)
(* that is read or will be folded in, or in what an older release left, but   *)
(* for those that NothingStranded names (migrate.py).                         *)
THEOREM NothingIsStranded == GSpec => []NothingStranded
<1>1. GInit => StartsInv
  BY StartsInit
<1>2. StartsInv /\ [GNext]_gvars => StartsInv'
  BY StartsStep
<1>3. StartsInv => NothingStranded
  <2> SUFFICES ASSUME StartsInv, NEW x \in 1 .. decided, x \notin excused
               PROVE  \E p \in DOMAIN logs \ Mirrors : x \in In(p)
    BY DEF NothingStranded
  <2>1. Stored(logs, Mirrors, x)
    BY DEF StartsInv
  <2> QED
    BY <2>1, InIs DEF Stored
<1> QED
  BY <1>1, <1>2, <1>3, PTL DEF GSpec

-----------------------------------------------------------------------------
(* Edits and the symbols that locked decisions are about.                     *)

Lines == Symbols \cup Words
SomeEdits == [kind : {"one", "all", "write"}, before : Seq(Lines), after : Seq(Lines)]

LEMMA TextIsLines == ASSUME NEW t \in Contents PROVE t \in Seq(Lines)
BY HookAssumption DEF Contents, BoundedSeq, SeqOf, Lines

Spliced(t, p, m, a) == SubSeq(t, 1, p - 1) \o a \o SubSeq(t, p + m, Len(t))

(* r is t, of l lines, with the n lines of a for the m from p on: those before   *)
(* them keep their places, those behind move by the same distance.            *)
Replaces(r, t, l, p, m, a, n) ==
  /\ l \in Nat /\ m \in Nat /\ n \in Nat /\ p \in 1 .. l - m + 1
  /\ DOMAIN r = 1 .. l - m + n
  /\ \A i \in 1 .. p - 1 : r[i] = t[i]
  /\ \A i \in 1 .. n : r[p - 1 + i] = a[i]
  /\ \A i \in p + m .. l : r[i - m + n] = t[i]

(* That is what a splice does.                                                *)
LEMMA Splice ==
  ASSUME NEW S, NEW t \in Seq(S), NEW a \in Seq(S), NEW m \in Nat,
         NEW p \in 1 .. Len(t) - m + 1
  PROVE  Replaces(Spliced(t, p, m, a), t, Len(t), p, m, a, Len(a))
<1> DEFINE r == Spliced(t, p, m, a)
           upper == SubSeq(t, 1, p - 1)
           lower == SubSeq(t, p + m, Len(t))
           joint == upper \o a
<1> HIDE DEF r, upper, lower, joint
<1>0. Len(t) \in Nat /\ Len(a) \in Nat /\ p \in Nat /\ p - 1 \in Nat
  OBVIOUS
<1>1. upper \in Seq(S) /\ Len(upper) = p - 1 /\ \A i \in 1 .. p - 1 : upper[i] = t[i]
  BY DEF upper
<1>2. /\ lower \in Seq(S) /\ Len(lower) = Len(t) - m - p + 1
      /\ \A i \in 1 .. Len(lower) : lower[i] = t[p + m - 1 + i]
  <2>1. p + m \in 1 .. Len(t) + 1 /\ \A i \in p + m .. Len(t) : t[i] \in S
    BY <1>0
  <2>2. /\ lower \in Seq(S) /\ Len(lower) = Len(t) - (p + m) + 1
        /\ \A i \in 1 .. Len(t) - (p + m) + 1 : lower[i] = t[p + m + i - 1]
    BY <1>0, <2>1, SubSeqProperties DEF lower
  <2>3. Len(lower) = Len(t) - m - p + 1
    BY <1>0, <2>2
  <2>4. \A i \in 1 .. Len(lower) : p + m + i - 1 = p + m - 1 + i
    BY <1>0
  <2> QED BY <2>2, <2>3, <2>4
<1>3. joint \in Seq(S) /\ Len(joint) = p - 1 + Len(a)
  BY <1>1, ConcatProperties DEF joint
<1>4. \A i \in 1 .. Len(joint) : joint[i] = IF i <= p - 1 THEN upper[i] ELSE a[i - (p - 1)]
  BY <1>1, <1>3, ConcatProperties DEF joint
<1>5. r = joint \o lower
  BY DEF r, Spliced, joint, upper, lower
<1>6. r \in Seq(S) /\ Len(r) = Len(t) - m + Len(a)
  <2>1. r \in Seq(S) /\ Len(r) = Len(joint) + Len(lower)
    BY <1>2, <1>3, <1>5, ConcatProperties
  <2> QED BY <1>0, <1>2, <1>3, <2>1
<1>7. \A i \in 1 .. Len(r) :
        r[i] = IF i <= Len(joint) THEN joint[i] ELSE lower[i - Len(joint)]
  <2>1. joint \in Seq(S) /\ lower \in Seq(S) /\ Len(r) = Len(joint) + Len(lower)
    BY <1>0, <1>2, <1>3, <1>6
  <2> QED BY <1>5, <2>1, ConcatProperties
<1>8. ASSUME NEW i \in 1 .. p - 1 PROVE r[i] = t[i]
  <2>1. i \in 1 .. Len(joint) /\ i \in 1 .. Len(r) /\ i <= p - 1 /\ i <= Len(joint)
    BY <1>0, <1>3, <1>6
  <2> QED BY <1>1, <1>4, <1>7, <2>1
<1>9. ASSUME NEW i \in 1 .. Len(a) PROVE r[p - 1 + i] = a[i]
  <2> DEFINE k == p - 1 + i
  <2>1. /\ k \in 1 .. Len(joint) /\ k \in 1 .. Len(r) /\ ~(k <= p - 1) /\ k <= Len(joint)
        /\ k - (p - 1) = i
    BY <1>0, <1>3, <1>6
  <2> HIDE DEF k
  <2>2. r[k] = a[i]
    BY <1>4, <1>7, <2>1
  <2> QED BY <2>2 DEF k
<1>10. ASSUME NEW i \in p + m .. Len(t) PROVE r[i - m + Len(a)] = t[i]
  <2> DEFINE k == i - m + Len(a)
             l == i - p - m + 1
  <2>1. /\ k \in 1 .. Len(r) /\ ~(k <= Len(joint)) /\ k - Len(joint) = l
        /\ l \in 1 .. Len(lower) /\ p + m - 1 + l = i
    BY <1>0, <1>2, <1>3, <1>6
  <2> HIDE DEF k, l
  <2>2. r[k] = lower[l] /\ lower[l] = t[i]
    BY <1>2, <1>7, <2>1
  <2> QED BY <2>2 DEF k
<1>11. DOMAIN r = 1 .. Len(t) - m + Len(a)
  BY <1>6
<1> QED BY <1>0, <1>8, <1>9, <1>10, <1>11 DEF r, Replaces

(* The same for a set R of lines: those of the passage follow g.              *)
LEMMA Moved ==
  ASSUME NEW t, NEW a, NEW r, NEW l, NEW m, NEW n, NEW p, Replaces(r, t, l, p, m, a, n),
         NEW R \in SUBSET (1 .. l),
         NEW g \in [R \cap (p .. p + m - 1) -> 1 .. n],
         \A i \in R \cap (p .. p + m - 1) : a[g[i]] = t[i],
         \A i, j \in R \cap (p .. p + m - 1) : i < j => g[i] < g[j]
  PROVE  Within(R, t, r)
<1> DEFINE h == [i \in R |-> IF i < p THEN i ELSE IF i < p + m THEN p - 1 + g[i] ELSE i - m + n]
<1>0. /\ l \in Nat /\ m \in Nat /\ n \in Nat /\ p \in 1 .. l - m + 1
      /\ DOMAIN r = 1 .. l - m + n
      /\ \A i \in 1 .. p - 1 : r[i] = t[i]
      /\ \A i \in 1 .. n : r[p - 1 + i] = a[i]
      /\ \A i \in p + m .. l : r[i - m + n] = t[i]
  BY DEF Replaces
<1>a. R \subseteq Nat /\ l \in Nat /\ m \in Nat /\ n \in Nat /\ p \in Nat
  <2>1. l \in Nat /\ m \in Nat /\ n \in Nat /\ p \in Nat
    BY <1>0
  <2> QED BY <2>1
<1>1. ASSUME NEW i \in R, i < p PROVE h[i] = i /\ i \in 1 .. l - m + n /\ r[h[i]] = t[i]
  BY <1>0, <1>1
<1>2. ASSUME NEW i \in R, p <= i, i < p + m
      PROVE  /\ h[i] = p - 1 + g[i] /\ g[i] \in 1 .. n /\ h[i] \in 1 .. l - m + n
             /\ r[h[i]] = t[i]
  <2>1. i \in R \cap (p .. p + m - 1)
    BY <1>0, <1>2
  <2>2. h[i] = p - 1 + g[i] /\ g[i] \in 1 .. n
    BY <1>0, <1>2, <2>1
  <2> QED BY <1>0, <2>1, <2>2
<1>3. ASSUME NEW i \in R, p + m <= i
      PROVE  h[i] = i - m + n /\ h[i] \in 1 .. l - m + n /\ r[h[i]] = t[i]
  BY <1>0, <1>3
<1>4. \A i \in R : h[i] \in DOMAIN r /\ r[h[i]] = t[i]
  <2> SUFFICES ASSUME NEW i \in R PROVE h[i] \in DOMAIN r /\ r[h[i]] = t[i]
    OBVIOUS
  <2>1. i \in Nat /\ p \in Nat /\ m \in Nat
    BY <1>a
  <2>2. i < p \/ (p <= i /\ i < p + m) \/ p + m <= i
    BY <2>1
  <2> QED BY <1>0, <1>1, <1>2, <1>3, <2>2
<1>5. ASSUME NEW i \in R, NEW j \in R, i < j PROVE h[i] < h[j]
  <2>0. i \in Nat /\ j \in Nat /\ p \in Nat /\ m \in Nat /\ n \in Nat
    BY <1>a
  <2>1. CASE i < p
    BY <1>0, <1>1, <1>2, <1>3, <1>5, <2>1
  <2>2. CASE p <= i /\ j < p + m
    <3>1. p <= i /\ i < p + m /\ p <= j /\ j < p + m
      BY <2>0, <1>5, <2>2
    <3>2. i \in R \cap (p .. p + m - 1) /\ j \in R \cap (p .. p + m - 1)
      BY <1>0, <3>1
    <3>3. g[i] < g[j]
      BY <1>5, <3>2
    <3>4. /\ h[i] = p - 1 + g[i] /\ h[j] = p - 1 + g[j]
          /\ g[i] \in 1 .. n /\ g[j] \in 1 .. n
      BY <1>2, <3>1
    <3> HIDE DEF h
    <3> QED BY <2>0, <3>3, <3>4
  <2>3. CASE p <= i /\ i < p + m /\ p + m <= j
    <3>1. h[i] = p - 1 + g[i] /\ g[i] \in 1 .. n /\ h[j] = j - m + n
      BY <1>2, <1>3, <2>3
    <3> HIDE DEF h
    <3> QED BY <2>0, <2>3, <3>1
  <2>4. CASE p + m <= i
    <3>1. p + m <= j
      BY <2>0, <1>5, <2>4
    <3>2. h[i] = i - m + n /\ h[j] = j - m + n
      <4> HIDE DEF h
      <4> QED BY <1>3, <2>4, <3>1
    <3> HIDE DEF h
    <3> QED BY <2>0, <1>5, <3>2
  <2> QED BY <2>0, <1>5, <2>1, <2>2, <2>3, <2>4
<1>6. h \in [R -> DOMAIN r]
  BY <1>4
<1> HIDE DEF h
<1> QED BY <1>4, <1>5, <1>6 DEF Within

(* An edit takes no line of a region that it does not reach; and none at all,   *)
(* if the lines it replaces stand in what it puts for them.                   *)
LEMMA SpliceKeeps ==
  ASSUME NEW S, NEW t \in Seq(S), NEW a \in Seq(S), NEW b \in Seq(S),
         NEW p \in 1 .. Len(t) - Len(b) + 1, SubSeq(t, p, p + Len(b) - 1) = b,
         NEW R \in SUBSET (1 .. Len(t)),
         R \cap (p .. p + Len(b) - 1) = {} \/ Within(DOMAIN b, b, a)
  PROVE  Within(R, t, Spliced(t, p, Len(b), a))
<1> DEFINE m == Len(b)
           n == Len(a)
           hit == R \cap (p .. p + m - 1)
           r == Spliced(t, p, m, a)
<1>1. Replaces(r, t, Len(t), p, m, a, n)
  BY Splice
<1>2. \A i \in hit : i - p + 1 \in 1 .. m /\ t[i] = b[i - p + 1]
  <2> SUFFICES ASSUME NEW i \in p .. p + m - 1
               PROVE  i - p + 1 \in 1 .. m /\ t[i] = b[i - p + 1]
    OBVIOUS
  <2>1. p \in Nat /\ m \in Nat /\ i \in Nat /\ i - p + 1 \in 1 .. m
    OBVIOUS
  <2>2. \A k \in 1 .. m : SubSeq(t, p, p + m - 1)[k] = t[p + k - 1]
    OBVIOUS
  <2>3. p + (i - p + 1) - 1 = i
    BY <2>1
  <2> QED BY <2>1, <2>2, <2>3
<1>3. PICK g \in [hit -> 1 .. n] : /\ \A i \in hit : a[g[i]] = t[i]
                                  /\ \A i, j \in hit : i < j => g[i] < g[j]
  <2>1. CASE hit = {}
    <3> DEFINE g == [i \in hit |-> 1]
    <3>1. g \in [hit -> 1 .. n]
      BY <2>1
    <3> QED BY <2>1, <3>1
  <2>2. CASE Within(DOMAIN b, b, a)
    <3>0. DOMAIN b = 1 .. m /\ DOMAIN a = 1 .. n
      OBVIOUS
    <3>1. PICK h \in [1 .. m -> 1 .. n] : /\ \A i \in 1 .. m : a[h[i]] = b[i]
                                         /\ \A i, j \in 1 .. m : i < j => h[i] < h[j]
      BY <2>2, <3>0, Zenon DEF Within
    <3> DEFINE g == [i \in hit |-> h[i - p + 1]]
    <3>2. g \in [hit -> 1 .. n] /\ \A i \in hit : a[g[i]] = t[i]
      BY <1>2, <3>1
    <3>3. ASSUME NEW i \in hit, NEW j \in hit, i < j PROVE g[i] < g[j]
      <4>1. i - p + 1 \in 1 .. m /\ j - p + 1 \in 1 .. m /\ i - p + 1 < j - p + 1
        BY <1>2, <3>3
      <4> QED BY <3>1, <4>1
    <3> HIDE DEF g
    <3> QED BY <3>2, <3>3
  <2> QED BY <2>1, <2>2
<1> HIDE DEF r, m, n
<1>4. Within(R, t, r)
  BY <1>1, <1>3, Moved
<1> QED BY <1>4 DEF r, m

(* What the lock found of an edit that it was sure of, and let through.       *)
Sound(e) ==
  /\ Determinate(e) /\ Seen = locked /\ DecisionLock(e) # "block"
  /\ e.kind = "write" => e.before = text

(* It holds until the edit is made, as long as the lock says it is sure.      *)
HookInv ==
  /\ text \in Contents /\ locked \subseteq Decisions
  /\ pending \in [Editors -> SomeEdits \cup {NoEdit}] /\ sure \in [Editors -> BOOLEAN]
  /\ \A s \in Editors : sure[s] /\ pending[s] # NoEdit => Sound(pending[s])

LEMMA SoundStays ==
  ASSUME text' = text, locked' = locked
  PROVE  \A e : Sound(e) => Sound(e)'
<1>1. \A e : /\ Occurrences(e.before)' = Occurrences(e.before)
             /\ Place(e)' = Place(e) /\ Determinate(e)' = Determinate(e)
  BY DEF Occurrences, Place, Determinate
<1>2. \A s : Region(s)' = Region(s)
  BY DEF Region
<1>3. \A e : Touched(e)' = Touched(e)
  BY <1>1, <1>2 DEF Touched, Span
<1>4. Seen' = Seen
  BY DEF Seen
<1>5. \A d, e : Conflicts(d, e)' <=> Conflicts(d, e)
  BY <1>1, <1>3, Zenon DEF Conflicts, Changed
<1>6. \A e : DecisionLock(e)' = DecisionLock(e)
  BY <1>4, <1>5, Zenon DEF DecisionLock, PureInsertion
<1> QED BY <1>1, <1>4, <1>6, Zenon DEF Sound

LEMMA EditsAre ==
  ASSUME text \in Contents, NEW e \in Edits
  PROVE  e \in SomeEdits /\ (e.kind = "write" => e.before = text)
<1> DEFINE new == {<<>>} \cup {<<x>> : x \in Lines} \cup {<<x, y>> : x, y \in Lines}
           passages == {b \in {SubSeq(text, i, j) : i, j \in DOMAIN text} : b # <<>>}
<1>1. text \in Seq(Lines)
  BY TextIsLines
<1>2. new \subseteq Seq(Lines)
  <2> SUFFICES ASSUME NEW b \in new PROVE b \in Seq(Lines)
    OBVIOUS
  <2>1. b = <<>> \/ (\E x \in Lines : b = <<x>>) \/ \E x, y \in Lines : b = <<x, y>>
    OBVIOUS
  <2>2. /\ \A x \in Lines : <<x>> \in Seq(Lines)
        /\ \A x, y \in Lines : <<x, y>> \in Seq(Lines)
    OBVIOUS
  <2>3. <<>> \in Seq(Lines)
    OBVIOUS
  <2> HIDE DEF new
  <2> QED BY <2>1, <2>2, <2>3, Zenon
<1>3. passages \subseteq Seq(Lines)
  <2> SUFFICES ASSUME NEW b \in passages PROVE b \in Seq(Lines)
    OBVIOUS
  <2>1. PICK i, j \in DOMAIN text : b = SubSeq(text, i, j)
    OBVIOUS
  <2> HIDE DEF passages
  <2>2. i \in 1 .. Len(text) /\ j \in 1 .. Len(text)
    BY <1>1, <2>1
  <2>3. \A k \in i .. j : text[k] \in Lines
    BY <1>1, <2>2
  <2>4. SubSeq(text, i, j) \in Seq(Lines)
    BY <2>2, <2>3, SubSeqProperties
  <2> QED BY <2>1, <2>4
<1>4. {<<x>> : x \in ToSet(text)} \subseteq Seq(Lines)
  <2> SUFFICES ASSUME NEW i \in DOMAIN text PROVE <<text[i]>> \in Seq(Lines)
    BY DEF ToSet
  <2> QED BY <1>1
<1> HIDE DEF new, passages
<1>5. e \in [kind : {"one"}, before : passages, after : new]
          \cup [kind : {"all"}, before : {<<x>> : x \in ToSet(text)}, after : new]
          \cup [kind : {"write"}, before : {text}, after : new]
  BY DEF Edits, new, passages, Lines
<1> QED BY <1>1, <1>2, <1>3, <1>4, <1>5 DEF SomeEdits

(* Whoever asks and is let through has what the lock found, if it is sure.    *)
LEMMA AskStep ==
  ASSUME HookInv, NEW s \in Editors, Ask(s)
  PROVE  HookInv'
<1>1. PICK e \in Edits, raising \in {{}} \cup {{p} : p \in Policies} :
        IF Denied(e, raising) THEN UNCHANGED <<pending, sure>>
        ELSE /\ pending' = [pending EXCEPT ![s] = e]
             /\ sure' = [sure EXCEPT ![s] = /\ "decision_lock" \notin raising
                                            /\ Determinate(e) /\ Seen = locked]
  BY DEF Ask
<1>2. text' = text /\ locked' = locked
  BY DEF Ask
<1>3. \A x : Sound(x) => Sound(x)'
  BY <1>2, SoundStays
<1>4. CASE Denied(e, raising)
  BY <1>1, <1>2, <1>3, <1>4 DEF HookInv
<1>5. CASE ~Denied(e, raising)
  <2>1. e \in SomeEdits /\ (e.kind = "write" => e.before = text)
    BY EditsAre DEF HookInv
  <2>2. "decision_lock" \notin raising => DecisionLock(e) # "block"
    BY <1>5 DEF Denied, Policies, Evaluate
  <2>3. sure'[s] => Sound(e)
    BY <1>1, <1>5, <2>1, <2>2 DEF HookInv, Sound
  <2>4. /\ pending' \in [Editors -> SomeEdits \cup {NoEdit}] /\ sure' \in [Editors -> BOOLEAN]
        /\ pending'[s] = e
    BY <1>1, <1>5, <2>1 DEF HookInv
  <2>5. \A x \in Editors \ {s} : pending'[x] = pending[x] /\ sure'[x] = sure[x]
    BY <1>1, <1>5 DEF HookInv
  <2>6. ASSUME NEW x \in Editors, sure'[x], pending'[x] # NoEdit PROVE Sound(pending'[x])
    BY <2>3, <2>4, <2>5, <2>6 DEF HookInv
  <2> QED BY <1>2, <1>3, <2>4, <2>6 DEF HookInv
<1> QED BY <1>4, <1>5

LEMMA HookStep == ASSUME HookInv, [ENext]_evars PROVE HookInv'
<1>1. ASSUME UNCHANGED evars PROVE HookInv'
  <2>1. \A x : Sound(x) => Sound(x)'
    BY <1>1, SoundStays DEF evars
  <2> QED BY <1>1, <2>1 DEF HookInv, evars
<1>2. ASSUME NEW d \in Decisions, SwitchLock(d) PROVE HookInv'
  <2>1. locked' \subseteq Decisions
    BY <1>2 DEF HookInv, SwitchLock
  <2> QED BY <1>2, <2>1 DEF HookInv, SwitchLock
<1>3. ASSUME NEW s \in Editors, Apply(s) PROVE HookInv'
  <2>1. pending' \in [Editors -> SomeEdits \cup {NoEdit}]
    BY <1>3 DEF HookInv, Apply
  <2>2. \A x \in Editors : pending'[x] # NoEdit => pending'[x] = pending[x]
    BY <1>3 DEF HookInv, Apply
  <2>3. locked' = locked
    BY <1>3 DEF Apply
  <2>4. CASE text' \in Contents /\ sure' = [x \in Editors |-> FALSE]
    BY <2>1, <2>3, <2>4 DEF HookInv
  <2>5. CASE UNCHANGED <<text, sure>>
    <3>1. \A x : Sound(x) => Sound(x)'
      BY <2>3, <2>5, SoundStays
    <3> QED BY <2>1, <2>2, <2>3, <2>5, <3>1 DEF HookInv
  <2> QED BY <1>3, <2>4, <2>5 DEF Apply
<1> QED BY <1>1, <1>2, <1>3, AskStep DEF ENext

(* An edit that is made where the lock was sure of it: whatever region it looked *)
(* at stands.                                                                *)
LEMMA ApplyKeeps ==
  ASSUME HookInv, NEW s \in Editors, NEW d \in locked,
         pending[s] # NoEdit, sure[s], SymbolOf[d] # NoSymbol, text' = Result(pending[s])
  PROVE  Within(Region(SymbolOf[d]), text, text')
<1> DEFINE e == pending[s]
           R == Region(SymbolOf[d])
           b == e.before
           a == e.after
           p == Place(e)
<1>1. e \in SomeEdits /\ Sound(e) /\ b \in Seq(Lines) /\ a \in Seq(Lines)
      /\ text \in Seq(Lines)
  BY TextIsLines DEF HookInv, SomeEdits
<1>2. b # <<>> /\ Occurrences(b) = {p} /\ Len(b) \in Nat /\ Len(text) \in Nat
  <2>1. Cardinality(Occurrences(b)) = 1 /\ b # <<>>
    BY <1>1 DEF Sound, Determinate
  <2>2. IsFiniteSet(Occurrences(b))
    <3>1. 1 \in Int /\ Len(text) - Len(b) + 1 \in Int
      BY <1>1
    <3>2. IsFiniteSet(1 .. Len(text) - Len(b) + 1)
      BY <3>1, FS_Interval
    <3> QED BY <3>2, FS_Subset DEF Occurrences
  <2>3. PICK x : Occurrences(b) = {x}
    BY <2>1, <2>2, FS_Singleton
  <2> QED BY <1>1, <2>1, <2>3 DEF Place
<1>3. p \in 1 .. Len(text) - Len(b) + 1 /\ SubSeq(text, p, p + Len(b) - 1) = b
  BY <1>2 DEF Occurrences
<1>4. R \in SUBSET (1 .. Len(text))
  BY <1>1 DEF Region
<1>5. R \cap (p .. p + Len(b) - 1) = {} \/ Within(DOMAIN b, b, a)
  <2>1. d \in Seen /\ (PureInsertion(e) \/ \A x \in Seen : ~Conflicts(x, e))
    BY <1>1 DEF Sound, DecisionLock
  <2>2. ASSUME ~Conflicts(d, e) PROVE R \cap (p .. p + Len(b) - 1) = {}
    <3>1. SymbolOf[d] \in Symbols
      BY HookAssumption DEF HookInv
    <3>2. SymbolOf[d] \notin Touched(e)
      BY <1>1, <2>2 DEF Conflicts, Sound
    <3> QED BY <3>1, <3>2 DEF Touched, Span
  <2> QED BY <2>1, <2>2 DEF PureInsertion
<1>6. Within(R, text, Spliced(text, p, Len(b), a))
  BY <1>1, <1>3, <1>4, <1>5, SpliceKeeps
<1>7. text' = Spliced(text, p, Len(b), a)
  <2>1. CASE e.kind = "write"
    <3>0. b = text
      BY <1>1, <2>1 DEF Sound
    <3>1. p = 1
      BY <1>2, <1>3, <3>0
    <3>2. SubSeq(text, 1, 0) = <<>> /\ SubSeq(text, 1 + Len(text), Len(text)) = <<>>
      BY <1>1, SubSeqEmpty
    <3>3. <<>> \o a \o <<>> = a
      BY <1>1, ConcatEmptySeq
    <3>4. text' = a
      BY <2>1 DEF Result
    <3>5. p - 1 = 0 /\ p + Len(b) = 1 + Len(text)
      BY <3>0, <3>1
    <3> HIDE DEF a, b, p
    <3>6. Spliced(text, p, Len(b), a) = <<>> \o a \o <<>>
      BY <3>1, <3>2, <3>5, Zenon DEF Spliced
    <3> QED BY <3>3, <3>4, <3>6
  <2>2. CASE e.kind # "write"
    <3>1. Cardinality(Occurrences(b)) = 1
      BY <1>1 DEF Sound, Determinate
    <3> QED BY <2>2, <3>1 DEF Spliced, Result
  <2> QED BY <2>1, <2>2
<1> QED BY <1>6, <1>7

LEMMA StandStep == ASSUME HookInv, [ENext]_evars PROVE [LockedSymbolsStandStep]_evars
<1> SUFFICES ASSUME NEW s \in Editors, NEW d \in locked, ENext,
                    pending[s] # NoEdit, pending'[s] = NoEdit, sure[s], SymbolOf[d] # NoSymbol
             PROVE  Within(Region(SymbolOf[d]), text, text')
  BY DEF LockedSymbolsStandStep
<1>1. Apply(s)
  <2>1. ASSUME NEW x \in Decisions, SwitchLock(x) PROVE FALSE
    BY <2>1 DEF SwitchLock
  <2>2. ASSUME NEW x \in Editors, Ask(x) PROVE FALSE
    BY <2>2 DEF Ask, HookInv
  <2>3. ASSUME NEW x \in Editors, Apply(x) PROVE x = s
    BY <2>3 DEF Apply, HookInv
  <2> QED BY <2>1, <2>2, <2>3 DEF ENext
<1>2. CASE text' = Result(pending[s])
  BY <1>2, ApplyKeeps
<1>3. CASE text' = text
  <2> DEFINE R == Region(SymbolOf[d])
             h == [i \in R |-> i]
  <2>1. R \subseteq DOMAIN text
    BY DEF Region
  <2> HIDE DEF R
  <2>2. h \in [R -> DOMAIN text] /\ \A i \in R : h[i] = i
    BY <2>1
  <2> QED BY <1>3, <2>2 DEF Within, R
<1> QED BY <1>1, <1>2, <1>3 DEF Apply

(* In block mode no edit that was let through takes a line of a symbol that a    *)
(* locked decision is about, whatever the file, the edit, the number of sessions *)
(* and the number of locks that the policy looks at: if it saw all locks, could *)
(* tell the place, did not fail, and nothing changed under the edit.          *)
THEOREM SymbolsStand == ESpec => LockedSymbolsStand
<1>1. EInit => HookInv
  BY HookAssumption DEF EInit, HookInv
<1>2. HookInv /\ [ENext]_evars => HookInv' /\ [LockedSymbolsStandStep]_evars
  BY HookStep, StandStep
<1> QED BY <1>1, <1>2, PTL DEF ESpec, LockedSymbolsStand
=============================================================================

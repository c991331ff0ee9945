-------------------------- MODULE JsonlStoreProofs --------------------------
(***************************************************************************)
(* What holds of JsonlStore for any number of workers, processes, calls    *)
(* and crashes.                                                            *)
(***************************************************************************)
EXTENDS JsonlStore, SetLemmas

-----------------------------------------------------------------------------
(* The highest sequential number and the one after it.                      *)

(* NextNum is above every number in the file.                                *)
LEMMA NextNumFresh ==
  ASSUME NEW f \in File, IsFiniteSet(f.ok)
  PROVE  /\ NextNum(f) \in Nat
         /\ NextNum(f) > 0
         /\ \A r \in f.ok : r.num < NextNum(f)
<1> DEFINE S == {r.num : r \in f.ok} \cup {0}
<1>1. S \in SUBSET Nat /\ S # {}
  BY DEF File, Rec
<1>2. IsFiniteSet({r.num : r \in f.ok})
  <2> DEFINE g == [r \in f.ok |-> r.num]
  <2>1. g \in Surjection(f.ok, {r.num : r \in f.ok})
    BY DEF Surjection
  <2> HIDE DEF g
  <2> QED BY <2>1, FS_Surjection
<1>3. IsFiniteSet(S)
  BY <1>2, FS_AddElement
<1>4. Max(S) \in S /\ \A x \in S : x <= Max(S)
  BY <1>1, <1>3, MaxOfFinite
<1>5. NextNum(f) = 1 + Max(S)
  BY DEF NextNum
<1>6. \A r \in f.ok : r.num \in S
  OBVIOUS
<1>7. Max(S) \in Nat
  BY <1>1, <1>4
<1>8. \A r \in f.ok : r.num \in Nat /\ r.num <= Max(S)
  BY <1>1, <1>4, <1>6
<1> HIDE DEF S
<1> QED BY <1>5, <1>7, <1>8

-----------------------------------------------------------------------------
(* Files and sequences.                                                      *)

LEMMA RangeOfType ==
  ASSUME NEW b \in Seq(Rec)
  PROVE  RangeOf(b) \in SUBSET Rec /\ IsFiniteSet(RangeOf(b))
<1>1. RangeOf(b) \in SUBSET Rec
  BY DEF RangeOf
<1>2. b \in Surjection(1 .. Len(b), RangeOf(b))
  BY DEF Surjection, RangeOf
<1> QED BY <1>1, <1>2, FS_Surjection, FS_Interval

(* What TypeOK says of a file, and that its records are finitely many.       *)
SoundFile(f) == f \in File /\ IsFiniteSet(f.ok) /\ WellFormed(f)

LEMMA NoFileSound == SoundFile(NoFile)
BY FS_EmptySet DEF SoundFile, NoFile, File, WellFormed

LEMMA AppendedSound ==
  ASSUME NEW f, SoundFile(f), NEW b \in Seq(Rec), Len(b) > 0
  PROVE  SoundFile(Appended(f, b))
<1>1. RangeOf(b) \in SUBSET Rec /\ IsFiniteSet(RangeOf(b)) /\ b[1] \in Rec
  BY RangeOfType
<1>2. Appended(f, b) \in File
  BY <1>1 DEF Appended, SoundFile, File
<1>3. IsFiniteSet(f.ok \cup RangeOf(b))
  BY <1>1, FS_Union DEF SoundFile
<1>4. Appended(f, b).ok \subseteq f.ok \cup RangeOf(b)
  BY DEF Appended, SoundFile, File
<1>5. WellFormed(Appended(f, b))
  BY DEF Appended, SoundFile, File, WellFormed
<1> QED BY <1>2, <1>3, <1>4, <1>5, FS_Subset DEF SoundFile

LEMMA CutShortSound ==
  ASSUME NEW f, SoundFile(f), NEW b \in Seq(Rec), NEW c \in CutShorts(f, b)
  PROVE  SoundFile(c)
<1>1. PICK k \in 0 .. Len(b) - 1, whole \in BOOLEAN : c = CutShort(f, b, k, whole)
  BY DEF CutShorts
<1> DEFINE g == IF k = 0 THEN f ELSE Appended(f, SubSeq(b, 1, k))
<1>2. SoundFile(g)
  <2>1. CASE k = 0
    BY <2>1
  <2>2. CASE k # 0
    <3>1. SubSeq(b, 1, k) \in Seq(Rec) /\ Len(SubSeq(b, 1, k)) > 0
      BY <2>2
    <3> QED BY <3>1, <2>2, AppendedSound
  <2> QED BY <2>1, <2>2
<1>3. b[k + 1] \in Rec
  OBVIOUS
<1>4. c = IF g.torn
          THEN [ok |-> g.ok \ g.open, bad |-> g.bad \cup g.open, torn |-> TRUE, open |-> {}]
          ELSE [g EXCEPT !.ok   = IF whole THEN @ \cup {b[k + 1]} ELSE @,
                         !.torn = TRUE,
                         !.open = IF whole THEN {b[k + 1]} ELSE {}]
  BY <1>1 DEF CutShort
<1> HIDE DEF g
<1>5. c \in File
  BY <1>2, <1>3, <1>4 DEF SoundFile, File
<1>6. c.ok \subseteq g.ok \cup {b[k + 1]}
  BY <1>2, <1>4 DEF SoundFile, File
<1>7. IsFiniteSet(g.ok \cup {b[k + 1]})
  BY <1>2, FS_AddElement DEF SoundFile
<1>8. WellFormed(c)
  BY <1>2, <1>4 DEF SoundFile, File, WellFormed
<1> QED BY <1>5, <1>6, <1>7, <1>8, FS_Subset DEF SoundFile

LEMMA CompactedSound ==
  ASSUME NEW f, SoundFile(f), NEW drop
  PROVE  SoundFile(Compacted(f, drop))
<1>1. f.ok \ drop \in SUBSET f.ok
  OBVIOUS
<1>2. IsFiniteSet(f.ok \ drop)
  BY <1>1, FS_Subset DEF SoundFile
<1> QED BY <1>2 DEF Compacted, SoundFile, File, WellFormed

LEMMA TransformedSound ==
  ASSUME NEW f, SoundFile(f)
  PROVE  SoundFile(Transformed(f))
<1> DEFINE losers == {q \in f.ok : Loser(f, q)}
           renum == {[r EXCEPT !.num = 0] : r \in losers}
<1>1. IsFiniteSet(losers) /\ IsFiniteSet({r \in f.ok : ~Loser(f, r)})
  BY FS_Subset DEF SoundFile
<1>2. IsFiniteSet(renum)
  <2> DEFINE g == [r \in losers |-> [r EXCEPT !.num = 0]]
  <2>1. g \in Surjection(losers, renum)
    BY DEF Surjection
  <2> HIDE DEF g, losers, renum
  <2> QED BY <1>1, <2>1, FS_Surjection
<1>3. renum \subseteq Rec
  BY DEF SoundFile, File, Rec
<1>4. IsFiniteSet({r \in f.ok : ~Loser(f, r)} \cup renum)
  BY <1>1, <1>2, FS_Union
<1>5. Transformed(f).ok = {r \in f.ok : ~Loser(f, r)} \cup renum
  BY DEF Transformed
<1>6. Transformed(f) \in File
  BY <1>3 DEF Transformed, SoundFile, File
<1>7. WellFormed(Transformed(f))
  BY DEF Transformed, WellFormed
<1> QED BY <1>4, <1>5, <1>6, <1>7 DEF SoundFile
-----------------------------------------------------------------------------
(* Type correctness.  TypeOK is not inductive alone: that a minted number is *)
(* a number needs finitely many records, that a write has a file to go to    *)
(* needs the name to have one once a call is inside, and that a glued line   *)
(* has a first record needs a blob that is not empty.                        *)
TypeInv ==
  /\ TypeOK
  /\ \A i \in Inodes : SoundFile(files[i])
  /\ \A w \in Workers : SoundFile(seen[w])
  /\ \A w \in Workers : pc[w] \notin {"idle", "start"} => path \in Inodes
  /\ \A w \in Workers : pc[w] # "idle" /\ op[w] \in Appends => Len(blob[w]) > 0
  /\ \A w \in Workers : pc[w] = "writing" => op[w] \in Appends /\ wfd[w] \in Inodes

LEMMA InitType == Init => TypeInv
<1> SUFFICES ASSUME Init PROVE TypeInv
  OBVIOUS
<1> USE ConstantsAssumption
<1>1. SoundFile(NoFile)
  BY NoFileSound
<1>2. \A f \in SeedFiles : SoundFile(f)
  BY SeedAssumption DEF SoundFile, WellFormed
<1>3. \A i \in Inodes : SoundFile(files[i])
  BY <1>1, <1>2 DEF Init
<1>4. files \in [Inodes -> File]
  BY <1>3 DEF Init, SoundFile
<1>5. path \in Inodes \cup {NoInode}
  BY DEF Init
<1>6. \A w \in Workers : seen[w] = NoFile /\ pc[w] = "idle"
  BY DEF Init
<1>7. TypeOK
  <2>1. seen \in [Workers -> File] /\ blob \in [Workers -> Seq(Rec)]
    BY <1>1 DEF Init, SoundFile
  <2>2. /\ plock \in [Procs -> Workers \cup {NoWorker}]
        /\ fd \in [Workers -> Inodes \cup {NoInode}]
        /\ wfd \in [Workers -> Inodes \cup {NoInode}]
        /\ held \in [Workers -> {"no", "sh", "ex"}]
        /\ sentinel \in BOOLEAN
        /\ pc \in [Workers -> Control]
        /\ op \in [Workers -> Ops]
        /\ since \in [Workers -> SUBSET Rec]
    BY DEF Init, Control, Ops
  <2>3. /\ acked \subseteq Rec /\ dropped \subseteq Rec
        /\ calls \in 0 .. MaxCalls /\ crashes \in 0 .. MaxCrashes /\ tears \in 0 .. MaxTears
    BY DEF Init
  <2> QED BY <1>3, <1>4, <1>5, <2>1, <2>2, <2>3 DEF TypeOK, SoundFile
<1> QED BY <1>1, <1>3, <1>6, <1>7 DEF TypeInv

LEMMA TypeCall ==
  ASSUME TypeInv, NEW w \in Workers, NEW o \in Ops, Call(w, o)
  PROVE  TypeInv'
<1> USE ConstantsAssumption
<1>1. /\ calls' = calls + 1 /\ calls < MaxCalls /\ calls \in Nat
      /\ calls' \in 0 .. MaxCalls
  BY DEF Call, TypeInv, TypeOK
<1> DEFINE b == CASE o = "append"      -> <<NewRec(1, 0)>>
                  [] o = "append_many" -> <<NewRec(1, 0), NewRec(2, 0)>>
                  [] o = "append_with_generated_id" -> <<NewRec(1, 0)>>
                  [] OTHER -> << >>
<1>2. NewRec(1, 0) \in Rec /\ NewRec(2, 0) \in Rec
  BY <1>1 DEF NewRec, Rec
<1>3. b \in Seq(Rec) /\ (o \in Appends => Len(b) > 0)
  <2>1. CASE o = "append" \/ o = "append_with_generated_id"
    BY <1>2, <2>1
  <2>2. CASE o = "append_many"
    BY <1>2, <2>2
  <2>3. CASE o \notin Appends
    BY <2>3 DEF Appends
  <2> QED BY <2>1, <2>2, <2>3 DEF Appends
<1>4. blob' = [blob EXCEPT ![w] = b]
  BY DEF Call
<1> HIDE DEF b
<1>5. TypeOK'
  <2>1. /\ op' \in [Workers -> Ops]
        /\ since' \in [Workers -> SUBSET Rec]
        /\ pc' \in [Workers -> Control]
    BY DEF Call, TypeInv, TypeOK, Control
  <2>2. blob' \in [Workers -> Seq(Rec)]
    BY <1>3, <1>4 DEF TypeInv, TypeOK
  <2>3. UNCHANGED <<path, files, plock, fd, held, sentinel, seen, wfd, acked, dropped,
                    crashes, tears>>
    BY DEF Call, lockVars, histVars
  <2> QED BY <1>1, <2>1, <2>2, <2>3 DEF TypeInv, TypeOK
<1> QED
  BY <1>3, <1>4, <1>5 DEF Call, TypeInv, TypeOK, lockVars, histVars

LEMMA TypeEnter ==
  ASSUME TypeInv, NEW w \in Workers, Enter(w)
  PROVE  TypeInv'
<1> USE ConstantsAssumption
<1>1. /\ path' \in Inodes
      /\ fd' \in [Workers -> Inodes \cup {NoInode}]
      /\ \A i \in Inodes : files'[i] = files[i] \/ files'[i] = NoFile
      /\ files' \in [Inodes -> File]
  <2>1. NoFile \in File
    BY NoFileSound DEF SoundFile
  <2>2. CASE path = NoInode
    <3>1. PICK i \in Inodes : /\ path' = i
                              /\ files' = [files EXCEPT ![i] = NoFile]
                              /\ fd' = [fd EXCEPT ![w] = i]
      BY <2>2 DEF Enter
    <3> QED BY <2>1, <3>1 DEF TypeInv, TypeOK
  <2>3. CASE path # NoInode
    <3>1. path' = path /\ files' = files /\ fd' = [fd EXCEPT ![w] = path]
      BY <2>3 DEF Enter
    <3> QED BY <2>3, <3>1 DEF TypeInv, TypeOK
  <2> QED BY <2>2, <2>3
<1>2. \A i \in Inodes : SoundFile(files'[i])
  BY <1>1, NoFileSound DEF TypeInv
<1>3. TypeOK'
  BY <1>1, <1>2 DEF Enter, TypeInv, TypeOK, callVars, histVars, countVars, Control, SoundFile
<1> QED
  BY <1>1, <1>2, <1>3 DEF Enter, TypeInv, TypeOK, callVars, histVars, countVars

LEMMA TypeAcquire ==
  ASSUME TypeInv, NEW w \in Workers, Acquire(w)
  PROVE  TypeInv'
<1> USE ConstantsAssumption
<1>1. TypeOK'
  BY DEF Acquire, Flock, Sentinel, Unlockable, Mode, TypeInv, TypeOK, callVars, histVars,
         countVars, Control
<1> QED BY <1>1 DEF Acquire, TypeInv, TypeOK, callVars, histVars, countVars

LEMMA TypeLoad ==
  ASSUME TypeInv, NEW w \in Workers, Load(w)
  PROVE  TypeInv'
<1> USE ConstantsAssumption
<1>1. path \in Inodes /\ SoundFile(files[path])
  BY DEF Load, TypeInv
<1>2. /\ blob' \in [Workers -> Seq(Rec)]
      /\ \A v \in Workers : Len(blob'[v]) = Len(blob[v])  \/ Len(blob'[v]) > 0
  <2>1. CASE op[w] = "append_with_generated_id"
    <3>1. blob[w] \in Seq(Rec) /\ Len(blob[w]) > 0
      BY <2>1 DEF Load, TypeInv, TypeOK, Appends
    <3>2. blob[w][1] \in Rec
      BY <3>1
    <3>3. NextNum(files[path]) \in Nat
      BY <1>1, NextNumFresh DEF SoundFile
    <3>4. [blob[w][1] EXCEPT !.num = NextNum(files[path])] \in Rec
      BY <3>2, <3>3 DEF Rec
    <3>5. blob' = [blob EXCEPT ![w] = <<[blob[w][1] EXCEPT !.num = NextNum(files[path])]>>]
      BY <2>1 DEF Load
    <3> QED BY <3>4, <3>5 DEF TypeInv, TypeOK
  <2>2. CASE op[w] # "append_with_generated_id"
    BY <2>2 DEF Load, TypeInv, TypeOK
  <2> QED BY <2>1, <2>2
<1>3. TypeOK'
  BY <1>1, <1>2 DEF Load, TypeInv, TypeOK, lockVars, histVars, countVars, Control, SoundFile
<1> QED
  BY <1>1, <1>2, <1>3 DEF Load, TypeInv, TypeOK, lockVars, histVars, countVars

LEMMA TypeOpenAppend ==
  ASSUME TypeInv, NEW w \in Workers, OpenAppend(w)
  PROVE  TypeInv'
<1> USE ConstantsAssumption
<1>1. TypeOK'
  BY DEF OpenAppend, TypeInv, TypeOK, lockVars, histVars, countVars, Control
<1> QED
  BY <1>1 DEF OpenAppend, TypeInv, TypeOK, lockVars, histVars, countVars, Appends

LEMMA TypeWrite ==
  ASSUME TypeInv, NEW w \in Workers, Write(w)
  PROVE  TypeInv'
<1> USE ConstantsAssumption
<1>1. /\ wfd[w] \in Inodes /\ blob[w] \in Seq(Rec) /\ Len(blob[w]) > 0
      /\ SoundFile(files[wfd[w]])
  BY DEF Write, TypeInv, TypeOK
<1>2. SoundFile(Appended(files[wfd[w]], blob[w]))
  BY <1>1, AppendedSound
<1>3. files' \in [Inodes -> File] /\ \A i \in Inodes : SoundFile(files'[i])
  BY <1>2 DEF Write, TypeInv, TypeOK, SoundFile
<1>4. TypeOK'
  BY <1>3 DEF Write, TypeInv, TypeOK, lockVars, callVars, histVars, countVars, Control, SoundFile
<1> QED
  BY <1>3, <1>4 DEF Write, TypeInv, TypeOK, lockVars, callVars, histVars, countVars

LEMMA TypeWriteStopsShort ==
  ASSUME TypeInv, NEW w \in Workers, WriteStopsShort(w)
  PROVE  TypeInv'
<1> USE ConstantsAssumption
<1>1. /\ wfd[w] \in Inodes /\ blob[w] \in Seq(Rec)
      /\ SoundFile(files[wfd[w]])
  BY DEF WriteStopsShort, TypeInv, TypeOK
<1>2. PICK f \in CutShorts(files[wfd[w]], blob[w]) : files' = [files EXCEPT ![wfd[w]] = f]
  BY DEF WriteStopsShort
<1>3. SoundFile(f)
  BY <1>1, CutShortSound
<1>4. files' \in [Inodes -> File] /\ \A i \in Inodes : SoundFile(files'[i])
  BY <1>2, <1>3 DEF TypeInv, TypeOK, SoundFile
<1>5. tears' \in 0 .. MaxTears
  BY DEF WriteStopsShort, TypeInv, TypeOK
<1>6. TypeOK'
  BY <1>4, <1>5 DEF WriteStopsShort, TypeInv, TypeOK, lockVars, callVars, histVars, Control, SoundFile
<1> QED
  BY <1>4, <1>6 DEF WriteStopsShort, TypeInv, TypeOK, lockVars, callVars, histVars

(* What a rewrite does to the files, once its result is known to be sound.   *)
LEMMA TypeReplaceBy ==
  ASSUME TypeInv, NEW f, SoundFile(f), ReplaceBy(f)
  PROVE  /\ path' \in Inodes
         /\ files' \in [Inodes -> File]
         /\ \A i \in Inodes : SoundFile(files'[i])
BY DEF ReplaceBy, TypeInv, TypeOK, SoundFile

LEMMA TypeCompact ==
  ASSUME TypeInv, NEW w \in Workers, Compact(w)
  PROVE  TypeInv'
<1> USE ConstantsAssumption
<1>1. PICK drop \in SUBSET seen[w].ok : /\ ReplaceBy(Compacted(seen[w], drop))
                                        /\ dropped' = dropped \cup drop
  BY DEF Compact
<1>2. SoundFile(Compacted(seen[w], drop)) /\ drop \subseteq Rec
  BY CompactedSound DEF TypeInv, SoundFile, File
<1>3. /\ path' \in Inodes
      /\ files' \in [Inodes -> File]
      /\ \A i \in Inodes : SoundFile(files'[i])
  BY <1>1, <1>2, TypeReplaceBy
<1>4. TypeOK'
  BY <1>1, <1>2, <1>3 DEF Compact, TypeInv, TypeOK, lockVars, callVars, countVars, Control, SoundFile
<1> QED
  BY <1>3, <1>4 DEF Compact, TypeInv, TypeOK, lockVars, callVars, countVars

LEMMA TypeTransformAll ==
  ASSUME TypeInv, NEW w \in Workers, TransformAll(w)
  PROVE  TypeInv'
<1> USE ConstantsAssumption
<1>1. SoundFile(Transformed(seen[w]))
  BY TransformedSound DEF TypeInv
<1>2. /\ path' \in Inodes
      /\ files' \in [Inodes -> File]
      /\ \A i \in Inodes : SoundFile(files'[i])
  BY <1>1, TypeReplaceBy DEF TransformAll, TypeInv, TypeOK
<1>3. TypeOK'
  BY <1>2 DEF TransformAll, TypeInv, TypeOK, lockVars, callVars, histVars, countVars, Control, SoundFile
<1> QED
  BY <1>2, <1>3 DEF TransformAll, TypeInv, TypeOK, lockVars, callVars, histVars, countVars

LEMMA TypeRelease ==
  ASSUME TypeInv, NEW w \in Workers, Release(w)
  PROVE  TypeInv'
<1> USE ConstantsAssumption
<1>1. SoundFile(NoFile) /\ NoFile \in File
  BY NoFileSound DEF SoundFile
<1>2. RangeOf(blob[w]) \subseteq Rec
  BY RangeOfType DEF TypeInv, TypeOK
<1>3. << >> \in Seq(Rec)
  OBVIOUS
<1>4. TypeOK'
  BY <1>1, <1>2, <1>3 DEF Release, TypeInv, TypeOK, countVars, Control
<1> QED
  BY <1>1, <1>4 DEF Release, TypeInv, TypeOK, countVars
LEMMA TypeCrash ==
  ASSUME TypeInv, NEW p \in Procs, Crash(p)
  PROVE  TypeInv'
<1> USE ConstantsAssumption
<1>1. SoundFile(NoFile) /\ NoFile \in File /\ << >> \in Seq(Rec)
  BY NoFileSound DEF SoundFile
<1>2. \A w \in Workers :
        /\ pc[w] = "writing" =>
             /\ wfd[w] \in Inodes /\ blob[w] \in Seq(Rec) /\ Len(blob[w]) > 0
             /\ SoundFile(files[wfd[w]])
  BY DEF TypeInv, TypeOK
<1>3. /\ files' \in [Inodes -> File]
      /\ \A i \in Inodes : SoundFile(files'[i])
      /\ tears' \in 0 .. MaxTears
  <2>1. CASE UNCHANGED <<files, tears>>
    BY <2>1 DEF TypeInv, TypeOK
  <2>2. ASSUME NEW w \in Workers, pc[w] = "writing",
               files' = [files EXCEPT ![wfd[w]] = Appended(@, blob[w])], UNCHANGED tears
        PROVE  <1>3!:
    <3>1. SoundFile(Appended(files[wfd[w]], blob[w]))
      BY <1>2, <2>2, AppendedSound
    <3> QED BY <2>2, <3>1 DEF TypeInv, TypeOK, SoundFile
  <2>3. ASSUME NEW w \in Workers, pc[w] = "writing", tears < MaxTears, tears' = tears + 1,
               NEW f \in CutShorts(files[wfd[w]], blob[w]),
               files' = [files EXCEPT ![wfd[w]] = f]
        PROVE  <1>3!:
    <3>1. SoundFile(f)
      BY <1>2, <2>3, CutShortSound
    <3> QED BY <2>3, <3>1 DEF TypeInv, TypeOK, SoundFile
  <2> QED BY <2>1, <2>2, <2>3 DEF Crash, Killed
<1>4. TypeOK'
  BY <1>1, <1>3 DEF Crash, Killed, TypeInv, TypeOK, histVars, Control, SoundFile
<1> QED
  BY <1>1, <1>3, <1>4 DEF Crash, Killed, TypeInv, TypeOK, histVars

LEMMA TypeStep == TypeInv /\ [Next]_vars => TypeInv'
<1> SUFFICES ASSUME TypeInv, [Next]_vars PROVE TypeInv'
  OBVIOUS
<1>1. CASE UNCHANGED vars
  BY <1>1 DEF TypeInv, TypeOK, vars, lockVars, callVars, histVars, countVars
<1>2. CASE Exhausted
  BY <1>1, <1>2 DEF Exhausted
<1>3. ASSUME NEW w \in Workers, NEW o \in Ops, Call(w, o) PROVE TypeInv'
  BY <1>3, TypeCall
<1>4. ASSUME NEW w \in Workers, Step(w) PROVE TypeInv'
  BY <1>4, TypeEnter, TypeAcquire, TypeLoad, TypeOpenAppend, TypeWrite, TypeCompact,
     TypeTransformAll, TypeRelease DEF Step
<1>5. ASSUME NEW w \in Workers, WriteStopsShort(w) PROVE TypeInv'
  BY <1>5, TypeWriteStopsShort
<1>6. ASSUME NEW p \in Procs, Crash(p) PROVE TypeInv'
  BY <1>6, TypeCrash
<1> QED BY <1>1, <1>2, <1>3, <1>4, <1>5, <1>6 DEF Next

(* Every reachable state is well typed, and only a record on an unterminated *)
(* last line is open.                                                        *)
THEOREM TypeCorrect == Spec => []TypeOK
<1>1. TypeInv => TypeOK
  BY DEF TypeInv
<1> QED BY <1>1, InitType, TypeStep, PTL DEF Spec
-----------------------------------------------------------------------------
(* Mutual exclusion.  It holds when all workers are threads of one process,  *)
(* by the process lock; and between processes when flock works and nobody    *)
(* rewrites the file, for then the inode a call locks is the one that has    *)
(* the name.  (JsonlRepairMint shows what happens when one of several         *)
(* processes rewrites.)                                                      *)
OneProcessOnly == \A v, w \in Workers : ProcOf[v] = ProcOf[w]
NobodyRewrites == \A w \in Workers : OpsOf[w] \cap Rewrites = {}
Serialised == OneProcessOnly \/ (OsLock = "flock" /\ NobodyRewrites)

Busy(w) == pc[w] \notin {"idle", "start"}

LockInv ==
  /\ \A w \in Workers : Busy(w) => plock[ProcOf[w]] = w
  /\ \A w \in Workers : pc[w] # "idle" => op[w] \in OpsOf[w]
  /\ \A w \in Workers : ~Inside(w) => held[w] = "no"
  /\ OsLock = "flock" => \A w \in Workers : Inside(w) => held[w] = Mode(w)
  /\ OsLock = "flock" =>
       \A v, w \in Workers :
         v # w /\ held[v] # "no" /\ held[w] # "no" /\ fd[v] = fd[w]
           => held[v] = "sh" /\ held[w] = "sh"
  /\ NobodyRewrites => \A w \in Workers : Busy(w) => fd[w] = path

LEMMA InitLock == Init => LockInv
BY DEF Init, LockInv, Busy, Inside

LEMMA LockStep ==
  ASSUME TypeInv, LockInv, [Next]_vars
  PROVE  LockInv'
<1> USE ConstantsAssumption
<1>1. CASE UNCHANGED vars
  BY <1>1 DEF LockInv, vars, lockVars, callVars, Busy, Inside, Mode
<1>2. CASE Exhausted
  BY <1>1, <1>2 DEF Exhausted
<1>3. ASSUME NEW w \in Workers, NEW o \in Ops, Call(w, o) PROVE LockInv'
  BY <1>3 DEF Call, LockInv, TypeInv, TypeOK, lockVars, Busy, Inside, Mode
<1>4. ASSUME NEW w \in Workers, Enter(w) PROVE LockInv'
  <2>1. \A v \in Workers : ProcOf[v] = ProcOf[w] => ~Busy(v)
    BY <1>4 DEF Enter, LockInv
  <2>2. path' = path \/ path = NoInode
    BY <1>4 DEF Enter
  <2>3. path = NoInode => \A v \in Workers : ~Busy(v)
    BY DEF TypeInv, Busy
  <2>4. fd' = [fd EXCEPT ![w] = path']
    BY <1>4 DEF Enter
  <2>5. /\ plock' = [plock EXCEPT ![ProcOf[w]] = w]
        /\ pc' = [pc EXCEPT ![w] = "opened"] /\ pc[w] = "start"
        /\ UNCHANGED <<held, op>>
    BY <1>4 DEF Enter, callVars
  <2>6. \A v \in Workers : Busy(v)' => v = w \/ Busy(v)
    BY <2>5 DEF Busy, TypeInv, TypeOK
  <2>7. \A v \in Workers : Inside(v)' <=> Inside(v)
    BY <2>5 DEF Inside, TypeInv, TypeOK
  <2>8. \A v \in Workers : Busy(v)' => plock'[ProcOf[v]] = v
    BY <2>1, <2>5, <2>6 DEF LockInv, TypeInv, TypeOK
  <2>9. NobodyRewrites => \A v \in Workers : Busy(v)' => fd'[v] = path'
    BY <2>2, <2>3, <2>4, <2>6 DEF LockInv, TypeInv, TypeOK
  <2>10. held[w] = "no"
    BY <2>5 DEF LockInv, Inside
  <2> QED
    BY <2>4, <2>5, <2>7, <2>8, <2>9, <2>10 DEF LockInv, TypeInv, TypeOK, Mode
<1>5. ASSUME NEW w \in Workers, Acquire(w) PROVE LockInv'
  <2>1. /\ pc[w] = "opened" /\ pc' = [pc EXCEPT ![w] = "locked"]
        /\ UNCHANGED <<path, plock, fd, op>>
        /\ Flock(w) \/ Sentinel(w) \/ Unlockable(w)
    BY <1>5 DEF Acquire, callVars
  <2>2. /\ \A v \in Workers : Busy(v)' <=> Busy(v)
        /\ \A v \in Workers : Inside(v)' <=> v = w \/ Inside(v)
        /\ Busy(w)
    BY <2>1 DEF Busy, Inside, TypeInv, TypeOK
  <2>3. CASE OsLock = "flock"
    <3>1. /\ held' = [held EXCEPT ![w] = Mode(w)]
          /\ \A v \in Workers \ {w} :
               held[v] # "no" /\ fd[v] = fd[w] => Mode(w) = "sh" /\ held[v] = "sh"
      BY <2>1, <2>3 DEF Flock, Sentinel, Unlockable
    <3>2. \A u, v \in Workers :
            u # v /\ held'[u] # "no" /\ held'[v] # "no" /\ fd'[u] = fd'[v]
              => held'[u] = "sh" /\ held'[v] = "sh"
      BY <2>1, <2>3, <3>1 DEF LockInv, TypeInv, TypeOK
    <3> QED BY <2>1, <2>2, <2>3, <3>1, <3>2 DEF LockInv, TypeInv, TypeOK, Mode
  <2>4. CASE OsLock # "flock"
    <3>1. \A v \in Workers : v # w => held'[v] = held[v]
      BY <2>1, <2>4 DEF Flock, Sentinel, Unlockable, TypeInv, TypeOK
    <3> QED BY <2>1, <2>2, <2>4, <3>1 DEF LockInv, TypeInv, TypeOK, Mode
  <2> QED BY <2>3, <2>4
<1>6. ASSUME NEW w \in Workers, Load(w) \/ OpenAppend(w) \/ Write(w) \/ WriteStopsShort(w)
      PROVE  LockInv'
  <2>1. /\ UNCHANGED <<path, plock, fd, held, op>>
        /\ \E c \in {"loaded", "done", "writing", "failed"} : pc' = [pc EXCEPT ![w] = c]
        /\ Inside(w)
    BY <1>6 DEF Load, OpenAppend, Write, WriteStopsShort, lockVars, callVars, Inside
  <2> QED BY <2>1 DEF LockInv, TypeInv, TypeOK, Busy, Inside, Mode
<1>7. ASSUME NEW w \in Workers, Compact(w) \/ TransformAll(w) PROVE LockInv'
  <2>1. ~NobodyRewrites
    BY <1>7 DEF Compact, TransformAll, LockInv, NobodyRewrites, Rewrites
  <2>2. /\ UNCHANGED <<plock, fd, held, op>>
        /\ pc' = [pc EXCEPT ![w] = "done"] /\ pc[w] = "loaded"
    BY <1>7 DEF Compact, TransformAll, lockVars, callVars
  <2> QED BY <2>1, <2>2 DEF LockInv, TypeInv, TypeOK, Busy, Inside, Mode
<1>8. ASSUME NEW w \in Workers, Release(w) PROVE LockInv'
  <2>1. /\ plock[ProcOf[w]] = w
        /\ \A v \in Workers : v # w /\ ProcOf[v] = ProcOf[w] => ~Busy(v)
    BY <1>8 DEF Release, LockInv, Busy
  <2>2. /\ held' = [held EXCEPT ![w] = "no"]
        /\ plock' = [plock EXCEPT ![ProcOf[w]] = NoWorker]
        /\ fd' = [fd EXCEPT ![w] = NoInode]
        /\ pc' = [pc EXCEPT ![w] = "idle"]
        /\ UNCHANGED <<path, op>>
    BY <1>8 DEF Release
  <2> QED BY <2>1, <2>2 DEF LockInv, TypeInv, TypeOK, Busy, Inside, Mode
<1>9. ASSUME NEW p \in Procs, Crash(p) PROVE LockInv'
  <2>1. /\ pc' = [v \in Workers |-> IF ProcOf[v] = p THEN "idle" ELSE pc[v]]
        /\ held' = [v \in Workers |-> IF ProcOf[v] = p THEN "no" ELSE held[v]]
        /\ fd' = [v \in Workers |-> IF ProcOf[v] = p THEN NoInode ELSE fd[v]]
        /\ plock' = [plock EXCEPT ![p] = NoWorker]
        /\ UNCHANGED <<path, op>>
    BY <1>9 DEF Crash, Killed
  <2> QED BY <2>1 DEF LockInv, TypeInv, TypeOK, Busy, Inside, Mode
<1> QED BY <1>1, <1>2, <1>3, <1>4, <1>5, <1>6, <1>7, <1>8, <1>9 DEF Next, Step

LEMMA LockExcludes ==
  ASSUME Serialised, LockInv
  PROVE  MutualExclusion
<1> SUFFICES ASSUME NEW v \in Workers, NEW w \in Workers, v # w, Inside(v), Inside(w)
             PROVE  op[v] = "read_all" /\ op[w] = "read_all"
  BY DEF MutualExclusion
<1>1. Busy(v) /\ Busy(w)
  BY DEF Busy, Inside
<1>2. CASE OneProcessOnly
  BY <1>1, <1>2 DEF OneProcessOnly, LockInv
<1>3. CASE OsLock = "flock" /\ NobodyRewrites
  BY <1>1, <1>3 DEF LockInv, Mode
<1> QED BY <1>2, <1>3 DEF Serialised

(* A writer that is inside is alone inside.                                  *)
THEOREM Exclusion ==
  ASSUME Serialised
  PROVE  Spec => []MutualExclusion
<1>1. Init => TypeInv /\ LockInv
  BY InitType, InitLock
<1>2. TypeInv /\ LockInv /\ [Next]_vars => TypeInv' /\ LockInv'
  BY TypeStep, LockStep
<1>3. LockInv => MutualExclusion
  BY LockExcludes
<1> QED BY <1>1, <1>2, <1>3, PTL DEF Spec
-----------------------------------------------------------------------------
(* What a call knows at each step of its body.  A rewriter's and an           *)
(* allocator's snapshot is the file, the number minted is above every number  *)
(* in the file, and a write goes to the inode that has the name: whether or   *)
(* not writes stop half way.                                                 *)

Fresh(b, f) == b.num > 0 => \A r \in f.ok : r.num < b.num

(* A blob's records are new; only append_with_generated_id gives one a       *)
(* number, and its blob is that one record.                                  *)
BlobInv(w) ==
  /\ \A b \in RangeOf(blob[w]) : b.call > 0
  /\ \A b, c \in RangeOf(blob[w]) : b.num = c.num /\ b.num > 0 => b = c
  /\ op[w] = "append_with_generated_id" => Len(blob[w]) = 1

CoreInv ==
  /\ \A w \in Workers : pc[w] = "loaded" => seen[w] = files[path]
  /\ \A w \in Workers : pc[w] = "writing" => wfd[w] = path
  /\ \A w \in Workers : pc[w] # "idle" => BlobInv(w)
  /\ \A w \in Workers :
       pc[w] \in {"start", "opened", "locked"} => \A b \in RangeOf(blob[w]) : b.num = 0
  /\ \A w \in Workers :
       pc[w] \in {"loaded", "writing"} => \A b \in RangeOf(blob[w]) : Fresh(b, files[path])
  /\ \A w \in Workers : op[w] \notin Appends => blob[w] = << >>
  /\ LiveIdsDistinct

LEMMA InitCore == Init => CoreInv
<1> SUFFICES ASSUME Init PROVE CoreInv
  OBVIOUS
<1> USE ConstantsAssumption
<1>1. \A w \in Workers : pc[w] = "idle" /\ blob[w] = << >>
  BY DEF Init
<1>2. \A i \in Inodes : files[i] = NoFile \/ files[i] \in SeedFiles
  BY DEF Init
<1>3. \A i \in Inodes : \A r \in files[i].ok : r.call = 0
  BY <1>2, SeedAssumption DEF NoFile
<1>4. path \in Inodes \cup {NoInode}
  BY DEF Init
<1>5. \A r \in Readable : r.call = 0
  BY <1>3, <1>4 DEF Readable, Current, NoFile
<1> QED BY <1>1, <1>5 DEF CoreInv, LiveIdsDistinct

(* Nobody is inside with a writer.                                           *)
LEMMA Alone ==
  ASSUME Serialised, LockInv, NEW w \in Workers, Inside(w), op[w] # "read_all",
         NEW v \in Workers, v # w
  PROVE  ~Inside(v)
BY LockExcludes DEF MutualExclusion

(* What a call is given to write.                                            *)
LEMMA CallBlob ==
  ASSUME TypeInv, NEW w \in Workers, NEW o \in Ops, Call(w, o)
  PROVE  /\ \A v \in Workers : v # w => blob'[v] = blob[v]
         /\ \A b \in RangeOf(blob'[w]) : b.call = calls + 1 /\ b.num = 0
         /\ o = "append_with_generated_id" => Len(blob'[w]) = 1
         /\ o \notin Appends => blob'[w] = << >>
<1>1. \A v \in Workers : v # w => blob'[v] = blob[v]
  BY DEF Call, TypeInv, TypeOK
<1>2. CASE o = "append" \/ o = "append_with_generated_id"
  <2>1. blob'[w] = <<NewRec(1, 0)>>
    BY <1>2 DEF Call, TypeInv, TypeOK
  <2> QED BY <1>1, <1>2, <2>1 DEF RangeOf, NewRec, Appends
<1>3. CASE o = "append_many"
  <2>1. blob'[w] = <<NewRec(1, 0), NewRec(2, 0)>>
    BY <1>3 DEF Call, TypeInv, TypeOK
  <2> QED BY <1>1, <1>3, <2>1 DEF RangeOf, NewRec, Appends
<1>4. CASE o \notin Appends
  <2>1. blob'[w] = << >>
    BY <1>4 DEF Call, TypeInv, TypeOK, Appends
  <2> QED BY <1>1, <1>4, <2>1 DEF RangeOf, Appends
<1> QED BY <1>2, <1>3, <1>4 DEF Appends

LEMMA CoreCall ==
  ASSUME TypeInv, CoreInv, NEW w \in Workers, NEW o \in Ops, Call(w, o)
  PROVE  CoreInv'
<1> USE ConstantsAssumption
<1>1. /\ pc[w] = "idle" /\ pc' \in [Workers -> Control]
      /\ pc'[w] \in {"idle", "start"} /\ \A v \in Workers : v # w => pc'[v] = pc[v]
      /\ op' = [op EXCEPT ![w] = o]
      /\ UNCHANGED <<path, files, seen, wfd>>
  BY DEF Call, TypeInv, TypeOK, Control
<1>2. /\ \A v \in Workers : v # w => blob'[v] = blob[v]
      /\ \A b \in RangeOf(blob'[w]) : b.call > 0 /\ b.num = 0
      /\ o = "append_with_generated_id" => Len(blob'[w]) = 1
      /\ o \notin Appends => blob'[w] = << >>
  BY CallBlob DEF TypeInv, TypeOK
<1>3. LiveIdsDistinct'
  BY <1>1 DEF CoreInv, LiveIdsDistinct, Readable, Current
<1>4. \A v \in Workers : pc'[v] # "idle" => BlobInv(v)'
  BY <1>1, <1>2 DEF CoreInv, BlobInv, TypeInv, TypeOK
<1> QED BY <1>1, <1>2, <1>3, <1>4 DEF CoreInv, Fresh, TypeInv, TypeOK

(* The first open of a file that is not there creates it.                    *)
LEMMA EnterCurrent ==
  ASSUME TypeInv, NEW w \in Workers, Enter(w)
  PROVE  /\ Current' = Current
         /\ UNCHANGED <<path, files>> \/ \A v \in Workers : pc[v] \in {"idle", "start"}
<1> USE ConstantsAssumption
<1>1. CASE path # NoInode
  BY <1>1 DEF Enter, Current
<1>2. CASE path = NoInode
  <2>1. PICK i \in Inodes : path' = i /\ files' = [files EXCEPT ![i] = NoFile]
    BY <1>2 DEF Enter
  <2>2. Current = NoFile /\ Current' = NoFile
    BY <1>2, <2>1 DEF Current, TypeInv, TypeOK
  <2> QED BY <1>2, <2>2 DEF TypeInv
<1> QED BY <1>1, <1>2

LEMMA CoreEnter ==
  ASSUME TypeInv, CoreInv, NEW w \in Workers, Enter(w)
  PROVE  CoreInv'
<1>1. /\ pc[w] = "start" /\ pc' = [pc EXCEPT ![w] = "opened"]
      /\ UNCHANGED <<op, seen, wfd, blob>>
  BY DEF Enter, callVars
<1>2. LiveIdsDistinct'
  BY EnterCurrent DEF CoreInv, LiveIdsDistinct, Readable
<1>3. CASE UNCHANGED <<path, files>>
  BY <1>1, <1>2, <1>3 DEF CoreInv, TypeInv, TypeOK, BlobInv, Fresh
<1>4. CASE \A v \in Workers : pc[v] \in {"idle", "start"}
  BY <1>1, <1>2, <1>4 DEF CoreInv, TypeInv, TypeOK, BlobInv, Fresh
<1> QED BY <1>3, <1>4, EnterCurrent

LEMMA CoreAcquire ==
  ASSUME TypeInv, CoreInv, NEW w \in Workers, Acquire(w)
  PROVE  CoreInv'
<1>1. /\ pc[w] = "opened" /\ pc' = [pc EXCEPT ![w] = "locked"]
      /\ UNCHANGED <<path, files, op, seen, wfd, blob>>
  BY DEF Acquire, callVars
<1> QED BY <1>1 DEF CoreInv, LiveIdsDistinct, Readable, Current, TypeInv, TypeOK, BlobInv, Fresh

LEMMA CoreLoad ==
  ASSUME TypeInv, CoreInv, NEW w \in Workers, Load(w)
  PROVE  /\ CoreInv'
         /\ \A v \in Workers : \A b \in RangeOf(blob'[v]) :
              \E c \in RangeOf(blob[v]) : c.call = b.call
         /\ op[w] \notin Appends => blob'[w] = << >>
<1> USE ConstantsAssumption
<1>1. /\ pc[w] = "locked"
      /\ pc' = [pc EXCEPT ![w] = IF op[w] = "read_all" THEN "done" ELSE "loaded"]
      /\ seen' = [seen EXCEPT ![w] = files[path]]
      /\ UNCHANGED <<path, files, op, wfd>>
      /\ op[w] \in {"read_all", "append_with_generated_id"} \cup Rewrites
  BY DEF Load
<1>2. path \in Inodes /\ SoundFile(files[path])
  BY <1>1 DEF TypeInv
<1>3. \A v \in Workers : v # w => blob'[v] = blob[v]
  BY DEF Load, TypeInv, TypeOK
<1>4. /\ BlobInv(w)'
      /\ \A b \in RangeOf(blob'[w]) : Fresh(b, files[path])
      /\ \A b \in RangeOf(blob'[w]) : \E c \in RangeOf(blob[w]) : c.call = b.call
      /\ op[w] \notin Appends => blob'[w] = << >>
  <2>1. CASE op[w] = "append_with_generated_id"
    <3>1. Len(blob[w]) = 1 /\ blob[w] \in Seq(Rec)
      BY <1>1, <2>1 DEF CoreInv, BlobInv, TypeInv, TypeOK
    <3>2. blob[w][1] \in Rec /\ blob[w][1] \in RangeOf(blob[w])
      BY <3>1 DEF RangeOf
    <3>3. blob[w][1].call > 0
      BY <1>1, <3>2 DEF CoreInv, BlobInv
    <3> DEFINE r == [blob[w][1] EXCEPT !.num = NextNum(files[path])]
    <3>4. blob'[w] = <<r>>
      BY <2>1 DEF Load, TypeInv, TypeOK
    <3>5. r.call = blob[w][1].call /\ r.num = NextNum(files[path])
      BY <3>2 DEF Rec
    <3>6. \A q \in files[path].ok : q.num < r.num
      BY <3>5, <1>2, NextNumFresh DEF SoundFile
    <3> HIDE DEF r
    <3>7. RangeOf(blob'[w]) = {r} /\ Len(blob'[w]) = 1
      BY <3>4 DEF RangeOf
    <3> QED BY <3>2, <3>3, <3>5, <3>6, <3>7, <2>1, <1>1 DEF BlobInv, Fresh, Appends
  <2>2. CASE op[w] # "append_with_generated_id"
    <3>1. blob'[w] = blob[w] /\ op[w] \notin Appends
      BY <1>1, <2>2 DEF Load, TypeInv, TypeOK, Appends, Rewrites
    <3>2. blob[w] = << >>
      BY <3>1 DEF CoreInv
    <3> QED BY <1>1, <2>2, <3>1, <3>2 DEF BlobInv, RangeOf
  <2> QED BY <2>1, <2>2
<1>5. LiveIdsDistinct'
  BY <1>1 DEF CoreInv, LiveIdsDistinct, Readable, Current
<1>6. \A v \in Workers : pc'[v] # "idle" => BlobInv(v)'
  BY <1>1, <1>3, <1>4 DEF CoreInv, BlobInv, TypeInv, TypeOK
<1>7. CoreInv'
  BY <1>1, <1>3, <1>4, <1>5, <1>6 DEF CoreInv, TypeInv, TypeOK
<1>8. ASSUME NEW v \in Workers, NEW b \in RangeOf(blob'[v])
      PROVE  \E c \in RangeOf(blob[v]) : c.call = b.call
  BY <1>3, <1>4, <1>8
<1> QED BY <1>4, <1>7, <1>8

LEMMA CoreOpenAppend ==
  ASSUME TypeInv, CoreInv, NEW w \in Workers, OpenAppend(w)
  PROVE  CoreInv'
<1>1. /\ pc[w] \in {"locked", "loaded"} /\ pc' = [pc EXCEPT ![w] = "writing"]
      /\ wfd' = [wfd EXCEPT ![w] = path]
      /\ UNCHANGED <<path, files, op, seen, blob>>
  BY DEF OpenAppend
<1>2. LiveIdsDistinct'
  BY <1>1 DEF CoreInv, LiveIdsDistinct, Readable, Current
<1>3. \A b \in RangeOf(blob[w]) : Fresh(b, files[path])
  BY <1>1 DEF CoreInv, Fresh
<1>4. \A v \in Workers : pc'[v] # "idle" => BlobInv(v)'
  BY <1>1 DEF CoreInv, BlobInv, TypeInv, TypeOK
<1> QED BY <1>1, <1>2, <1>3, <1>4 DEF CoreInv, TypeInv, TypeOK, Fresh

-----------------------------------------------------------------------------
(* What a write, whole or cut short, leaves in the file.                     *)

(* Of the file, all but an open record; of the blob, some; and an open record *)
(* is the blob's.                                                            *)
Spilt(f, b, g) ==
  /\ f.ok \ f.open \subseteq g.ok
  /\ g.ok \subseteq f.ok \cup RangeOf(b)
  /\ g.open \subseteq RangeOf(b)

(* A whole write costs the first record of its blob, if the file was torn.    *)
LEMMA AppendedSpills ==
  ASSUME NEW f, SoundFile(f), NEW b \in Seq(Rec), Len(b) > 0
  PROVE  /\ Spilt(f, b, Appended(f, b))
         /\ Appended(f, b).open = {} /\ ~Appended(f, b).torn
         /\ RangeOf(b) \ {b[1]} \subseteq Appended(f, b).ok
         /\ ~f.torn => Appended(f, b).ok = f.ok \cup RangeOf(b)
BY DEF Spilt, Appended, SoundFile, File, WellFormed, RangeOf

LEMMA CutShortSpills ==
  ASSUME NEW f, SoundFile(f), NEW b \in Seq(Rec), NEW c \in CutShorts(f, b)
  PROVE  Spilt(f, b, c)
<1>1. PICK k \in 0 .. Len(b) - 1, whole \in BOOLEAN : c = CutShort(f, b, k, whole)
  BY DEF CutShorts
<1> DEFINE g == IF k = 0 THEN f ELSE Appended(f, SubSeq(b, 1, k))
<1>2. SoundFile(g) /\ f.ok \ f.open \subseteq g.ok /\ g.ok \subseteq f.ok \cup RangeOf(b)
      /\ (g.torn => g = f)
  <2>1. CASE k = 0
    BY <2>1
  <2>2. CASE k # 0
    <3>1. SubSeq(b, 1, k) \in Seq(Rec) /\ Len(SubSeq(b, 1, k)) > 0
      BY <2>2
    <3>2. RangeOf(SubSeq(b, 1, k)) \subseteq RangeOf(b)
      BY <2>2 DEF RangeOf
    <3> QED BY <3>1, <3>2, <2>2, AppendedSound, AppendedSpills DEF Spilt
  <2> QED BY <2>1, <2>2
<1>3. b[k + 1] \in RangeOf(b)
  BY DEF RangeOf
<1>4. c = IF g.torn
          THEN [ok |-> g.ok \ g.open, bad |-> g.bad \cup g.open, torn |-> TRUE, open |-> {}]
          ELSE [g EXCEPT !.ok   = IF whole THEN @ \cup {b[k + 1]} ELSE @,
                         !.torn = TRUE,
                         !.open = IF whole THEN {b[k + 1]} ELSE {}]
  BY <1>1 DEF CutShort
<1> HIDE DEF g
<1>5. CASE g.torn
  BY <1>2, <1>4, <1>5 DEF Spilt
<1>6. CASE ~g.torn
  BY <1>2, <1>3, <1>4, <1>6 DEF Spilt, SoundFile, File
<1> QED BY <1>5, <1>6

(* A blob of new records with new numbers, or part of it, joins a file.      *)
LEMMA SpiltDistinct ==
  ASSUME NEW f \in File, NEW b \in Seq(Rec), NEW g, Spilt(f, b, g),
         \A r, s \in f.ok : r # s /\ r.num = s.num /\ r.num > 0 => r.call = 0 /\ s.call = 0,
         \A r, s \in RangeOf(b) : r.num = s.num /\ r.num > 0 => r = s,
         \A r \in RangeOf(b) : Fresh(r, f)
  PROVE  \A r, s \in g.ok : r # s /\ r.num = s.num /\ r.num > 0 => r.call = 0 /\ s.call = 0
<1>1. \A r \in f.ok \cup RangeOf(b) : r.num \in Nat
  BY RangeOfType DEF File, Rec
<1>2. \A r \in RangeOf(b), s \in f.ok : r.num > 0 => r.num # s.num
  BY <1>1 DEF Fresh
<1> QED BY <1>1, <1>2 DEF Spilt

(* While a writer writes, the name has its inode and nobody else is inside.   *)
LEMMA Writing ==
  ASSUME Serialised, TypeInv, LockInv, CoreInv, NEW w \in Workers, pc[w] = "writing"
  PROVE  /\ wfd[w] = path /\ path \in Inodes /\ Current = files[path]
         /\ SoundFile(files[path]) /\ files[path] \in File
         /\ blob[w] \in Seq(Rec) /\ Len(blob[w]) > 0
         /\ op[w] \in Appends
         /\ \A v \in Workers : v # w => ~Inside(v)
<1> USE ConstantsAssumption
<1>1. /\ wfd[w] = path /\ path \in Inodes /\ SoundFile(files[path])
      /\ blob[w] \in Seq(Rec) /\ Len(blob[w]) > 0 /\ op[w] \in Appends
  BY DEF TypeInv, TypeOK, CoreInv
<1>2. \A v \in Workers : v # w => ~Inside(v)
  BY <1>1, Alone DEF Inside, Appends
<1> QED BY <1>1, <1>2 DEF Current, SoundFile

LEMMA SpiltCore ==
  ASSUME Serialised, TypeInv, LockInv, CoreInv, NEW w \in Workers, pc[w] = "writing",
         NEW g, Spilt(files[path], blob[w], g), files' = [files EXCEPT ![path] = g], path' = path
  PROVE  Current' = g /\ LiveIdsDistinct'
<1>1. Current = files[path] /\ files[path] \in File /\ blob[w] \in Seq(Rec) /\ path \in Inodes
  BY Writing
<1>2. Current' = g
  BY <1>1, ConstantsAssumption DEF Current, TypeInv, TypeOK
<1>3. /\ \A r, s \in RangeOf(blob[w]) : r.num = s.num /\ r.num > 0 => r = s
      /\ \A r \in RangeOf(blob[w]) : Fresh(r, files[path])
  BY DEF CoreInv, BlobInv
<1>4. \A r, s \in files[path].ok :
        r # s /\ r.num = s.num /\ r.num > 0 => r.call = 0 /\ s.call = 0
  BY <1>1 DEF CoreInv, LiveIdsDistinct, Readable
<1>5. \A r, s \in g.ok : r # s /\ r.num = s.num /\ r.num > 0 => r.call = 0 /\ s.call = 0
  BY <1>1, <1>3, <1>4, SpiltDistinct
<1> QED BY <1>2, <1>5 DEF LiveIdsDistinct, Readable

(* Both ends of a write.                                                     *)
LEMMA WriteSpills ==
  ASSUME Serialised, TypeInv, LockInv, CoreInv, NEW w \in Workers,
         Write(w) \/ WriteStopsShort(w)
  PROVE  /\ pc[w] = "writing" /\ path' = path
         /\ \E c \in {"done", "failed"} : pc' = [pc EXCEPT ![w] = c]
         /\ UNCHANGED <<op, seen, wfd, blob, since, acked, dropped, calls>>
         /\ Write(w) =>
              /\ tears' = tears /\ pc'[w] = "done"
              /\ files' = [files EXCEPT ![path] = Appended(files[path], blob[w])]
         /\ WriteStopsShort(w) =>
              /\ tears' = tears + 1 /\ pc'[w] = "failed"
         /\ \E g : Spilt(files[path], blob[w], g) /\ files' = [files EXCEPT ![path] = g]
<1>1. /\ pc[w] = "writing" /\ path' = path
      /\ UNCHANGED <<op, seen, wfd, blob, since, acked, dropped, calls>>
  BY DEF Write, WriteStopsShort, callVars, histVars, countVars
<1>2. wfd[w] = path /\ SoundFile(files[path]) /\ blob[w] \in Seq(Rec) /\ Len(blob[w]) > 0
  BY <1>1, Writing
<1>3. CASE Write(w)
  <2>1. /\ tears' = tears /\ pc' = [pc EXCEPT ![w] = "done"] /\ pc'[w] = "done"
        /\ files' = [files EXCEPT ![path] = Appended(files[path], blob[w])]
    BY <1>2, <1>3 DEF Write, countVars, TypeInv, TypeOK
  <2>2. ~WriteStopsShort(w)
    BY <2>1 DEF WriteStopsShort, TypeInv, TypeOK
  <2> QED BY <1>1, <1>2, <2>1, <2>2, AppendedSpills
<1>4. CASE WriteStopsShort(w)
  <2>1. /\ tears' = tears + 1 /\ pc' = [pc EXCEPT ![w] = "failed"] /\ pc'[w] = "failed"
    BY <1>4 DEF WriteStopsShort, TypeInv, TypeOK
  <2>2. PICK g \in CutShorts(files[path], blob[w]) : files' = [files EXCEPT ![path] = g]
    BY <1>2, <1>4 DEF WriteStopsShort
  <2>3. ~Write(w)
    BY <2>1 DEF Write, TypeInv, TypeOK
  <2> QED BY <1>1, <1>2, <2>1, <2>2, <2>3, CutShortSpills
<1> QED BY <1>3, <1>4

LEMMA CoreWrite ==
  ASSUME Serialised, TypeInv, LockInv, CoreInv, NEW w \in Workers,
         Write(w) \/ WriteStopsShort(w)
  PROVE  CoreInv'
<1>1. PICK g : Spilt(files[path], blob[w], g) /\ files' = [files EXCEPT ![path] = g]
  BY WriteSpills
<1>2. /\ pc[w] = "writing" /\ path' = path
      /\ \E c \in {"done", "failed"} : pc' = [pc EXCEPT ![w] = c]
      /\ UNCHANGED <<op, seen, wfd, blob>>
  BY WriteSpills
<1>3. LiveIdsDistinct'
  BY <1>1, <1>2, SpiltCore
<1>4. \A v \in Workers : v # w => ~Inside(v)
  BY <1>2, Writing
<1>5. \A v \in Workers : pc'[v] # "idle" => BlobInv(v)'
  BY <1>2 DEF CoreInv, BlobInv, TypeInv, TypeOK
<1> QED BY <1>2, <1>3, <1>4, <1>5 DEF CoreInv, TypeInv, TypeOK, Inside

LEMMA CoreCompact ==
  ASSUME Serialised, TypeInv, LockInv, CoreInv, NEW w \in Workers, Compact(w)
  PROVE  /\ CoreInv'
         /\ ~Current'.torn /\ Current'.open = {}
         /\ Readable \cup dropped \subseteq Readable' \cup dropped'
<1> USE ConstantsAssumption
<1>1. /\ pc[w] = "loaded" /\ pc' = [pc EXCEPT ![w] = "done"] /\ op[w] = "compact"
      /\ UNCHANGED <<op, seen, wfd, blob>>
      /\ seen[w] = files[path]
  BY DEF Compact, callVars, CoreInv
<1>2. PICK drop \in SUBSET seen[w].ok, i \in Inodes :
        /\ path' = i
        /\ files' = [files EXCEPT ![i] = Compacted(seen[w], drop)]
        /\ dropped' = dropped \cup drop
  BY DEF Compact, ReplaceBy
<1>3. path \in Inodes
  BY <1>1 DEF TypeInv
<1>4. \A v \in Workers : v # w => ~Inside(v)
  BY <1>1, Alone DEF Inside
<1>5. /\ Current = files[path] /\ Current'.ok = files[path].ok \ drop
      /\ ~Current'.torn /\ Current'.open = {}
  BY <1>1, <1>2, <1>3 DEF Current, Compacted, TypeInv, TypeOK
<1>6. LiveIdsDistinct'
  BY <1>5 DEF LiveIdsDistinct, Readable, CoreInv
<1>7. \A v \in Workers : pc'[v] # "idle" => BlobInv(v)'
  BY <1>1 DEF CoreInv, BlobInv, TypeInv, TypeOK
<1>8. CoreInv'
  BY <1>1, <1>4, <1>6, <1>7 DEF CoreInv, TypeInv, TypeOK, Inside, Appends
<1> QED BY <1>2, <1>5, <1>8 DEF Readable

(* The repair renumbers no record that a call wrote: those share no number.   *)
LEMMA CoreTransformAll ==
  ASSUME Serialised, TypeInv, LockInv, CoreInv, NEW w \in Workers, TransformAll(w)
  PROVE  /\ CoreInv'
         /\ UNCHANGED Current \/ (~Current'.torn /\ Current'.open = {})
         /\ \A r \in Readable : r.call > 0 => r \in Readable'
<1> USE ConstantsAssumption
<1>1. /\ pc[w] = "loaded" /\ pc' = [pc EXCEPT ![w] = "done"] /\ op[w] = "transform_all"
      /\ UNCHANGED <<op, seen, wfd, blob>>
      /\ seen[w] = files[path]
  BY DEF TransformAll, callVars, CoreInv
<1>2. path \in Inodes /\ files[path] \in File
  BY <1>1 DEF TypeInv, TypeOK
<1>3. \A v \in Workers : v # w => ~Inside(v)
  BY <1>1, Alone DEF Inside
<1>4. Current = files[path]
  BY <1>2 DEF Current
<1>5. /\ LiveIdsDistinct'
      /\ UNCHANGED Current \/ (~Current'.torn /\ Current'.open = {})
      /\ \A r \in Readable : r.call > 0 => r \in Readable'
  <2>1. CASE UNCHANGED <<path, files>>
    BY <2>1 DEF CoreInv, LiveIdsDistinct, Readable, Current
  <2>2. CASE ReplaceBy(Transformed(seen[w]))
    <3>1. PICK i \in Inodes : path' = i /\ files' = [files EXCEPT ![i] = Transformed(files[path])]
      BY <1>1, <2>2 DEF ReplaceBy
    <3> DEFINE f == files[path]
               g == Transformed(f)
    <3>2. Current' = g
      BY <3>1 DEF Current, TypeInv, TypeOK
    <3>3. \A r \in f.ok : r.call > 0 => ~Loser(f, r)
      <4> SUFFICES ASSUME NEW r \in f.ok, r.call > 0, Loser(f, r) PROVE FALSE
        OBVIOUS
      <4>1. PICK s \in f.ok : /\ s.num = r.num /\ r.num > 0
                              /\ s.call < r.call \/ (s.call = r.call /\ s.part < r.part)
        BY DEF Loser
      <4>2. r \in Rec /\ s \in Rec
        BY <1>2 DEF File
      <4>3. r # s
        BY <4>1, <4>2 DEF Rec
      <4>4. r.call = 0
        BY <1>4, <4>1, <4>3 DEF CoreInv, LiveIdsDistinct, Readable
      <4> QED BY <4>2, <4>4 DEF Rec
    <3>4. \A r \in g.ok : r.num > 0 => r \in f.ok
      BY <1>2 DEF Transformed, File, Rec
    <3>5. \A r \in f.ok : r.call > 0 => r \in g.ok
      BY <3>3 DEF Transformed
    <3>6. ~g.torn /\ g.open = {}
      BY DEF Transformed
    <3> HIDE DEF g, f
    <3>7. LiveIdsDistinct'
      BY <1>4, <3>2, <3>4 DEF CoreInv, LiveIdsDistinct, Readable, f
    <3> QED BY <1>4, <3>2, <3>5, <3>6, <3>7 DEF Readable, f
  <2> QED BY <1>1, <2>1, <2>2 DEF TransformAll
<1>6. \A v \in Workers : pc'[v] # "idle" => BlobInv(v)'
  BY <1>1 DEF CoreInv, BlobInv, TypeInv, TypeOK
<1>7. CoreInv'
  BY <1>1, <1>3, <1>5, <1>6 DEF CoreInv, TypeInv, TypeOK, Inside, Appends
<1> QED BY <1>5, <1>7

LEMMA CoreRelease ==
  ASSUME TypeInv, CoreInv, NEW w \in Workers, Release(w)
  PROVE  CoreInv' /\ Current' = Current
<1>1. /\ pc[w] \in {"done", "failed"} /\ pc' = [pc EXCEPT ![w] = "idle"]
      /\ seen' = [seen EXCEPT ![w] = NoFile]
      /\ wfd' = [wfd EXCEPT ![w] = NoInode]
      /\ blob' = [blob EXCEPT ![w] = << >>]
      /\ UNCHANGED <<path, files, op>>
  BY DEF Release
<1>2. Current' = Current
  BY <1>1 DEF Current
<1>3. LiveIdsDistinct'
  BY <1>2 DEF CoreInv, LiveIdsDistinct, Readable
<1>4. \A v \in Workers : pc'[v] # "idle" => BlobInv(v)'
  BY <1>1 DEF CoreInv, BlobInv, TypeInv, TypeOK
<1> QED BY <1>1, <1>2, <1>3, <1>4 DEF CoreInv, TypeInv, TypeOK, Fresh

(* A kill resets its threads.                                                *)
LEMMA CrashResets ==
  ASSUME NEW p \in Procs, Crash(p)
  PROVE  /\ pc' = [v \in Workers |-> IF ProcOf[v] = p THEN "idle" ELSE pc[v]]
         /\ wfd' = [v \in Workers |-> IF ProcOf[v] = p THEN NoInode ELSE wfd[v]]
         /\ seen' = [v \in Workers |-> IF ProcOf[v] = p THEN NoFile ELSE seen[v]]
         /\ blob' = [v \in Workers |-> IF ProcOf[v] = p THEN << >> ELSE blob[v]]
         /\ since' = [v \in Workers |-> IF ProcOf[v] = p THEN {} ELSE since[v]]
         /\ UNCHANGED <<path, op, acked, dropped, calls>>
BY DEF Crash, Killed, histVars

(* One of them may have been writing, and left some of its blob in the file.  *)
Spills(w) ==
  \E g : /\ Spilt(files[path], blob[w], g)
         /\ files' = [files EXCEPT ![path] = g]
         /\ tears' = tears + 1 \/ (tears' = tears /\ ~g.torn)

LEMMA CrashSpills ==
  ASSUME Serialised, TypeInv, LockInv, CoreInv, NEW p \in Procs, Crash(p)
  PROVE  \/ UNCHANGED <<files, tears>>
         \/ \E w \in Workers : pc[w] = "writing" /\ ProcOf[w] = p /\ Spills(w)
<1>1. ASSUME NEW w \in Workers, pc[w] = "writing",
             files' = [files EXCEPT ![wfd[w]] = Appended(@, blob[w])], tears' = tears
      PROVE  Spills(w)
  BY <1>1, Writing, AppendedSpills DEF Spills
<1>2. ASSUME NEW w \in Workers, pc[w] = "writing",
             NEW g \in CutShorts(files[wfd[w]], blob[w]),
             files' = [files EXCEPT ![wfd[w]] = g], tears' = tears + 1
      PROVE  Spills(w)
  BY <1>2, Writing, CutShortSpills DEF Spills
<1>3. \/ UNCHANGED <<files, tears>>
      \/ \E w \in Workers :
           /\ pc[w] = "writing" /\ ProcOf[w] = p
           /\ \/ files' = [files EXCEPT ![wfd[w]] = Appended(@, blob[w])] /\ tears' = tears
              \/ /\ tears' = tears + 1
                 /\ \E g \in CutShorts(files[wfd[w]], blob[w]) :
                      files' = [files EXCEPT ![wfd[w]] = g]
  BY DEF Crash, Killed
<1> QED BY <1>1, <1>2, <1>3

LEMMA CoreCrash ==
  ASSUME Serialised, TypeInv, LockInv, CoreInv, NEW p \in Procs, Crash(p)
  PROVE  CoreInv'
<1> USE ConstantsAssumption
<1>1. /\ pc' = [v \in Workers |-> IF ProcOf[v] = p THEN "idle" ELSE pc[v]]
      /\ wfd' = [v \in Workers |-> IF ProcOf[v] = p THEN NoInode ELSE wfd[v]]
      /\ seen' = [v \in Workers |-> IF ProcOf[v] = p THEN NoFile ELSE seen[v]]
      /\ blob' = [v \in Workers |-> IF ProcOf[v] = p THEN << >> ELSE blob[v]]
      /\ UNCHANGED <<path, op>>
  BY CrashResets
<1>2. \A v \in Workers : pc'[v] # "idle" => BlobInv(v)'
  BY <1>1 DEF CoreInv, BlobInv, TypeInv, TypeOK
<1>3. CASE UNCHANGED files
  <2>1. LiveIdsDistinct'
    BY <1>1, <1>3 DEF CoreInv, LiveIdsDistinct, Readable, Current
  <2> QED BY <1>1, <1>2, <1>3, <2>1 DEF CoreInv, TypeInv, TypeOK, Fresh
<1>4. ASSUME NEW w \in Workers, pc[w] = "writing", ProcOf[w] = p, Spills(w)
      PROVE  CoreInv'
  <2>1. PICK g : Spilt(files[path], blob[w], g) /\ files' = [files EXCEPT ![path] = g]
    BY <1>4 DEF Spills
  <2>2. LiveIdsDistinct'
    BY <1>1, <1>4, <2>1, SpiltCore
  <2>3. \A v \in Workers : v # w => ~Inside(v)
    BY <1>4, Writing
  <2>4. \A v \in Workers : ~Inside(v)'
    BY <1>1, <1>4, <2>3 DEF Inside
  <2> QED BY <1>1, <1>2, <2>2, <2>4 DEF CoreInv, TypeInv, TypeOK, Inside
<1>5. \/ UNCHANGED <<files, tears>>
      \/ \E w \in Workers : pc[w] = "writing" /\ ProcOf[w] = p /\ Spills(w)
  BY CrashSpills
<1> QED BY <1>3, <1>4, <1>5

LEMMA CoreStep ==
  ASSUME Serialised, TypeInv, LockInv, CoreInv, [Next]_vars
  PROVE  CoreInv'
<1>1. CASE UNCHANGED vars \/ Exhausted
  <2>1. UNCHANGED vars
    BY <1>1 DEF Exhausted
  <2> QED BY <2>1 DEF vars, lockVars, callVars, CoreInv, LiveIdsDistinct, Readable, Current,
                      BlobInv, Fresh
<1>2. ASSUME NEW w \in Workers, NEW o \in Ops, Call(w, o) PROVE CoreInv'
  BY <1>2, CoreCall
<1>3. ASSUME NEW w \in Workers, Step(w) PROVE CoreInv'
  BY <1>3, CoreEnter, CoreAcquire, CoreLoad, CoreOpenAppend, CoreWrite, CoreCompact,
     CoreTransformAll, CoreRelease DEF Step
<1>4. ASSUME NEW w \in Workers, WriteStopsShort(w) PROVE CoreInv'
  BY <1>4, CoreWrite
<1>5. ASSUME NEW p \in Procs, Crash(p) PROVE CoreInv'
  BY <1>5, CoreCrash
<1> QED BY <1>1, <1>2, <1>3, <1>4, <1>5 DEF Next

(* The allocator hands out no id that a readable record has, however often    *)
(* writes stop half way.                                                     *)
THEOREM IdsStayDistinct ==
  ASSUME Serialised
  PROVE  Spec => []LiveIdsDistinct
<1>1. Init => TypeInv /\ LockInv /\ CoreInv
  BY InitType, InitLock, InitCore
<1>2. TypeInv /\ LockInv /\ CoreInv /\ [Next]_vars => (TypeInv /\ LockInv /\ CoreInv)'
  BY TypeStep, LockStep, CoreStep
<1>3. CoreInv => LiveIdsDistinct
  BY DEF CoreInv
<1> QED BY <1>1, <1>2, <1>3, PTL DEF Spec
-----------------------------------------------------------------------------
(* Whose records are whose.  What one call writes, no other call writes, and  *)
(* none of it was acknowledged before the call returned.                     *)
ApartInv ==
  /\ \A w \in Workers : pc[w] = "idle" => blob[w] = << >>
  /\ \A w \in Workers : \A b \in RangeOf(blob[w]) : b.call <= calls
  /\ \A r \in acked : r.call > 0 /\ r.call <= calls
  /\ \A v, w \in Workers : v # w =>
       \A b \in RangeOf(blob[v]), c \in RangeOf(blob[w]) : b.call # c.call
  /\ \A w \in Workers : \A b \in RangeOf(blob[w]), r \in acked : b.call # r.call

LEMMA InitApart == Init => ApartInv
BY DEF Init, ApartInv, RangeOf

(* A step that acknowledges nothing and gives no call new records to write.   *)
LEMMA ApartKept ==
  ASSUME ApartInv, acked' = acked, calls' = calls,
         \A w \in Workers : pc'[w] = "idle" => blob'[w] = << >>,
         \A w \in Workers : \A b \in RangeOf(blob'[w]) :
           \E c \in RangeOf(blob[w]) : c.call = b.call
  PROVE  ApartInv'
<1>1. \A w \in Workers : \A b \in RangeOf(blob'[w]) : b.call <= calls
  BY DEF ApartInv
<1>2. ASSUME NEW v \in Workers, NEW w \in Workers, v # w,
             NEW b \in RangeOf(blob'[v]), NEW c \in RangeOf(blob'[w])
      PROVE  b.call # c.call
  <2>1. PICK x \in RangeOf(blob[v]) : x.call = b.call
    OBVIOUS
  <2>2. PICK y \in RangeOf(blob[w]) : y.call = c.call
    OBVIOUS
  <2> QED BY <1>2, <2>1, <2>2 DEF ApartInv
<1>3. ASSUME NEW w \in Workers, NEW b \in RangeOf(blob'[w]), NEW r \in acked
      PROVE  b.call # r.call
  <2>1. PICK x \in RangeOf(blob[w]) : x.call = b.call
    OBVIOUS
  <2> QED BY <2>1 DEF ApartInv
<1>4. \A b \in {} : FALSE
  OBVIOUS
<1> QED BY <1>1, <1>2, <1>3 DEF ApartInv, RangeOf

LEMMA ApartCall ==
  ASSUME TypeInv, ApartInv, NEW w \in Workers, NEW o \in Ops, Call(w, o)
  PROVE  ApartInv'
<1> USE ConstantsAssumption
<1>1. /\ pc[w] = "idle" /\ calls' = calls + 1 /\ calls \in Nat /\ acked' = acked
      /\ \A v \in Workers : v # w => pc'[v] = pc[v] /\ blob'[v] = blob[v]
      /\ \A b \in RangeOf(blob'[w]) : b.call = calls + 1
      /\ o \notin Appends => blob'[w] = << >>
  <2>1. \A v \in Workers : v # w => blob'[v] = blob[v]
    BY CallBlob
  <2>2. /\ \A b \in RangeOf(blob'[w]) : b.call = calls + 1
        /\ o \notin Appends => blob'[w] = << >>
    BY CallBlob
  <2>3. /\ pc[w] = "idle" /\ calls' = calls + 1 /\ calls \in Nat /\ acked' = acked
        /\ \A v \in Workers : v # w => pc'[v] = pc[v]
    BY DEF Call, TypeInv, TypeOK, histVars
  <2> QED BY <2>1, <2>2, <2>3
<1>2. pc'[w] = "idle" => blob'[w] = << >>
  BY <1>1 DEF Call, TypeInv, TypeOK, Appends
<1>3. /\ \A r \in acked : r.call \in Nat
      /\ \A v \in Workers : \A b \in RangeOf(blob[v]) : b.call \in Nat
  BY RangeOfType DEF TypeInv, TypeOK, Rec
<1>4. \A v \in Workers : \A b \in RangeOf(blob'[v]) : b.call <= calls'
  BY <1>1, <1>3 DEF ApartInv
<1>5. ASSUME NEW u \in Workers, NEW v \in Workers, u # v,
             NEW b \in RangeOf(blob'[u]), NEW c \in RangeOf(blob'[v])
      PROVE  b.call # c.call
  BY <1>1, <1>3, <1>5 DEF ApartInv
<1>6. ASSUME NEW v \in Workers, NEW b \in RangeOf(blob'[v]), NEW r \in acked
      PROVE  b.call # r.call
  BY <1>1, <1>3, <1>6 DEF ApartInv
<1>7. \A r \in acked' : r.call > 0 /\ r.call <= calls'
  BY <1>1, <1>3 DEF ApartInv
<1>8. \A v \in Workers : pc'[v] = "idle" => blob'[v] = << >>
  BY <1>1, <1>2 DEF ApartInv
<1> QED BY <1>1, <1>4, <1>5, <1>6, <1>7, <1>8 DEF ApartInv

LEMMA ApartRelease ==
  ASSUME TypeInv, CoreInv, ApartInv, NEW w \in Workers, Release(w)
  PROVE  ApartInv'
<1>1. /\ pc[w] \in {"done", "failed"} /\ pc' = [pc EXCEPT ![w] = "idle"]
      /\ acked' = acked \/ acked' = acked \cup RangeOf(blob[w])
      /\ blob' = [blob EXCEPT ![w] = << >>]
      /\ calls' = calls
  BY DEF Release, countVars
<1>2. blob'[w] = << >> /\ RangeOf(blob'[w]) = {}
  BY <1>1 DEF TypeInv, TypeOK, RangeOf
<1>3. \A v \in Workers : v # w => pc'[v] = pc[v] /\ blob'[v] = blob[v]
  BY <1>1 DEF TypeInv, TypeOK
<1>4. \A b \in RangeOf(blob[w]) : b.call > 0 /\ b.call <= calls
  BY <1>1 DEF CoreInv, BlobInv, ApartInv
<1>5. \A r \in acked' : r.call > 0 /\ r.call <= calls
  BY <1>1, <1>4 DEF ApartInv
<1>6. ASSUME NEW v \in Workers, NEW b \in RangeOf(blob'[v]), NEW r \in acked'
      PROVE  b.call # r.call
  BY <1>1, <1>2, <1>3 DEF ApartInv
<1>7. ASSUME NEW u \in Workers, NEW v \in Workers, u # v,
             NEW b \in RangeOf(blob'[u]), NEW c \in RangeOf(blob'[v])
      PROVE  b.call # c.call
  BY <1>2, <1>3, <1>7 DEF ApartInv
<1>8. \A v \in Workers : \A b \in RangeOf(blob'[v]) : b.call <= calls
  BY <1>2, <1>3 DEF ApartInv
<1>9. \A v \in Workers : pc'[v] = "idle" => blob'[v] = << >>
  BY <1>2, <1>3 DEF ApartInv
<1> QED BY <1>1, <1>5, <1>6, <1>7, <1>8, <1>9 DEF ApartInv

LEMMA ApartStep ==
  ASSUME Serialised, TypeInv, LockInv, CoreInv, ApartInv, [Next]_vars
  PROVE  ApartInv'
<1> USE ConstantsAssumption
<1>1. CASE UNCHANGED vars \/ Exhausted
  <2>1. UNCHANGED vars
    BY <1>1 DEF Exhausted
  <2> QED BY <2>1 DEF vars, callVars, histVars, countVars, ApartInv
<1>2. ASSUME NEW w \in Workers, NEW o \in Ops, Call(w, o) PROVE ApartInv'
  BY <1>2, ApartCall
<1>3. ASSUME NEW w \in Workers,
             \/ Enter(w) \/ Acquire(w) \/ OpenAppend(w) \/ Write(w) \/ WriteStopsShort(w)
             \/ Compact(w) \/ TransformAll(w)
      PROVE  ApartInv'
  <2>1. /\ pc[w] # "idle" /\ \E c \in Control \ {"idle"} : pc' = [pc EXCEPT ![w] = c]
        /\ UNCHANGED <<blob, acked, calls>>
    BY <1>3 DEF Enter, Acquire, OpenAppend, Write, WriteStopsShort, Compact, TransformAll,
                callVars, histVars, countVars, Control
  <2>2. \A v \in Workers : pc'[v] = "idle" => blob'[v] = << >>
    BY <2>1 DEF ApartInv, TypeInv, TypeOK
  <2> QED BY <2>1, <2>2, ApartKept
<1>4. ASSUME NEW w \in Workers, Load(w) PROVE ApartInv'
  <2>1. /\ pc' = [pc EXCEPT ![w] = IF op[w] = "read_all" THEN "done" ELSE "loaded"]
        /\ UNCHANGED <<acked, calls>>
        /\ \A v \in Workers : v # w => blob'[v] = blob[v]
    BY <1>4 DEF Load, histVars, countVars, TypeInv, TypeOK
  <2>2. \A v \in Workers : pc'[v] = "idle" => blob'[v] = << >>
    BY <2>1 DEF ApartInv, TypeInv, TypeOK
  <2>3. \A v \in Workers : \A b \in RangeOf(blob'[v]) : \E c \in RangeOf(blob[v]) : c.call = b.call
    BY <1>4, CoreLoad
  <2> QED BY <2>1, <2>2, <2>3, ApartKept
<1>5. ASSUME NEW w \in Workers, Release(w) PROVE ApartInv'
  BY <1>5, ApartRelease
<1>6. ASSUME NEW p \in Procs, Crash(p) PROVE ApartInv'
  <2>1. /\ pc' = [v \in Workers |-> IF ProcOf[v] = p THEN "idle" ELSE pc[v]]
        /\ blob' = [v \in Workers |-> IF ProcOf[v] = p THEN << >> ELSE blob[v]]
        /\ UNCHANGED <<acked, calls>>
    BY <1>6, CrashResets
  <2>2. \A v \in Workers : pc'[v] = "idle" => blob'[v] = << >>
    BY <2>1 DEF ApartInv
  <2>3. \A v \in Workers : RangeOf(blob'[v]) \subseteq RangeOf(blob[v])
    BY <2>1 DEF RangeOf
  <2> QED BY <2>1, <2>2, <2>3, ApartKept
<1> QED BY <1>1, <1>2, <1>3, <1>4, <1>5, <1>6 DEF Next, Step
-----------------------------------------------------------------------------
(* What an interrupted write costs.  A call has promised its records once all *)
(* of its blob is in the file, though it has not returned yet.  Each write    *)
(* that stopped half way may have cost one promised record, or the file is    *)
(* still torn and the next append will pay for it; and a record on the torn   *)
(* line, which that append will take with it, is nobody's promise.            *)
Terminated == \A f \in SeedFiles : ~f.torn

Promised ==
  acked \cup {r \in Rec : \E w \in Workers : pc[w] = "done" /\ r \in RangeOf(blob[w])}
Missing == Promised \ (Readable \cup dropped)

LossInv ==
  /\ Current.open \cap Promised = {}
  /\ IsFiniteSet(Missing)
  /\ Cardinality(Missing) + (IF Current.torn THEN 1 ELSE 0) <= tears

LEMMA InitLoss == Terminated /\ Init => LossInv
<1> SUFFICES ASSUME Terminated, Init PROVE LossInv
  OBVIOUS
<1> USE ConstantsAssumption
<1>1. acked = {} /\ (\A w \in Workers : pc[w] = "idle") /\ tears = 0
  BY DEF Init
<1>2. Promised = {} /\ Missing = {}
  BY <1>1 DEF Promised, Missing
<1>3. Current = NoFile \/ Current \in SeedFiles
  BY DEF Init, Current
<1>4. Current.open = {} /\ ~Current.torn
  BY <1>3, SeedAssumption DEF NoFile, Terminated
<1> QED BY <1>1, <1>2, <1>4, FS_EmptySet DEF LossInv

(* Nothing more is missing, and the file is no more torn; or a write was cut. *)
LEMMA FewerMissing ==
  ASSUME TypeInv, LossInv, Missing' \subseteq Missing, Current'.open \cap Promised' = {},
         \/ tears' = tears /\ (Current'.torn => Current.torn)
         \/ tears' = tears + 1
  PROVE  LossInv'
<1>1. IsFiniteSet(Missing) /\ IsFiniteSet(Missing') /\ Cardinality(Missing') <= Cardinality(Missing)
  BY FS_Subset DEF LossInv
<1>2. Cardinality(Missing) \in Nat /\ Cardinality(Missing') \in Nat
  BY <1>1, FS_CardinalityType
<1>3. tears \in Nat
  BY ConstantsAssumption DEF TypeInv, TypeOK
<1>4. Cardinality(Missing) + (IF Current.torn THEN 1 ELSE 0) <= tears
  BY DEF LossInv
<1>5. Cardinality(Missing') + (IF Current'.torn THEN 1 ELSE 0) <= tears'
  <2> DEFINE m == Cardinality(Missing)
             n == Cardinality(Missing')
  <2>1. m \in Nat /\ n \in Nat /\ n <= m /\ m + (IF Current.torn THEN 1 ELSE 0) <= tears
    BY <1>1, <1>2, <1>4
  <2> HIDE DEF m, n
  <2>2. n + (IF Current'.torn THEN 1 ELSE 0) <= tears'
    BY <2>1, <1>3
  <2> QED BY <2>2 DEF n
<1> QED BY <1>1, <1>5 DEF LossInv

(* A step that leaves the file as it is and promises nothing.                 *)
LEMMA LossKept ==
  ASSUME TypeInv, LossInv, Current' = Current, Promised' \subseteq Promised,
         dropped' = dropped, tears' = tears
  PROVE  LossInv'
<1>1. Readable' = Readable
  BY DEF Readable
<1>2. Missing' \subseteq Missing
  BY <1>1 DEF Missing
<1> QED BY <1>2, FewerMissing DEF LossInv

(* A worker that leaves "done" or never was there promises nothing new.       *)
LEMMA PromisedKept ==
  ASSUME acked' = acked,
         \A w \in Workers : pc'[w] = "done" =>
           RangeOf(blob'[w]) = {} \/ (pc[w] = "done" /\ blob'[w] = blob[w])
  PROVE  Promised' \subseteq Promised
BY DEF Promised

(* A record that was promised was written by a call.                          *)
LEMMA PromisedByCalls ==
  ASSUME CoreInv, ApartInv
  PROVE  \A r \in Promised : r.call > 0
BY DEF Promised, CoreInv, BlobInv, ApartInv

LEMMA LossRelease ==
  ASSUME TypeInv, CoreInv, LossInv, NEW w \in Workers, Release(w)
  PROVE  LossInv'
<1>1. /\ pc[w] \in {"done", "failed"} /\ pc' = [pc EXCEPT ![w] = "idle"]
      /\ acked' = IF pc[w] = "done" THEN acked \cup RangeOf(blob[w]) ELSE acked
      /\ blob' = [blob EXCEPT ![w] = << >>]
      /\ UNCHANGED <<dropped, tears>>
  BY DEF Release, countVars
<1>2. RangeOf(blob[w]) \subseteq Rec
  BY RangeOfType DEF TypeInv, TypeOK
<1>3. \A v \in Workers : pc'[v] = "done" => pc[v] = "done" /\ blob'[v] = blob[v]
  BY <1>1 DEF TypeInv, TypeOK
<1>4. Promised' \subseteq Promised
  BY <1>1, <1>2, <1>3 DEF Promised
<1>5. Current' = Current
  BY CoreRelease
<1> QED BY <1>1, <1>4, <1>5, LossKept

(* The blob being written is neither promised nor acknowledged yet.           *)
LEMMA UnpromisedBlob ==
  ASSUME TypeInv, ApartInv, NEW w \in Workers, pc[w] = "writing"
  PROVE  RangeOf(blob[w]) \cap Promised = {}
BY DEF Promised, ApartInv

LEMMA LossWrite ==
  ASSUME Serialised, TypeInv, LockInv, CoreInv, ApartInv, LossInv, NEW w \in Workers, Write(w)
  PROVE  LossInv'
<1>1. /\ pc[w] = "writing" /\ path' = path
      /\ pc' = [pc EXCEPT ![w] = "done"]
      /\ UNCHANGED <<blob, acked, dropped, tears>>
  BY DEF Write, callVars, histVars, countVars
<1>2. /\ files' = [files EXCEPT ![path] = Appended(files[path], blob[w])]
      /\ Current = files[path] /\ SoundFile(files[path]) /\ path \in Inodes
      /\ blob[w] \in Seq(Rec) /\ Len(blob[w]) > 0
  BY <1>1, Writing, WriteSpills
<1> DEFINE f == files[path]
           b == blob[w]
           g == Appended(f, b)
<1>3. Current' = g
  BY <1>1, <1>2, ConstantsAssumption DEF Current, TypeInv, TypeOK
<1>4. /\ f.ok \ f.open \subseteq g.ok /\ g.open = {} /\ ~g.torn
      /\ RangeOf(b) \ {b[1]} \subseteq g.ok
      /\ ~f.torn => RangeOf(b) \subseteq g.ok
  BY <1>2, AppendedSpills DEF Spilt
<1> HIDE DEF f, b, g
<1>5. Promised' \subseteq Promised \cup RangeOf(b)
  BY <1>1 DEF Promised, b, TypeInv, TypeOK
<1>6. \A r \in Promised \cap Readable : r \in g.ok
  BY <1>2, <1>4 DEF LossInv, Readable, f
<1>7. Missing' \subseteq Missing \cup (IF f.torn THEN {b[1]} ELSE {})
  BY <1>1, <1>3, <1>4, <1>5, <1>6 DEF Missing, Readable
<1>8. CASE ~f.torn
  <2>1. Missing' \subseteq Missing
    BY <1>7, <1>8
  <2> QED BY <1>1, <1>3, <1>4, <2>1, FewerMissing
<1>9. CASE f.torn
  <2>1. /\ IsFiniteSet(Missing \cup {b[1]})
        /\ Cardinality(Missing \cup {b[1]}) <= Cardinality(Missing) + 1
        /\ IsFiniteSet(Missing)
    <3>1. IsFiniteSet(Missing)
      BY DEF LossInv
    <3> QED BY <3>1, FS_AddElement, FS_CardinalityType
  <2>2. IsFiniteSet(Missing') /\ Cardinality(Missing') <= Cardinality(Missing \cup {b[1]})
    BY <1>7, <1>9, <2>1, FS_Subset
  <2>3. /\ Cardinality(Missing) \in Nat /\ Cardinality(Missing') \in Nat
        /\ Cardinality(Missing \cup {b[1]}) \in Nat
    BY <2>1, <2>2, FS_CardinalityType
  <2>4. Cardinality(Missing) + 1 <= tears /\ tears \in Nat
    BY <1>2, <1>9, ConstantsAssumption DEF LossInv, f, TypeInv, TypeOK
  <2>5. Cardinality(Missing') <= tears
    <3> DEFINE m == Cardinality(Missing)
               n == Cardinality(Missing')
               k == Cardinality(Missing \cup {b[1]})
    <3>1. m \in Nat /\ n \in Nat /\ k \in Nat /\ k <= m + 1 /\ n <= k /\ m + 1 <= tears
      BY <2>1, <2>2, <2>3, <2>4
    <3> HIDE DEF m, n, k
    <3>2. n <= tears
      BY <3>1, <2>4
    <3> QED BY <3>2 DEF n
  <2>6. ~Current'.torn /\ Current'.open \cap Promised' = {} /\ tears' = tears
    BY <1>1, <1>3, <1>4
  <2>7. Cardinality(Missing') + (IF Current'.torn THEN 1 ELSE 0) <= tears'
    BY <2>3, <2>4, <2>5, <2>6
  <2> QED BY <2>2, <2>6, <2>7 DEF LossInv
<1> QED BY <1>8, <1>9

(* A write cut short, by an error or a kill, promises nothing; it takes no    *)
(* promised record with it, and leaves none on the torn line.                 *)
LEMMA LossSpill ==
  ASSUME Serialised, TypeInv, LockInv, CoreInv, ApartInv, LossInv,
         NEW w \in Workers, pc[w] = "writing",
         NEW g, Spilt(files[path], blob[w], g), files' = [files EXCEPT ![path] = g],
         path' = path, dropped' = dropped, Promised' \subseteq Promised,
         tears' = tears + 1 \/ (tears' = tears /\ ~g.torn)
  PROVE  LossInv'
<1>1. Current' = g /\ Current = files[path]
  BY SpiltCore, Writing
<1>2. RangeOf(blob[w]) \cap Promised = {}
  BY UnpromisedBlob
<1>3. Current'.open \cap Promised' = {}
  BY <1>1, <1>2 DEF Spilt
<1>4. \A r \in Promised \cap Readable : r \in Readable'
  BY <1>1 DEF LossInv, Spilt, Readable
<1>5. Missing' \subseteq Missing
  BY <1>4 DEF Missing
<1> QED BY <1>1, <1>3, <1>5, FewerMissing

LEMMA LossStep ==
  ASSUME Serialised, TypeInv, LockInv, CoreInv, ApartInv, LossInv, [Next]_vars
  PROVE  LossInv'
<1> USE ConstantsAssumption
<1>1. CASE UNCHANGED vars \/ Exhausted
  <2>1. UNCHANGED vars
    BY <1>1 DEF Exhausted
  <2> QED BY <2>1 DEF vars, callVars, histVars, countVars, LossInv, Missing, Promised, Readable,
                      Current
<1>2. ASSUME NEW w \in Workers, NEW o \in Ops, Call(w, o) PROVE LossInv'
  <2>1. /\ \A v \in Workers : pc'[v] = "done" => pc[v] = "done" /\ blob'[v] = blob[v]
        /\ UNCHANGED <<path, files, acked, dropped, tears>>
    BY <1>2 DEF Call, histVars, TypeInv, TypeOK
  <2>2. Promised' \subseteq Promised
    BY <2>1, PromisedKept
  <2> QED BY <2>1, <2>2, LossKept DEF Current
<1>3. ASSUME NEW w \in Workers, Enter(w) PROVE LossInv'
  <2>1. /\ \A v \in Workers : pc'[v] = "done" => pc[v] = "done" /\ blob'[v] = blob[v]
        /\ UNCHANGED <<acked, dropped, tears>>
    BY <1>3 DEF Enter, callVars, histVars, countVars, TypeInv, TypeOK
  <2>2. Current' = Current
    BY <1>3, EnterCurrent
  <2>3. Promised' \subseteq Promised
    BY <2>1, PromisedKept
  <2> QED BY <2>1, <2>2, <2>3, LossKept
<1>4. ASSUME NEW w \in Workers, Acquire(w) \/ OpenAppend(w) PROVE LossInv'
  <2>1. /\ \A v \in Workers : pc'[v] = "done" => pc[v] = "done" /\ blob'[v] = blob[v]
        /\ UNCHANGED <<path, files, acked, dropped, tears>>
    BY <1>4 DEF Acquire, OpenAppend, callVars, histVars, countVars, TypeInv, TypeOK
  <2>2. Promised' \subseteq Promised
    BY <2>1, PromisedKept
  <2> QED BY <2>1, <2>2, LossKept DEF Current
<1>5. ASSUME NEW w \in Workers, Load(w) PROVE LossInv'
  <2>1. /\ pc' = [pc EXCEPT ![w] = IF op[w] = "read_all" THEN "done" ELSE "loaded"]
        /\ UNCHANGED <<path, files, acked, dropped, tears>>
        /\ \A v \in Workers : v # w => blob'[v] = blob[v]
    BY <1>5 DEF Load, histVars, countVars, TypeInv, TypeOK
  <2>2. op[w] \notin Appends => RangeOf(blob'[w]) = {}
    BY <1>5, CoreLoad DEF RangeOf
  <2>3. \A v \in Workers : pc'[v] = "done" =>
          RangeOf(blob'[v]) = {} \/ (pc[v] = "done" /\ blob'[v] = blob[v])
    BY <2>1, <2>2 DEF TypeInv, TypeOK, Appends
  <2>4. Promised' \subseteq Promised
    BY <2>1, <2>3, PromisedKept
  <2> QED BY <2>1, <2>4, LossKept DEF Current
<1>6. ASSUME NEW w \in Workers, Compact(w) PROVE LossInv'
  <2>1. /\ pc' = [pc EXCEPT ![w] = "done"] /\ op[w] \notin Appends
        /\ UNCHANGED <<blob, acked, tears>>
    BY <1>6 DEF Compact, callVars, countVars, Appends
  <2>2. RangeOf(blob[w]) = {}
    BY <2>1 DEF CoreInv, RangeOf
  <2>3. Promised' \subseteq Promised
    BY <2>1, <2>2, PromisedKept DEF TypeInv, TypeOK
  <2>4. /\ ~Current'.torn /\ Current'.open = {}
        /\ Readable \cup dropped \subseteq Readable' \cup dropped'
    BY <1>6, CoreCompact
  <2>5. Missing' \subseteq Missing
    BY <2>3, <2>4 DEF Missing
  <2> QED BY <2>1, <2>4, <2>5, FewerMissing
<1>7. ASSUME NEW w \in Workers, TransformAll(w) PROVE LossInv'
  <2>1. /\ pc' = [pc EXCEPT ![w] = "done"] /\ op[w] \notin Appends
        /\ UNCHANGED <<blob, acked, dropped, tears>>
    BY <1>7 DEF TransformAll, callVars, histVars, countVars, Appends
  <2>2. RangeOf(blob[w]) = {}
    BY <2>1 DEF CoreInv, RangeOf
  <2>3. Promised' \subseteq Promised
    BY <2>1, <2>2, PromisedKept DEF TypeInv, TypeOK
  <2>4. \A r \in Promised : r.call > 0
    BY PromisedByCalls
  <2>5. UNCHANGED Current \/ (~Current'.torn /\ Current'.open = {})
    BY <1>7, CoreTransformAll
  <2>6. \A r \in Readable : r.call > 0 => r \in Readable'
    BY <1>7, CoreTransformAll
  <2>7. Missing' \subseteq Missing
    BY <2>1, <2>3, <2>4, <2>6 DEF Missing
  <2>8. Current'.open \cap Promised' = {} /\ (Current'.torn => Current.torn)
    BY <2>3, <2>5 DEF LossInv
  <2> QED BY <2>1, <2>7, <2>8, FewerMissing
<1>8. ASSUME NEW w \in Workers, WriteStopsShort(w) PROVE LossInv'
  <2>1. PICK g : Spilt(files[path], blob[w], g) /\ files' = [files EXCEPT ![path] = g]
    BY <1>8, WriteSpills
  <2>2. /\ pc[w] = "writing" /\ path' = path /\ tears' = tears + 1
        /\ UNCHANGED <<blob, acked, dropped>>
    BY <1>8, WriteSpills
  <2>3. \A v \in Workers : pc'[v] = "done" => pc[v] = "done"
    BY <1>8 DEF WriteStopsShort, TypeInv, TypeOK
  <2>4. Promised' \subseteq Promised
    BY <2>2, <2>3, PromisedKept
  <2> QED BY <2>1, <2>2, <2>4, LossSpill
<1>9. ASSUME NEW p \in Procs, Crash(p) PROVE LossInv'
  <2>1. /\ pc' = [v \in Workers |-> IF ProcOf[v] = p THEN "idle" ELSE pc[v]]
        /\ blob' = [v \in Workers |-> IF ProcOf[v] = p THEN << >> ELSE blob[v]]
        /\ UNCHANGED <<path, acked, dropped>>
    BY <1>9, CrashResets
  <2>2. \A v \in Workers : pc'[v] = "done" => pc[v] = "done" /\ blob'[v] = blob[v]
    BY <2>1
  <2>3. Promised' \subseteq Promised
    BY <2>1, <2>2, PromisedKept
  <2>4. CASE UNCHANGED <<files, tears>>
    BY <2>1, <2>3, <2>4, LossKept DEF Current
  <2>5. ASSUME NEW w \in Workers, pc[w] = "writing", Spills(w) PROVE LossInv'
    <3>1. PICK g : /\ Spilt(files[path], blob[w], g)
                   /\ files' = [files EXCEPT ![path] = g]
                   /\ tears' = tears + 1 \/ (tears' = tears /\ ~g.torn)
      BY <2>5 DEF Spills
    <3> QED BY <2>1, <2>3, <2>5, <3>1, LossSpill
  <2> QED BY <1>9, <2>4, <2>5, CrashSpills
<1> QED BY <1>1, <1>2, <1>3, <1>4, <1>5, <1>6, <1>7, <1>8, <1>9, LossWrite, LossRelease
        DEF Next, Step

Inv == TypeInv /\ LockInv /\ CoreInv /\ ApartInv /\ LossInv

LEMMA Invariance ==
  ASSUME Serialised, Terminated
  PROVE  Spec => []Inv
<1>1. Init => Inv
  BY InitType, InitLock, InitCore, InitApart, InitLoss DEF Inv
<1>2. Inv /\ [Next]_vars => Inv'
  BY TypeStep, LockStep, CoreStep, ApartStep, LossStep DEF Inv
<1> QED BY <1>1, <1>2, PTL DEF Spec

(* While no write has stopped half way, whatever was acknowledged is readable *)
(* or was dropped, and the file ends in a newline.                           *)
LEMMA WholeWhileUntorn ==
  ASSUME Inv, tears = 0
  PROVE  Promised \subseteq Readable \cup dropped /\ ~Current.torn
<1>1. Cardinality(Missing) \in Nat /\ IsFiniteSet(Missing)
  BY FS_CardinalityType DEF Inv, LossInv
<1>2. Cardinality(Missing) + (IF Current.torn THEN 1 ELSE 0) <= 0
  BY DEF Inv, LossInv
<1>3. Cardinality(Missing) = 0 /\ ~Current.torn
  BY <1>1, <1>2
<1>4. Missing = {}
  BY <1>1, <1>3, FS_EmptySet
<1> QED BY <1>3, <1>4 DEF Missing

(* Each write that stopped half way makes at most one acknowledged record     *)
(* unreadable, whatever is appended, compacted and repaired after it.         *)
THEOREM TearsCostOneEach ==
  ASSUME Serialised, Terminated
  PROVE  Spec => []TearsLoseOneEach
<1>1. ASSUME Inv PROVE TearsLoseOneEach
  <2>1. acked \ (Readable \cup dropped) \subseteq Missing
    BY DEF Missing, Promised
  <2>2. IsFiniteSet(Missing)
    BY <1>1 DEF Inv, LossInv
  <2>3. Cardinality(acked \ (Readable \cup dropped)) <= Cardinality(Missing)
    BY <2>1, <2>2, FS_Subset
  <2>4. Cardinality(Missing) <= tears
    <3>1. Cardinality(Missing) \in Nat /\ tears \in Nat
      BY <1>1, <2>2, FS_CardinalityType, ConstantsAssumption DEF Inv, TypeInv, TypeOK
    <3>2. Cardinality(Missing) + (IF Current.torn THEN 1 ELSE 0) <= tears
      BY <1>1 DEF Inv, LossInv
    <3> QED BY <3>1, <3>2
  <2>5. /\ Cardinality(acked \ (Readable \cup dropped)) \in Nat
        /\ Cardinality(Missing) \in Nat /\ tears \in Nat
    <3>1. IsFiniteSet(acked \ (Readable \cup dropped))
      BY <2>1, <2>2, FS_Subset
    <3> QED BY <1>1, <2>2, <3>1, FS_CardinalityType, ConstantsAssumption DEF Inv, TypeInv, TypeOK
  <2> QED BY <2>3, <2>4, <2>5 DEF TearsLoseOneEach
<1> QED BY <1>1, Invariance, PTL

(* No two calls are given the same id, until a write stops half way: when     *)
(* nobody compacts, so that a number once in the file stays there.            *)
NobodyCompacts == \A w \in Workers : "compact" \notin OpsOf[w]

THEOREM WholeIdsStayDistinct ==
  ASSUME Serialised, Terminated, NobodyCompacts
  PROVE  Spec => []WholeIdsDistinct
<1> DEFINE Nothing == dropped = {}
<1>1. Init => Nothing
  BY DEF Init
<1>2. Nothing /\ LockInv /\ [Next]_vars => Nothing'
  <2> SUFFICES ASSUME Nothing, LockInv, [Next]_vars PROVE dropped' = {}
    OBVIOUS
  <2>1. \A w \in Workers : ~Compact(w)
    BY DEF Compact, LockInv, NobodyCompacts
  <2> QED BY <2>1 DEF Next, Step, vars, histVars, callVars, Exhausted, Call, Enter, Acquire, Load,
                      OpenAppend, Write, WriteStopsShort, TransformAll, Release, Crash
<1>3. ASSUME Inv, Nothing PROVE WholeIdsDistinct
  <2> SUFFICES ASSUME tears = 0, NEW r \in acked, NEW s \in acked, r # s, r.num = s.num,
                      r.num # 0
               PROVE  FALSE
    BY DEF WholeIdsDistinct, ReturnedIdsDistinct
  <2>1. r \in Readable /\ s \in Readable
    BY <1>3, WholeWhileUntorn DEF Promised
  <2>2. r.num \in Nat
    BY <1>3 DEF Inv, TypeInv, TypeOK, Rec
  <2>3. r.call = 0
    BY <1>3, <2>1, <2>2 DEF Inv, CoreInv, LiveIdsDistinct
  <2>4. r.call > 0
    BY <1>3 DEF Inv, ApartInv
  <2> QED BY <2>3, <2>4
<1>4. Inv => LockInv
  BY DEF Inv
<1> HIDE DEF Nothing
<1> QED BY <1>1, <1>2, <1>3, <1>4, Invariance, PTL DEF Spec

(* A rewrite publishes what it made of the file as it is at that moment.      *)
THEOREM RewritesUndoNothing ==
  ASSUME Serialised
  PROVE  Spec => RewritesSeeAll
<1> DEFINE I == TypeInv /\ LockInv /\ CoreInv
<1>1. Init => I
  BY InitType, InitLock, InitCore
<1>2. I /\ [Next]_vars => I'
  BY TypeStep, LockStep, CoreStep
<1>3. I => \A w \in Workers : pc[w] = "loaded" /\ op[w] \in Rewrites => seen[w] = Current
  <2> SUFFICES ASSUME I, NEW w \in Workers, pc[w] = "loaded" PROVE seen[w] = Current
    OBVIOUS
  <2>1. path # NoInode
    BY ConstantsAssumption DEF TypeInv
  <2> QED BY <2>1 DEF CoreInv, Current
<1>4. I /\ [Next]_vars =>
        [\A w \in Workers :
           pc[w] = "loaded" /\ op[w] \in Rewrites /\ pc'[w] = "done" => seen[w] = Current]_vars
  BY <1>3
<1> HIDE DEF I
<1> QED BY <1>1, <1>2, <1>4, PTL DEF Spec, RewritesSeeAll

-----------------------------------------------------------------------------
(* Where no write stops half way, nothing acknowledged is lost at all.        *)
Intact == MaxTears = 0 /\ Terminated

LEMMA IntactWhole ==
  ASSUME Intact, Inv
  PROVE  tears = 0 /\ AckedReadable /\ ~Current.torn
<1>1. tears = 0
  BY DEF Intact, Inv, TypeInv, TypeOK
<1> QED BY <1>1, WholeWhileUntorn DEF AckedReadable, Promised

(* Every record whose append returned is read back with its id, or was        *)
(* dropped by a compaction; in particular across kills of processes.          *)
THEOREM NothingAcknowledgedIsLost ==
  ASSUME Serialised, Intact
  PROVE  Spec => []AckedReadable
<1>1. Inv => AckedReadable
  BY IntactWhole
<1>2. Spec => []Inv
  BY Invariance DEF Intact
<1> QED BY <1>1, <1>2, PTL

(* What a call knew was acknowledged when it began still is, and a read that  *)
(* has read has it.                                                          *)
ReadInv ==
  /\ \A w \in Workers : since[w] \subseteq acked
  /\ ReadsAreFresh

LEMMA ReadStep ==
  ASSUME Intact, Inv, ReadInv, [Next]_vars
  PROVE  ReadInv'
<1>1. CASE UNCHANGED vars \/ Exhausted
  <2>1. UNCHANGED vars
    BY <1>1 DEF Exhausted
  <2> QED BY <2>1 DEF vars, callVars, histVars, ReadInv, ReadsAreFresh
<1>2. ASSUME NEW w \in Workers, NEW o \in Ops, Call(w, o) PROVE ReadInv'
  <2>1. /\ pc[w] = "idle" /\ pc'[w] \in {"idle", "start"}
        /\ \A v \in Workers : v # w => pc'[v] = pc[v] /\ op'[v] = op[v]
        /\ since' = [since EXCEPT ![w] = acked]
        /\ UNCHANGED <<seen, acked, dropped>>
    BY <1>2 DEF Call, TypeInv, TypeOK, histVars, Inv
  <2> QED BY <2>1 DEF ReadInv, ReadsAreFresh, Inv, TypeInv, TypeOK
<1>3. ASSUME NEW w \in Workers, NEW c \in Control, pc' = [pc EXCEPT ![w] = c],
             c # "done" \/ op[w] # "read_all",
             UNCHANGED <<op, seen, since, acked>>, dropped \subseteq dropped'
      PROVE  ReadInv'
  BY <1>3 DEF ReadInv, ReadsAreFresh, Inv, TypeInv, TypeOK
<1>4. ASSUME NEW w \in Workers, Enter(w) \/ Acquire(w) \/ OpenAppend(w) \/ WriteStopsShort(w)
      PROVE  ReadInv'
  BY <1>3, <1>4 DEF Enter, Acquire, OpenAppend, WriteStopsShort, callVars, histVars, Control
<1>5. ASSUME NEW w \in Workers, Write(w) \/ Compact(w) \/ TransformAll(w) PROVE ReadInv'
  <2>1. op[w] # "read_all"
    BY <1>5 DEF Write, Compact, TransformAll, Inv, TypeInv, Appends
  <2> QED BY <1>3, <1>5, <2>1 DEF Write, Compact, TransformAll, callVars, histVars, Control
<1>6. ASSUME NEW w \in Workers, Load(w) PROVE ReadInv'
  <2>1. /\ pc[w] = "locked"
        /\ pc' = [pc EXCEPT ![w] = IF op[w] = "read_all" THEN "done" ELSE "loaded"]
        /\ seen' = [seen EXCEPT ![w] = files[path]]
        /\ UNCHANGED <<op, since, acked, dropped>>
    BY <1>6 DEF Load, histVars
  <2>2. Current = files[path]
    BY <2>1, ConstantsAssumption DEF Inv, TypeInv, Current
  <2>3. since[w] \subseteq files[path].ok \cup dropped
    BY <2>2, IntactWhole DEF ReadInv, AckedReadable, Readable
  <2> QED BY <2>1, <2>3 DEF ReadInv, ReadsAreFresh, Inv, TypeInv, TypeOK
<1>7. ASSUME NEW w \in Workers, Release(w) PROVE ReadInv'
  <2>1. /\ pc' = [pc EXCEPT ![w] = "idle"] /\ acked \subseteq acked'
        /\ seen' = [seen EXCEPT ![w] = NoFile] /\ since' = [since EXCEPT ![w] = {}]
        /\ UNCHANGED <<op, dropped>>
    BY <1>7 DEF Release
  <2> QED BY <2>1 DEF ReadInv, ReadsAreFresh, Inv, TypeInv, TypeOK
<1>8. ASSUME NEW p \in Procs, Crash(p) PROVE ReadInv'
  BY <1>8, CrashResets DEF ReadInv, ReadsAreFresh
<1> QED BY <1>1, <1>2, <1>4, <1>5, <1>6, <1>7, <1>8 DEF Next, Step

(* A read returns what was acknowledged when it began.                        *)
THEOREM ReadsSeeAcknowledged ==
  ASSUME Serialised, Intact
  PROVE  Spec => []ReadsAreFresh
<1>1. Init => ReadInv
  BY DEF Init, ReadInv, ReadsAreFresh
<1>2. Inv /\ ReadInv /\ [Next]_vars => ReadInv'
  BY ReadStep
<1>3. ReadInv => ReadsAreFresh
  BY DEF ReadInv
<1>4. Spec => []Inv
  BY Invariance DEF Intact
<1> QED BY <1>1, <1>2, <1>3, <1>4, PTL DEF Spec

-----------------------------------------------------------------------------
(* The file implements the abstract log.                                     *)

LEMMA LogInit == Init => Log!Init
<1> SUFFICES ASSUME Init PROVE Log!Init
  OBVIOUS
<1> USE ConstantsAssumption
<1>1. CASE path = NoInode
  BY <1>1 DEF Init, Log!Init, Readable, Current, NoFile
<1>2. CASE path # NoInode
  BY <1>2 DEF Init, Log!Init, Readable, Current
<1> QED BY <1>1, <1>2

(* A blob that reaches the file is an Add.                                   *)
LEMMA LogAdd ==
  ASSUME Intact, Inv, NEW w \in Workers, pc[w] = "writing",
         files' = [files EXCEPT ![wfd[w]] = Appended(@, blob[w])],
         UNCHANGED <<path, acked, dropped>>
  PROVE  Log!Add
<1> USE ConstantsAssumption
<1>1. /\ wfd[w] = path /\ path \in Inodes /\ files[path] \in File
      /\ Current = files[path] /\ ~Current.torn
      /\ blob[w] \in Seq(Rec)
      /\ \A b \in RangeOf(blob[w]) : Fresh(b, files[path])
  BY IntactWhole DEF Inv, CoreInv, TypeInv, TypeOK, Current
<1>2. /\ Readable = files[path].ok
      /\ Readable' = files[path].ok \cup RangeOf(blob[w])
  BY <1>1 DEF Readable, Current, Appended, File, Inv, TypeInv, TypeOK
<1>3. RangeOf(blob[w]) \subseteq Rec
  BY <1>1, RangeOfType
<1>4. \A b \in RangeOf(blob[w]) : b.num \notin {r.num : r \in files[path].ok} \ {0}
  <2> SUFFICES ASSUME NEW b \in RangeOf(blob[w]), NEW r \in files[path].ok,
                      b.num = r.num, b.num # 0
               PROVE  FALSE
    OBVIOUS
  <2>1. b \in Rec /\ r \in Rec /\ Fresh(b, files[path])
    BY <1>1, <1>3 DEF File
  <2>2. b.num \in Nat /\ r.num \in Nat
    BY <2>1 DEF Rec
  <2>3. r.num < b.num
    BY <2>1, <2>2 DEF Fresh
  <2> QED
    BY <2>2, <2>3
<1> QED BY <1>2, <1>3, <1>4 DEF Log!Add, Log!Taken

LEMMA LogCompact ==
  ASSUME Inv, NEW w \in Workers, Compact(w)
  PROVE  Log!Drop
<1> USE ConstantsAssumption
<1>1. path \in Inodes /\ seen[w] = files[path] /\ UNCHANGED acked
  BY DEF Compact, Inv, CoreInv, TypeInv
<1>2. PICK drop \in SUBSET seen[w].ok, i \in Inodes :
        /\ path' = i
        /\ files' = [files EXCEPT ![i] = Compacted(seen[w], drop)]
        /\ dropped' = dropped \cup drop
  BY DEF Compact, ReplaceBy
<1>3. Readable = files[path].ok /\ Readable' = files[path].ok \ drop
  BY <1>1, <1>2 DEF Readable, Current, Compacted, Inv, TypeInv, TypeOK
<1> QED BY <1>1, <1>2, <1>3 DEF Log!Drop

LEMMA LogTransform ==
  ASSUME Inv, NEW w \in Workers, TransformAll(w)
  PROVE  Log!Renumber \/ UNCHANGED <<Readable, dropped, acked>>
<1> USE ConstantsAssumption
<1>1. path \in Inodes /\ seen[w] = files[path] /\ UNCHANGED <<acked, dropped>>
  BY DEF TransformAll, Inv, CoreInv, TypeInv, histVars
<1>2. CASE UNCHANGED <<path, files>>
  BY <1>1, <1>2 DEF Readable, Current
<1>3. CASE ReplaceBy(Transformed(seen[w]))
  <2>1. PICK i \in Inodes : path' = i /\ files' = [files EXCEPT ![i] = Transformed(files[path])]
    BY <1>1, <1>3 DEF ReplaceBy
  <2> DEFINE f == files[path]
  <2>2. Readable = f.ok /\ Readable' = Transformed(f).ok
    BY <1>1, <2>1 DEF Readable, Current, Inv, TypeInv, TypeOK
  <2>3. f \in File
    BY <1>1 DEF Inv, TypeInv, TypeOK
  <2> HIDE DEF f
  <2>4. ASSUME NEW r \in f.ok \ Transformed(f).ok
        PROVE  Log!Shared(r) /\ [r EXCEPT !.num = 0] \in Transformed(f).ok
    <3>1. Loser(f, r)
      BY <2>4 DEF Transformed
    <3>2. PICK s \in f.ok : /\ s.num = r.num
                            /\ s.call < r.call \/ (s.call = r.call /\ s.part < r.part)
      BY <3>1 DEF Loser
    <3>3. s # r
      BY <2>3, <3>2 DEF File, Rec
    <3> QED BY <2>2, <3>1, <3>2, <3>3 DEF Log!Shared, Transformed
  <2>5. ASSUME NEW r \in Transformed(f).ok \ f.ok
        PROVE  r.num = 0 /\ \E s \in f.ok \ Transformed(f).ok : r = [s EXCEPT !.num = 0]
    <3>1. PICK s \in f.ok : Loser(f, s) /\ r = [s EXCEPT !.num = 0]
      BY <2>5 DEF Transformed
    <3>2. s \in Rec /\ s.num > 0
      BY <2>3, <3>1 DEF File, Loser
    <3>3. r.num = 0
      BY <3>1, <3>2 DEF Rec
    <3>4. \A q \in f.ok : [q EXCEPT !.num = 0].num = 0
      BY <2>3 DEF File, Rec
    <3>5. s \notin Transformed(f).ok
      BY <3>1, <3>2, <3>4 DEF Transformed
    <3> QED BY <3>1, <3>3, <3>5
  <2> QED BY <1>1, <2>2, <2>4, <2>5 DEF Log!Renumber
<1> QED BY <1>2, <1>3 DEF TransformAll

LEMMA LogStep ==
  ASSUME Serialised, Intact, Inv, AckedReadable', [Next]_vars
  PROVE  Log!Next \/ UNCHANGED <<Readable, dropped, acked>>
<1> USE ConstantsAssumption
<1>1. CASE UNCHANGED vars \/ Exhausted
  <2>1. UNCHANGED vars
    BY <1>1 DEF Exhausted
  <2> QED BY <2>1 DEF vars, histVars, Readable, Current
<1>2. ASSUME NEW w \in Workers, NEW o \in Ops, Call(w, o)
      PROVE  UNCHANGED <<Readable, dropped, acked>>
  BY <1>2 DEF Call, histVars, Readable, Current
<1>3. ASSUME NEW w \in Workers, Enter(w)
      PROVE  UNCHANGED <<Readable, dropped, acked>>
  BY <1>3, EnterCurrent DEF Enter, histVars, Readable, Inv
<1>4. ASSUME NEW w \in Workers, Acquire(w) \/ Load(w) \/ OpenAppend(w)
      PROVE  UNCHANGED <<Readable, dropped, acked>>
  BY <1>4 DEF Acquire, Load, OpenAppend, histVars, Readable, Current
<1>5. ASSUME NEW w \in Workers, Write(w) PROVE Log!Next
  BY <1>5, LogAdd DEF Write, histVars, Log!Next
<1>6. ASSUME NEW w \in Workers, Compact(w) PROVE Log!Next
  BY <1>6, LogCompact DEF Log!Next
<1>7. ASSUME NEW w \in Workers, TransformAll(w)
      PROVE  Log!Next \/ UNCHANGED <<Readable, dropped, acked>>
  BY <1>7, LogTransform DEF Log!Next
<1>8. ASSUME NEW w \in Workers, Release(w) PROVE Log!Next
  <2>1. /\ UNCHANGED <<Readable, dropped>> /\ acked \subseteq acked'
    BY <1>8 DEF Release, Readable, Current
  <2>2. acked' \subseteq Readable' \cup dropped'
    BY DEF AckedReadable
  <2> QED BY <2>1, <2>2 DEF Log!Return, Log!Next
<1>9. ASSUME NEW w \in Workers, WriteStopsShort(w) PROVE FALSE
  BY <1>9 DEF WriteStopsShort, Intact, Inv, TypeInv, TypeOK
<1>10. ASSUME NEW p \in Procs, Crash(p)
       PROVE  Log!Next \/ UNCHANGED <<Readable, dropped, acked>>
  <2>1. UNCHANGED <<path, dropped, acked>>
    BY <1>10 DEF Crash, histVars
  <2>2. CASE UNCHANGED files
    BY <2>1, <2>2 DEF Readable, Current
  <2>3. ASSUME NEW w \in Workers, pc[w] = "writing",
               files' = [files EXCEPT ![wfd[w]] = Appended(@, blob[w])]
        PROVE  Log!Next
    BY <2>1, <2>3, LogAdd DEF Log!Next
  <2>4. ~(tears < MaxTears)
    BY DEF Intact, Inv, TypeInv, TypeOK
  <2> QED BY <1>10, <2>2, <2>3, <2>4 DEF Crash, Killed
<1> QED BY <1>1, <1>2, <1>3, <1>4, <1>5, <1>6, <1>7, <1>8, <1>9, <1>10 DEF Next, Step

(* Where calls are serialised and writes do not stop half way, the calls of  *)
(* jsonl_store, locks, inodes and kills included, do to the records what     *)
(* AbstractLog says and nothing else.                                        *)
THEOREM Refinement ==
  ASSUME Serialised, Intact
  PROVE  Spec => ImplementsLog
<1>1. Inv /\ AckedReadable' /\ [Next]_vars => [Log!Next]_(Log!vars)
  BY LogStep DEF Log!vars
<1>2. Spec => []Inv
  BY Invariance DEF Intact
<1> QED BY <1>1, <1>2, LogInit, NothingAcknowledgedIsLost, PTL DEF Spec, ImplementsLog, Log!Spec
=============================================================================

----------------------------- MODULE FilesProofs -----------------------------
(***************************************************************************)
(* Files that several processes, tools or machines change, for any number  *)
(* of them.  The roadmap: NothingForgotten, as long as nobody reads (reads  *)
(* save, and with Readers TLC finds it violated: roadmap_read); the lock     *)
(* lets a process save what it changed of the file as it still is           *)
(* (RoadInv).  The tools' configuration: StaysServed and OthersKept, from     *)
(* what a call knows of the files it has read (IdeInv).  Archives:           *)
(* NothingOverwritten and ImportsArriveWhole, from what an import has still   *)
(* to extract and to merge (CarryInv).  And the directories in which a server *)
(* finds its project: CallsStayHome, from what the reply of the client has    *)
(* left it bound to (BindInv).  And AGENTS.md with the other managed files:    *)
(* OneBlockAmongTheirs, from the shape of a regenerated file (AgentsInv).     *)
(***************************************************************************)
EXTENDS Roadmap, IdeConfig, Transfer, Binding, AgentsMd, SetLemmas, SequenceTheorems

Nums == Phases \cup {None, 1}
EntryType == [num : Nums, high : BOOLEAN]
RoadType == [cur : [num : Nums, stub : BOOLEAN], up : Seq(EntryType), later : Seq(Nums),
             done : Seq(Nums), tidy : BOOLEAN]

RoadInv ==
  /\ file \in RoadType /\ seen \in [Writers -> RoadType]
  /\ rpc \in [Writers -> {"idle", "change"}]
  /\ \A p \in Writers : rpc[p] = "change" => lock = {p} /\ seen[p] = file
  /\ placed \subseteq OnRoadmap(file) \ {None}

-----------------------------------------------------------------------------
(* Sequences.                                                                 *)

LEMMA AppendKeeps ==
  ASSUME NEW T, NEW s \in Seq(T), NEW e \in T
  PROVE  /\ Append(s, e) \in Seq(T)
         /\ DOMAIN Append(s, e) = DOMAIN s \cup {Len(s) + 1} /\ Len(s) + 1 \notin DOMAIN s
         /\ \A i \in DOMAIN s : Append(s, e)[i] = s[i]
         /\ Append(s, e)[Len(s) + 1] = e
         /\ ToSet(Append(s, e)) = ToSet(s) \cup {e}
<1> DEFINE t == Append(s, e)
           n == Len(s)
<1>1. t \in Seq(T) /\ n \in Nat /\ DOMAIN s = 1 .. n /\ Len(t) = n + 1 /\ t[n + 1] = e
      /\ \A i \in 1 .. n : t[i] = s[i]
  BY AppendProperties, LenProperties
<1>2. DOMAIN t = 1 .. n + 1
  BY <1>1, LenProperties
<1>3. DOMAIN t = DOMAIN s \cup {n + 1} /\ n + 1 \notin DOMAIN s
  BY <1>1, <1>2
<1>4. ToSet(t) = ToSet(s) \cup {e}
  <2> HIDE DEF t, n
  <2> QED
    BY <1>1, <1>3 DEF ToSet
<1> QED
  BY <1>1, <1>3, <1>4

(* What is picked of s are its elements at those places, and no others.       *)
LEMMA PickIs ==
  ASSUME NEW T, NEW s \in Seq(T), NEW at \in SUBSET DOMAIN s
  PROVE  /\ Pick(s, at) \in Seq(T)
         /\ \A i \in at : \E j \in DOMAIN Pick(s, at) : Pick(s, at)[j] = s[i]
<1> DEFINE rank(i) == Cardinality({k \in at : k <= i})
           n == Cardinality(at)
           t == Pick(s, at)
<1>1. DOMAIN s = 1 .. Len(s) /\ Len(s) \in Nat /\ \A i \in DOMAIN s : s[i] \in T
  BY LenProperties, ElementOfSeq
<1>2. at \in SUBSET Nat /\ IsFiniteSet(at)
  <2>1. IsFiniteSet(1 .. Len(s))
    BY <1>1, FS_Interval
  <2> QED
    BY <1>1, <2>1, FS_Subset
<1>3. /\ n \in Nat /\ \A i \in at : rank(i) \in 1 .. n
      /\ \A i, j \in at : rank(i) = rank(j) => i = j
      /\ \A r \in 1 .. n : \E i \in at : rank(i) = r
  BY <1>2, RanksFill
<1>4. t = [j \in 1 .. n |-> s[CHOOSE i \in at : rank(i) = j]]
  BY DEF Pick
<1> HIDE DEF rank, t
<1>5. \A j \in 1 .. n : (CHOOSE i \in at : rank(i) = j) \in at
  BY <1>3
<1>6. \A j \in 1 .. n : t[j] \in T
  BY <1>1, <1>4, <1>5
<1>7. t \in Seq(T)
  <2>1. t = [j \in 1 .. n |-> t[j]]
    BY <1>4
  <2> HIDE DEF n
  <2> QED
    BY <1>3, <1>6, <2>1, SeqDef
<1>8. ASSUME NEW i \in at
      PROVE  rank(i) \in DOMAIN t /\ t[rank(i)] = s[i]
  <2>1. rank(i) \in 1 .. n
    BY <1>3
  <2>2. (CHOOSE j \in at : rank(j) = rank(i)) = i
    BY <1>3
  <2> QED
    BY <1>4, <2>1, <2>2
<1> QED
  BY <1>7, <1>8 DEF t

LEMMA InsertIs ==
  ASSUME NEW T, NEW s \in Seq(T), NEW e \in T, NEW at \in 1 .. Len(s) + 1
  PROVE  /\ InsertAt(s, at, e) \in Seq(T)
         /\ \A i \in DOMAIN s : \E j \in DOMAIN InsertAt(s, at, e) : InsertAt(s, at, e)[j] = s[i]
         /\ \E j \in DOMAIN InsertAt(s, at, e) : InsertAt(s, at, e)[j] = e
<1> DEFINE n == Len(s)
           a == SubSeq(s, 1, at - 1)
           b == SubSeq(s, at, n)
           one == <<e>>
           front == a \o one
           t == front \o b
<1>1. n \in Nat /\ DOMAIN s = 1 .. n /\ \A i \in 1 .. n : s[i] \in T
  BY LenProperties, ElementOfSeq
<1>2. a \in Seq(T) /\ Len(a) = at - 1 /\ \A i \in 1 .. at - 1 : a[i] = s[i]
  BY <1>1, SubSeqProperties
<1>3. b \in Seq(T) /\ Len(b) = n - at + 1 /\ \A i \in 1 .. n - at + 1 : b[i] = s[at + i - 1]
  BY <1>1, SubSeqProperties
<1>4. one \in Seq(T) /\ Len(one) = 1 /\ one[1] = e
  OBVIOUS
<1> HIDE DEF a, b, one
<1>5. /\ front \in Seq(T) /\ Len(front) = at
      /\ \A i \in 1 .. at - 1 : front[i] = s[i]
      /\ front[at] = e
  <2>1. /\ front \in Seq(T) /\ Len(front) = at - 1 + 1
        /\ \A i \in 1 .. at - 1 + 1 : front[i] = IF i <= at - 1 THEN a[i] ELSE one[i - (at - 1)]
    <3>1. /\ front \in Seq(T) /\ Len(front) = Len(a) + Len(one)
          /\ \A i \in 1 .. Len(a) + Len(one) :
               front[i] = IF i <= Len(a) THEN a[i] ELSE one[i - Len(a)]
      BY <1>2, <1>4, ConcatProperties
    <3> HIDE DEF front
    <3> QED
      BY <1>2, <1>4, <3>1
  <2> HIDE DEF front
  <2>2. at \in Nat \ {0} /\ at - 1 + 1 = at /\ at - (at - 1) = 1
    BY <1>1
  <2>3. front[at] = one[1]
    BY <2>1, <2>2
  <2>4. front \in Seq(T) /\ Len(front) = at
    BY <2>1, <2>2
  <2>5. ASSUME NEW i \in 1 .. at - 1
        PROVE  front[i] = s[i]
    <3>1. i \in 1 .. at - 1 + 1 /\ i <= at - 1
      BY <2>2
    <3>2. front[i] = a[i]
      BY <2>1, <3>1
    <3> QED
      BY <1>2, <3>2
  <2>6. front[at] = e
    BY <1>4, <2>3
  <2> QED
    BY <2>4, <2>5, <2>6
<1> HIDE DEF front
<1>6. /\ t \in Seq(T) /\ Len(t) = n + 1
      /\ \A i \in 1 .. at - 1 : t[i] = s[i]
      /\ t[at] = e
      /\ \A i \in at .. n : t[i + 1] = s[i]
  <2>1. t \in Seq(T) /\ Len(t) = at + (n - at + 1)
        /\ \A i \in 1 .. at + (n - at + 1) : t[i] = IF i <= at THEN front[i] ELSE b[i - at]
    BY <1>3, <1>5, ConcatProperties
  <2> HIDE DEF t
  <2>2. \A i \in at .. n : t[i + 1] = b[i + 1 - at] /\ i + 1 - at \in 1 .. n - at + 1
    BY <1>1, <2>1
  <2>3. ASSUME NEW i \in at .. n
        PROVE  t[i + 1] = s[i]
    <3>1. b[i + 1 - at] = s[at + (i + 1 - at) - 1]
      BY <1>3, <2>2
    <3>2. at + (i + 1 - at) - 1 = i
      BY <1>1
    <3> QED
      BY <2>2, <3>1, <3>2
  <2> QED
    BY <1>1, <1>5, <2>1, <2>3
<1>7. InsertAt(s, at, e) = t
  BY DEF InsertAt, t, front, one, a, b
<1> HIDE DEF t
<1>8. DOMAIN t = 1 .. n + 1
  BY <1>1, <1>6, LenProperties
<1>9. ASSUME NEW i \in DOMAIN s
      PROVE  \E j \in DOMAIN t : t[j] = s[i]
  <2>1. CASE i < at
    BY <1>1, <1>6, <1>8, <2>1
  <2>2. CASE i >= at
    BY <1>1, <1>6, <1>8, <2>2
  <2> QED
    BY <1>1, <2>1, <2>2
<1>10. at \in DOMAIN t /\ t[at] = e
  BY <1>1, <1>6, <1>8
<1> QED
  BY <1>6, <1>7, <1>9, <1>10

LEMMA HeadAndTail ==
  ASSUME NEW T, NEW s \in Seq(T), s # <<>>
  PROVE  /\ Head(s) \in T /\ Tail(s) \in Seq(T)
         /\ \A i \in DOMAIN s : s[i] = Head(s) \/ \E j \in DOMAIN Tail(s) : Tail(s)[j] = s[i]
<1> DEFINE n == Len(s)
           t == Tail(s)
<1>1. /\ n \in Nat \ {0} /\ DOMAIN s = 1 .. n /\ Head(s) = s[1] /\ Head(s) \in T
      /\ t \in Seq(T) /\ Len(t) = n - 1 /\ \A i \in 1 .. n - 1 : t[i] = s[i + 1]
  BY EmptySeq, LenProperties, HeadTailProperties, ElementOfSeq
<1>2. DOMAIN t = 1 .. n - 1
  BY <1>1, LenProperties
<1> HIDE DEF t, n
<1>3. ASSUME NEW i \in 2 .. n
      PROVE  i - 1 \in DOMAIN t /\ t[i - 1] = s[i]
  BY <1>1, <1>2
<1>4. \A i \in 1 .. n : i = 1 \/ i \in 2 .. n
  BY <1>1
<1>5. ASSUME NEW i \in 1 .. n
      PROVE  s[i] = Head(s) \/ \E j \in DOMAIN t : t[j] = s[i]
  BY <1>1, <1>3, <1>4
<1> QED
  BY <1>1, <1>5 DEF t

-----------------------------------------------------------------------------
(* Operations on roadmaps.                                                    *)

LEMMA RoadFields ==
  ASSUME NEW r \in RoadType
  PROVE  /\ r.cur.num \in Nums /\ r.cur.stub \in BOOLEAN /\ r.cur = [num |-> r.cur.num, stub |-> r.cur.stub]
         /\ r.up \in Seq(EntryType) /\ r.later \in Seq(Nums) /\ r.done \in Seq(Nums) /\ r.tidy \in BOOLEAN
         /\ r = [cur |-> r.cur, up |-> r.up, later |-> r.later, done |-> r.done, tidy |-> r.tidy]
BY DEF RoadType

(* The phases of r, whatever is current.                                      *)
Listed(r) == Numbers(r.up) \cup ToSet(r.later) \cup ToSet(r.done)

LEMMA OnIs ==
  ASSUME NEW r
  PROVE  OnRoadmap(r) = {r.cur.num} \cup Listed(r)
BY DEF OnRoadmap, Listed

LEMMA AppendDone ==
  ASSUME NEW r \in RoadType, NEW n \in Nums
  PROVE  /\ [r EXCEPT !.done = Append(@, n), !.tidy = FALSE] \in RoadType
         /\ [r EXCEPT !.done = Append(@, n), !.tidy = FALSE].cur = r.cur
         /\ [r EXCEPT !.done = Append(@, n), !.tidy = FALSE].up = r.up
         /\ Listed([r EXCEPT !.done = Append(@, n), !.tidy = FALSE]) = Listed(r) \cup {n}
<1> DEFINE d == Append(r.done, n)
           s == [r EXCEPT !.done = Append(@, n), !.tidy = FALSE]
<1>1. d \in Seq(Nums) /\ ToSet(d) = ToSet(r.done) \cup {n}
  <2>1. r.done \in Seq(Nums)
    BY RoadFields
  <2> QED
    BY ONLY <2>1, n \in Nums, AppendKeeps
<1> HIDE DEF d
<1>2. s = [r EXCEPT !.done = d, !.tidy = FALSE]
  BY DEF d
<1>3. s \in RoadType /\ s.cur = r.cur /\ s.up = r.up /\ s.later = r.later /\ s.done = d
  BY <1>1, <1>2 DEF RoadType
<1> HIDE DEF s
<1>4. Listed(s) = Listed(r) \cup {n}
  BY <1>1, <1>3 DEF Listed
<1> QED
  BY <1>3, <1>4 DEF s

(* A phase that leaves the queue becomes the current one.                     *)
LEMMA AdvancedKeeps ==
  ASSUME NEW r \in RoadType, NEW empty \in [num : Nums, stub : BOOLEAN]
  PROVE  Advanced(r, empty) \in RoadType /\ Listed(r) \subseteq OnRoadmap(Advanced(r, empty))
<1>1. CASE r.up = <<>>
  <2> DEFINE s == [r EXCEPT !.cur = empty]
  <2>1. s \in RoadType /\ s.up = r.up /\ s.later = r.later /\ s.done = r.done
    BY DEF RoadType
  <2>2. Advanced(r, empty) = s
    BY <1>1 DEF Advanced
  <2> HIDE DEF s
  <2> QED
    BY <2>1, <2>2 DEF OnRoadmap, Listed
<1>2. CASE r.up # <<>>
  <2> DEFINE c == [num |-> Head(r.up).num, stub |-> FALSE]
             q == Tail(r.up)
             s == [r EXCEPT !.cur = c, !.up = q]
  <2>1. /\ Head(r.up) \in EntryType /\ q \in Seq(EntryType)
        /\ \A i \in DOMAIN r.up : r.up[i] = Head(r.up) \/ \E j \in DOMAIN q : q[j] = r.up[i]
    BY <1>2, RoadFields, HeadAndTail
  <2>2. c \in [num : Nums, stub : BOOLEAN] /\ c.num = Head(r.up).num
    BY <2>1 DEF EntryType
  <2>3. Advanced(r, empty) = s
    BY <1>2 DEF Advanced
  <2> HIDE DEF c, q
  <2>4. s \in RoadType /\ s.cur = c /\ s.up = q /\ s.later = r.later /\ s.done = r.done
    BY <2>1, <2>2 DEF RoadType
  <2>5. Numbers(r.up) \subseteq {c.num} \cup Numbers(q)
    BY <2>1, <2>2 DEF Numbers
  <2> HIDE DEF s
  <2> QED
    BY <2>3, <2>4, <2>5 DEF OnRoadmap, Listed
<1> QED
  BY <1>1, <1>2

LEMMA WithoutKeeps ==
  ASSUME NEW r \in RoadType, NEW n
  PROVE  /\ Dequeued(r, n) \in RoadType /\ Dequeued(r, n).cur = r.cur
         /\ Dequeued(r, n).later = r.later /\ Dequeued(r, n).done = r.done
         /\ Numbers(r.up) \subseteq Numbers(Dequeued(r, n).up) \cup {n}
<1> DEFINE at == {i \in DOMAIN r.up : r.up[i].num # n}
           q == Pick(r.up, at)
           s == [r EXCEPT !.up = q]
<1>1. q \in Seq(EntryType) /\ \A i \in at : \E j \in DOMAIN q : q[j] = r.up[i]
  <2>1. r.up \in Seq(EntryType) /\ at \in SUBSET DOMAIN r.up
    BY RoadFields
  <2> HIDE DEF at
  <2> QED
    BY <2>1, PickIs
<1>2. Dequeued(r, n) = s
  BY DEF Dequeued
<1> HIDE DEF q
<1>3. s \in RoadType /\ s.cur = r.cur /\ s.up = q /\ s.later = r.later /\ s.done = r.done
  BY <1>1 DEF RoadType
<1>4. Numbers(r.up) \subseteq Numbers(q) \cup {n}
  BY <1>1 DEF Numbers
<1> QED
  BY <1>2, <1>3, <1>4

LEMMA EnqueueKeeps ==
  ASSUME NEW r \in RoadType, NEW n \in Phases, NEW high \in BOOLEAN
  PROVE  Enqueue(r, n, high) \in RoadType /\ OnRoadmap(r) \subseteq OnRoadmap(Enqueue(r, n, high))
<1> DEFINE highs == {i \in DOMAIN r.up : r.up[i].high}
           at == IF ~high THEN Len(r.up) + 1
                 ELSE IF highs = {} THEN 1
                 ELSE 1 + CHOOSE i \in highs : \A j \in highs : j <= i
           e == Entry(n, high)
           q == InsertAt(r.up, at, e)
           s == [r EXCEPT !.up = q, !.tidy = FALSE]
<1>1. r.up \in Seq(EntryType) /\ Len(r.up) \in Nat /\ DOMAIN r.up = 1 .. Len(r.up)
  BY RoadFields, LenProperties
<1>2. at \in 1 .. Len(r.up) + 1
  <2>1. CASE highs # {}
    <3>1. highs \in SUBSET Nat /\ highs \subseteq 1 .. Len(r.up)
      BY <1>1
    <3>2. IsFiniteSet(highs)
      <4>1. IsFiniteSet(1 .. Len(r.up))
        BY <1>1, FS_Interval
      <4> HIDE DEF highs
      <4> QED
        BY <3>1, <4>1, FS_Subset
    <3>3. (CHOOSE i \in highs : \A j \in highs : j <= i) \in highs
      <4> HIDE DEF highs
      <4>1. \E i \in highs : \A j \in highs : j <= i
        BY <2>1, <3>1, <3>2, MaxOfFinite
      <4> QED
        BY <4>1
    <3> DEFINE m == CHOOSE i \in highs : \A j \in highs : j <= i
    <3>4. m \in 1 .. Len(r.up)
      BY <3>1, <3>3
    <3>5. at = IF ~high THEN Len(r.up) + 1 ELSE 1 + m
      BY <2>1
    <3> HIDE DEF m, at
    <3> QED
      BY <1>1, <3>4, <3>5
  <2>2. CASE highs = {}
    BY <1>1, <2>2
  <2> QED
    BY <2>1, <2>2
<1>3. e \in EntryType
  BY DEF Entry, EntryType, Nums
<1>4. Enqueue(r, n, high) = s
  BY DEF Enqueue
<1> HIDE DEF at, e, s
<1>5. q \in Seq(EntryType) /\ \A i \in DOMAIN r.up : \E j \in DOMAIN q : q[j] = r.up[i]
  <2>1. PICK u \in Seq(EntryType) : u = r.up
    BY <1>1
  <2>2. q = InsertAt(u, at, e) /\ at \in 1 .. Len(u) + 1
    BY <1>2, <2>1
  <2> HIDE DEF q
  <2>3. q \in Seq(EntryType) /\ \A i \in DOMAIN u : \E j \in DOMAIN q : q[j] = u[i]
    BY ONLY <1>3, <2>2, u \in Seq(EntryType), InsertIs
  <2> QED
    BY <2>1, <2>3
<1> HIDE DEF q
<1>6. s \in RoadType /\ s.cur = r.cur /\ s.up = q /\ s.later = r.later /\ s.done = r.done
  BY <1>5 DEF RoadType, s
<1>7. Numbers(r.up) \subseteq Numbers(q)
  BY <1>5 DEF Numbers
<1> HIDE DEF s
<1> QED
  BY <1>4, <1>6, <1>7 DEF OnRoadmap

(* The current phase is a real one, or another.                               *)
LEMMA CurrentChanges ==
  ASSUME NEW r \in RoadType, NEW c \in [num : Nums, stub : BOOLEAN]
  PROVE  [r EXCEPT !.cur = c] \in RoadType /\ OnRoadmap([r EXCEPT !.cur = c]) = {c.num} \cup Listed(r)
         /\ Listed([r EXCEPT !.cur = c]) = Listed(r)
<1> DEFINE s == [r EXCEPT !.cur = c]
<1>1. s \in RoadType /\ s.cur = c /\ s.up = r.up /\ s.later = r.later /\ s.done = r.done
  BY DEF RoadType
<1> HIDE DEF s
<1>2. OnRoadmap(s) = {c.num} \cup Listed(r) /\ Listed(s) = Listed(r)
  BY <1>1 DEF OnRoadmap, Listed
<1> QED
  BY <1>1, <1>2 DEF s

LEMMA UpdateStatusKeeps ==
  ASSUME NEW r \in RoadType
  PROVE  UpdateStatus(r) \in RoadType /\ OnRoadmap(UpdateStatus(r)) = OnRoadmap(r)
<1> DEFINE s == UpdateStatus(r)
           c == [r.cur EXCEPT !.stub = FALSE]
<1>1. c \in [num : Nums, stub : BOOLEAN] /\ c.num = r.cur.num
  BY DEF RoadType
<1>2. s = [r EXCEPT !.cur = c]
  <2>1. s = [r EXCEPT !.cur = [@ EXCEPT !.stub = FALSE]]
    BY DEF UpdateStatus
  <2> QED
    BY <2>1
<1> HIDE DEF c, s
<1>3. s \in RoadType /\ OnRoadmap(s) = {c.num} \cup Listed(r)
  <2>1. [r EXCEPT !.cur = c] \in RoadType /\ OnRoadmap([r EXCEPT !.cur = c]) = {c.num} \cup Listed(r)
    BY <1>1, CurrentChanges
  <2> QED
    BY <1>2, <2>1
<1> QED
  BY <1>1, <1>3, OnIs DEF s

LEMMA AddKeeps ==
  ASSUME NEW r \in RoadType, NEW n \in Phases, NEW high \in BOOLEAN
  PROVE  Add(r, n, high) \in RoadType /\ OnRoadmap(r) \subseteq OnRoadmap(Add(r, n, high))
BY UpdateStatusKeeps, EnqueueKeeps DEF Add, UpdateStatus

LEMMA DeferKeeps ==
  ASSUME NEW r \in RoadType, NEW n \in Phases
  PROVE  Defer(r, n) \in RoadType /\ OnRoadmap(r) \subseteq OnRoadmap(Defer(r, n))
<1>1. CASE n \notin Numbers(r.up)
  BY <1>1 DEF Defer
<1>2. CASE n \in Numbers(r.up)
  <2> DEFINE w == Dequeued(r, n)
             l == Append(w.later, n)
             s == [w EXCEPT !.later = l, !.tidy = FALSE]
  <2>1. /\ w \in RoadType /\ w.cur = r.cur /\ w.later = r.later /\ w.done = r.done
        /\ Numbers(r.up) \subseteq Numbers(w.up) \cup {n}
    BY WithoutKeeps
  <2>2. Defer(r, n) = s
    BY <1>2 DEF Defer
  <2> HIDE DEF w
  <2>3. l \in Seq(Nums) /\ ToSet(l) = ToSet(r.later) \cup {n}
    <3>1. w.later \in Seq(Nums) /\ n \in Nums
      BY <2>1, RoadFields DEF Nums
    <3> QED
      BY ONLY <2>1, <3>1, AppendKeeps
  <2> HIDE DEF l
  <2>4. s \in RoadType /\ s.cur = w.cur /\ s.up = w.up /\ s.later = l /\ s.done = w.done
    BY <2>1, <2>3 DEF RoadType
  <2> HIDE DEF s
  <2> QED
    BY <2>1, <2>2, <2>3, <2>4 DEF OnRoadmap
<1> QED
  BY <1>1, <1>2

LEMMA CompleteKeeps ==
  ASSUME NEW r \in RoadType, NEW n \in Phases
  PROVE  Complete(r, n) \in RoadType /\ OnRoadmap(r) \subseteq OnRoadmap(Complete(r, n))
<1>1. CASE r.cur.num # n
  BY <1>1 DEF Complete
<1>2. CASE r.cur.num = n
  <2> DEFINE s == [r EXCEPT !.done = Append(@, n), !.tidy = FALSE]
             none == [num |-> None, stub |-> FALSE]
  <2>1. s \in RoadType /\ Listed(s) = Listed(r) \cup {n}
    BY AppendDone DEF Nums
  <2>2. none \in [num : Nums, stub : BOOLEAN]
    BY DEF Nums
  <2>3. Complete(r, n) = Advanced(s, none)
    BY <1>2 DEF Complete
  <2> HIDE DEF s, none
  <2> QED
    BY <1>2, <2>1, <2>2, <2>3, AdvancedKeeps, OnIs
<1> QED
  BY <1>1, <1>2

LEMMA BackfillKeeps ==
  ASSUME NEW r \in RoadType, NEW n \in Phases
  PROVE  Backfill(r, n) \in RoadType /\ OnRoadmap(r) \subseteq OnRoadmap(Backfill(r, n))
<1> DEFINE s == [r EXCEPT !.done = Append(@, n), !.tidy = FALSE]
<1>1. s \in RoadType /\ Listed(s) = Listed(r) \cup {n} /\ s.cur = r.cur
  BY AppendDone DEF Nums
<1>2. Backfill(r, n) = IF r.cur.num = n THEN Advanced(s, r.cur) ELSE Dequeued(s, n)
  BY DEF Backfill
<1> HIDE DEF s
<1>3. CASE r.cur.num = n
  <2>1. r.cur \in [num : Nums, stub : BOOLEAN]
    BY DEF RoadType
  <2> QED
    BY <1>1, <1>2, <1>3, <2>1, AdvancedKeeps, OnIs
<1>4. CASE r.cur.num # n
  <2> DEFINE w == Dequeued(s, n)
  <2>1. /\ w \in RoadType /\ w.cur = s.cur /\ w.later = s.later /\ w.done = s.done
        /\ Numbers(s.up) \subseteq Numbers(w.up) \cup {n}
    BY <1>1, WithoutKeeps
  <2>2. n \in ToSet(s.done)
    <3>1. n \in ToSet(Append(r.done, n))
      <4>1. r.done \in Seq(Nums) /\ n \in Nums
        BY RoadFields DEF Nums
      <4> QED
        BY ONLY <4>1, AppendKeeps
    <3> QED
      BY <3>1, RoadFields DEF s
  <2> HIDE DEF w
  <2>3. Backfill(r, n) = w
    BY <1>2, <1>4 DEF w
  <2> QED
    BY <1>1, <2>1, <2>2, <2>3 DEF OnRoadmap, Listed
<1> QED
  BY <1>3, <1>4

LEMMA ImportKeeps ==
  ASSUME NEW r \in RoadType, NEW n \in Phases, NEW finished \in BOOLEAN
  PROVE  /\ Import(r, n, finished) \in RoadType
         /\ OnRoadmap(r) \subseteq OnRoadmap(Import(r, n, finished))
<1> DEFINE none == [num |-> None, stub |-> FALSE]
           s == IF r.cur.stub /\ r.cur.num = n THEN [r EXCEPT !.cur = none] ELSE r
           existing == ToSet(r.done) \cup Numbers(r.up)
                       \cup (IF r.cur.stub THEN {} ELSE {r.cur.num})
           d == [s EXCEPT !.done = Append(@, n), !.tidy = FALSE]
           u == [s EXCEPT !.up = Append(@, Entry(n, FALSE)), !.tidy = FALSE]
<1>1. none \in [num : Nums, stub : BOOLEAN] /\ none.num = None /\ n \in Nums
  BY DEF Nums
<1>2. Import(r, n, finished) = IF n \in existing THEN s ELSE IF finished THEN d ELSE u
  BY DEF Import
<1> HIDE DEF none
<1>3. s \in RoadType /\ Listed(s) = Listed(r) /\ OnRoadmap(r) \subseteq OnRoadmap(s) \cup {n}
  BY <1>1, CurrentChanges, OnIs
<1> HIDE DEF s
<1>4. n \in existing => n \in OnRoadmap(s)
  <2>1. CASE n \in ToSet(r.done) \cup Numbers(r.up)
    BY <1>3, <2>1, OnIs DEF Listed
  <2>2. CASE ~r.cur.stub /\ n = r.cur.num
    BY <2>2, OnIs DEF s
  <2> QED
    BY <2>1, <2>2
<1>5. d \in RoadType /\ OnRoadmap(s) \cup {n} = OnRoadmap(d)
  <2>1. d \in RoadType /\ d.cur = s.cur /\ Listed(d) = Listed(s) \cup {n}
    BY ONLY <1>1, <1>3, AppendDone
  <2> HIDE DEF d
  <2> QED
    BY <2>1, OnIs
<1>6. u \in RoadType /\ OnRoadmap(s) \cup {n} \subseteq OnRoadmap(u)
  <2> DEFINE e == Entry(n, FALSE)
             q == Append(s.up, e)
  <2>1. e \in EntryType /\ e.num = n
    BY <1>1 DEF Entry, EntryType
  <2> HIDE DEF e
  <2>2. /\ q \in Seq(EntryType) /\ DOMAIN q = DOMAIN s.up \cup {Len(s.up) + 1}
        /\ \A i \in DOMAIN s.up : q[i] = s.up[i]
        /\ q[Len(s.up) + 1] = e
    <3>1. s.up \in Seq(EntryType)
      BY <1>3, RoadFields
    <3> QED
      BY ONLY <2>1, <3>1, AppendKeeps
  <2> HIDE DEF q
  <2>3. u = [s EXCEPT !.up = q, !.tidy = FALSE]
    BY DEF q, e
  <2>4. u \in RoadType /\ u.cur = s.cur /\ u.up = q /\ u.later = s.later /\ u.done = s.done
    BY <1>3, <2>2, <2>3 DEF RoadType
  <2>5. Numbers(s.up) \cup {n} \subseteq Numbers(q)
    BY <2>1, <2>2 DEF Numbers
  <2> HIDE DEF u
  <2> QED
    BY <2>4, <2>5 DEF OnRoadmap
<1> HIDE DEF d, u, existing
<1> QED
  BY <1>2, <1>3, <1>4, <1>5, <1>6

(* No operation takes a phase off the roadmap.                                *)
LEMMA ResultsKeep ==
  ASSUME NEW r \in RoadType, NEW s \in Results(r)
  PROVE  s \in RoadType /\ OnRoadmap(r) \subseteq OnRoadmap(s)
BY UpdateStatusKeeps, AddKeeps, DeferKeeps, CompleteKeeps, BackfillKeeps, ImportKeeps DEF Results

-----------------------------------------------------------------------------
(* The processes.                                                             *)

LEMMA NoFileIs == NoFile \in RoadType /\ OnRoadmap(NoFile) = {None}
<1>1. NoFile \in RoadType
  <2>1. <<>> \in Seq(EntryType) /\ <<>> \in Seq(Nums)
    OBVIOUS
  <2> QED
    BY <2>1 DEF NoFile, RoadType, Nums
<1>2. /\ NoFile.cur.num = None /\ NoFile.up = <<>> /\ NoFile.later = <<>> /\ NoFile.done = <<>>
  BY DEF NoFile
<1>3. Numbers(<<>>) = {} /\ ToSet(<<>>) = {}
  BY DEF Numbers, ToSet
<1> QED
  BY <1>1, <1>2, <1>3 DEF OnRoadmap

LEMMA StubIs == Stub \in RoadType
<1> DEFINE c == [num |-> 1, stub |-> TRUE]
<1>1. c \in [num : Nums, stub : BOOLEAN]
  BY DEF Nums
<1> HIDE DEF c
<1>2. [NoFile EXCEPT !.cur = c, !.tidy = TRUE] \in RoadType
  BY <1>1, NoFileIs DEF RoadType
<1> QED
  BY <1>2 DEF Stub, c

(* A load keeps what the file holds.                                          *)
LEMMA LoadedKeeps ==
  ASSUME file \in RoadType
  PROVE  Loaded \in RoadType /\ OnRoadmap(file) \ {None} \subseteq OnRoadmap(Loaded)
<1>1. CASE file = NoFile
  BY <1>1, NoFileIs, StubIs DEF Loaded
<1>2. CASE file # NoFile
  <2> DEFINE s == [file EXCEPT !.tidy = TRUE]
  <2>1. /\ s \in RoadType /\ s.cur = file.cur /\ s.up = file.up /\ s.later = file.later
        /\ s.done = file.done
    BY DEF RoadType
  <2>2. Loaded = s
    BY <1>2 DEF Loaded
  <2> HIDE DEF s
  <2> QED
    BY <2>1, <2>2 DEF OnRoadmap
<1> QED
  BY <1>1, <1>2

LEMMA InitRoad == ASSUME Readers = {}, RInit PROVE RoadInv
BY NoFileIs DEF RInit, RoadInv

LEMMA LoadRoad ==
  ASSUME RoadInv, Readers = {}, NEW p \in Writers, Load(p)
  PROVE  RoadInv'
<1>1. /\ file' = Loaded /\ Loaded \in RoadType /\ lock = {} /\ lock' = {p} /\ placed' = placed
      /\ seen' = [seen EXCEPT ![p] = Loaded] /\ rpc' = [rpc EXCEPT ![p] = "change"]
  BY LoadedKeeps DEF Load, RoadInv
<1>2. seen' \in [Writers -> RoadType] /\ rpc' \in [Writers -> {"idle", "change"}]
      /\ seen'[p] = file'
  BY <1>1 DEF RoadInv
<1>3. ASSUME NEW q \in Writers, rpc'[q] = "change"
      PROVE  lock' = {q} /\ seen'[q] = file'
  <2>1. CASE q = p
    BY <1>1, <1>2, <2>1
  <2>2. CASE q # p
    BY <1>1, <1>3, <2>2 DEF RoadInv
  <2> QED
    BY <2>1, <2>2
<1>4. placed' \subseteq OnRoadmap(file)' \ {None}
  <2>1. placed \subseteq OnRoadmap(Loaded) \ {None}
    BY LoadedKeeps DEF RoadInv
  <2>2. OnRoadmap(file)' = OnRoadmap(Loaded)
    BY <1>1 DEF OnRoadmap
  <2> QED
    BY <1>1, <2>1, <2>2
<1> QED
  BY <1>1, <1>2, <1>3, <1>4 DEF RoadInv

(* The lock is why the file a process saves over is the one it changed.       *)
LEMMA SaveRoad ==
  ASSUME RoadInv, Readers = {}, NEW p \in Writers, Save(p)
  PROVE  RoadInv'
<1>1. /\ rpc[p] = "change" /\ lock = {p} /\ seen[p] = file /\ lock' = {}
      /\ seen' = [seen EXCEPT ![p] = NoFile] /\ rpc' = [rpc EXCEPT ![p] = "idle"]
  BY DEF Save, RoadInv
<1>2. PICK r \in Results(seen[p]) :
         /\ file' = r
         /\ placed' = placed \cup (OnRoadmap(r) \ (OnRoadmap(seen[p]) \cup {None}))
                           \cup (IF r.cur.stub THEN {} ELSE {r.cur.num} \ {None})
  BY DEF Save
<1>3. r \in RoadType /\ OnRoadmap(file) \subseteq OnRoadmap(r)
  BY <1>1, <1>2, ResultsKeep DEF RoadInv
<1>4. seen' \in [Writers -> RoadType] /\ rpc' \in [Writers -> {"idle", "change"}]
  BY <1>1, NoFileIs DEF RoadInv
<1>5. \A q \in Writers : rpc'[q] # "change"
  BY <1>1 DEF RoadInv
<1>6. placed' \subseteq OnRoadmap(file)' \ {None}
  <2>1. placed \subseteq OnRoadmap(r) \ {None}
    BY <1>3 DEF RoadInv
  <2>2. r.cur.num \in OnRoadmap(r)
    BY DEF OnRoadmap
  <2>3. OnRoadmap(file)' = OnRoadmap(r)
    BY <1>2 DEF OnRoadmap
  <2> QED
    BY <1>2, <2>1, <2>2, <2>3
<1> QED
  BY <1>2, <1>3, <1>4, <1>5, <1>6 DEF RoadInv

(* NothingForgotten: a phase that a saved call has put on the roadmap is      *)
(* current, queued, deferred or completed from then on, whatever the other    *)
(* processes do meanwhile, as long as they all take the lock                  *)
(* (mcp_server/tools/roadmap.py: add, defer, complete, backfill, import and   *)
(* update_phase_status).  Reads, which save without it, are the hypothesis.   *)
THEOREM NothingIsForgotten == ASSUME Readers = {} PROVE RSpec => []NothingForgotten
<1>1. RInit => RoadInv
  BY InitRoad
<1>2. RoadInv /\ [RNext]_rvars => RoadInv'
  <2> SUFFICES ASSUME RoadInv, [RNext]_rvars PROVE RoadInv'
    OBVIOUS
  <2>1. CASE UNCHANGED rvars
    <3>1. OnRoadmap(file)' = OnRoadmap(file)
      BY <2>1 DEF rvars, OnRoadmap
    <3> QED
      BY <2>1, <3>1 DEF rvars, RoadInv
  <2>2. CASE RNext
    BY <2>2, LoadRoad, SaveRoad DEF RNext
  <2> QED
    BY <2>1, <2>2
<1>3. RoadInv => NothingForgotten
  BY DEF RoadInv, NothingForgotten
<1> QED
  BY <1>1, <1>2, <1>3, PTL DEF RSpec

-----------------------------------------------------------------------------
(* The tools' configuration files.                                           *)

Ids == DOMAIN Key \cup {NoProject}
Entries == [scope : Ids, key : {Bare} \cup {Key[p] : p \in DOMAIN Key}, bound : Ids]
ConfFile == [state : {"json", "garbled"}, others : SUBSET Others, reg : SUBSET Entries]
Calls == [op : {"none", "setup", "init", "untrack", "register", "fix"}, p : Ids,
          todo : SUBSET Surfaces, at : {"idle", "read", "write", "verify", "rollback"},
          mem : ConfFile, found : SUBSET DOMAIN Key, snap : [{"ag1", "ag2"} -> ConfFile],
          written : SUBSET {"ag1"}]

CallOk(k) ==
  /\ k \in Calls /\ k.mem.state = "json"
  /\ k.op \in {"setup", "init", "untrack"} => k.p \in DOMAIN Key
  /\ k.at \in {"read", "write", "verify"} => k.todo # {} /\ k.op # "none"

ConfType ==
  /\ conf \in [Surfaces -> ConfFile] /\ DOMAIN call = Callers /\ call = [c \in Callers |-> call[c]]
  /\ \A c \in Callers : CallOk(call[c])
  /\ since \in [Callers -> SUBSET Surfaces] /\ fresh \in [Callers -> BOOLEAN]
  /\ served \subseteq DOMAIN Key

(* A call goes on to its next file, or ends.                                 *)
Goes(c, k) ==
  /\ CallOk(k) /\ k.at \in {"idle", "read", "rollback"}
  /\ k.at = "read" => "claude" \notin k.todo

LEMMA FirstIsLeft ==
  ASSUME NEW left \in SUBSET Surfaces, left # {}
  PROVE  /\ First(left) \in left
         /\ First(left) = "claude" <=> "claude" \in left
         /\ First(left) = "ag2" => left = {"ag2"}
BY DEF First, Surfaces, Flat

LEMMA NoCallOk == CallOk(NoCall) /\ Blank \in ConfFile
<1>1. Blank \in ConfFile /\ Blank.state = "json"
  BY DEF Blank, ConfFile
<1> QED BY <1>1 DEF CallOk, NoCall, Calls, Ids

LEMMA NextGoes ==
  ASSUME ConfType, NEW c \in Callers, call[c].at \in {"write", "verify"}
  PROVE  \E k : /\ Next1(c) = [call EXCEPT ![c] = k] /\ Goes(c, k)
                /\ k.at = "read" => k.written = call[c].written
<1> DEFINE rest == call[c].todo \ {First(call[c].todo)}
           on == [call[c] EXCEPT !.todo = rest, !.at = "read", !.mem = Blank]
<1>1. CallOk(call[c]) /\ call[c].todo \in SUBSET Surfaces /\ call[c].todo # {} /\ call[c].op # "none"
  BY DEF ConfType, CallOk, Calls
<1>2. "claude" \notin rest
  BY <1>1, FirstIsLeft
<1>3. CASE rest = {}
  <2>1. Next1(c) = [call EXCEPT ![c] = NoCall]
    BY <1>3 DEF Next1
  <2>2. Goes(c, NoCall) /\ NoCall.at = "idle"
    BY NoCallOk DEF Goes, NoCall
  <2> QED BY <2>1, <2>2
<1>4. CASE rest # {}
  <2>1. Next1(c) = [call EXCEPT ![c] = on]
    BY <1>4 DEF Next1
  <2>2. on \in Calls /\ on.todo = rest /\ on.at = "read" /\ on.mem = Blank /\ on.op = call[c].op
        /\ on.p = call[c].p /\ on.written = call[c].written
    BY <1>1, NoCallOk DEF CallOk, Calls
  <2>3. CallOk(on)
    BY <1>1, <1>4, <2>2 DEF CallOk, Blank
  <2> QED BY <1>2, <2>1, <2>2, <2>3 DEF Goes
<1> QED BY <1>3, <1>4

LEMMA FailedGoes ==
  ASSUME ConfType, NEW c \in Callers, call[c].at \in {"write", "verify"}, Failed(c)
  PROVE  \E k : call' = [call EXCEPT ![c] = k] /\ Goes(c, k)
<1> DEFINE back == [call[c] EXCEPT !.at = "rollback"]
<1>1. CallOk(call[c])
  BY DEF ConfType
<1>2. back.at = "rollback" /\ CallOk(back)
  BY <1>1 DEF CallOk, Calls
<1>3. Goes(c, back) /\ Goes(c, NoCall)
  BY <1>2, NoCallOk DEF Goes, NoCall
<1>4. \/ call' = [call EXCEPT ![c] = back] \/ call' = Next1(c) \/ call' = [call EXCEPT ![c] = NoCall]
  BY DEF Failed
<1> QED BY <1>3, <1>4, NextGoes

LEMMA ParsedType ==
  ASSUME ConfType, NEW s \in Surfaces PROVE Parsed(s) \in ConfFile /\ Parsed(s).state = "json"
BY NoCallOk DEF ConfType, Parsed, Blank, ConfFile

LEMMA FoundType == ASSUME ConfType PROVE Found \subseteq DOMAIN Key
<1>1. \A s \in {"claude", "ag1", "ag2"} : Parsed(s).reg \subseteq Entries
  BY ParsedType DEF Surfaces, Flat, ConfFile
<1>2. \A s \in {"claude", "ag1", "ag2"} : \A e \in Parsed(s).reg : e.scope \in Ids /\ e.bound \in Ids
  BY <1>1 DEF Entries
<1> QED BY <1>2 DEF Found, Ids

LEMMA EditedType ==
  ASSUME IdeConfigAssumption, ConfType, NEW c \in Callers, call[c].op # "none",
         NEW s \in Surfaces, NEW reg \in SUBSET Entries
  PROVE  Edited(c, s, reg) \subseteq Entries
<1> DEFINE p == call[c].p
           op == call[c].op
           found == call[c].found
<1>1. /\ p \in Ids /\ found \subseteq DOMAIN Key
      /\ op \in {"setup", "init", "untrack", "register", "fix"}
      /\ op \in {"setup", "init", "untrack"} => p \in DOMAIN Key
  BY DEF ConfType, CallOk, Calls
<1>2. Dynamic \subseteq Entries /\ Server(Top, Bare, NoProject) \in Entries
  BY DEF Dynamic, Server, Entries, Ids, Top, NoProject
<1>3. \A ps \in SUBSET DOMAIN Key : PerProject(ps) \subseteq Entries
  BY DEF PerProject, Server, Entries, Ids
<1>4. \A ps \in SUBSET DOMAIN Key : Pinned(ps) \subseteq Entries
  <2> SUFFICES ASSUME NEW ps \in SUBSET DOMAIN Key, NEW k \in {Key[q] : q \in ps}
               PROVE  Server(Top, k, Max({q \in ps : Key[q] = k})) \in Entries
    BY DEF Pinned
  <2>1. {q \in ps : Key[q] = k} \in SUBSET Nat /\ {q \in ps : Key[q] = k} # {}
    BY DEF IdeConfigAssumption
  <2>2. IsFiniteSet({q \in ps : Key[q] = k})
    BY FS_Subset DEF IdeConfigAssumption
  <2>3. Max({q \in ps : Key[q] = k}) \in DOMAIN Key
    BY <2>1, <2>2, MaxOfFinite
  <2> QED BY <2>3 DEF Server, Entries, Ids, Top, NoProject
<1>5. op \in {"setup", "init", "untrack"} => Server(Top, Key[p], p) \in Entries
  BY <1>1 DEF Server, Entries, Ids, Top, NoProject
<1>6. \A e \in Entries : WithServer(reg, e) \subseteq Entries
  BY DEF WithServer
<1>7. CASE op \in {"setup", "init"} /\ s = "claude"
  <2>1. Edited(c, s, reg) = Scoped(reg, p)
    BY <1>7 DEF Edited
  <2> QED BY <1>1, <1>3, <1>7, <2>1 DEF Scoped
<1>8. CASE op \in {"setup", "init"} /\ s # "claude"
  <2>1. \/ Edited(c, s, reg) = WithServer(reg, Server(Top, Bare, NoProject))
        \/ Edited(c, s, reg) = WithServer(reg, Server(Top, Key[p], p))
    BY <1>8 DEF Edited
  <2> QED BY <1>2, <1>5, <1>6, <1>8, <2>1
<1>9. CASE op = "register"
  <2>1. \/ Edited(c, s, reg) = PerProject(found)
        \/ Edited(c, s, reg) = Dynamic \/ Edited(c, s, reg) = Pinned(found)
    BY <1>9 DEF Edited
  <2> QED BY <1>1, <1>2, <1>3, <1>4, <2>1
<1>10. CASE op = "untrack"
  BY <1>10 DEF Edited
<1>11. CASE op = "fix"
  BY <1>11 DEF Edited
<1> QED BY <1>1, <1>7, <1>8, <1>9, <1>10, <1>11

LEMMA WroteType ==
  ASSUME ConfType, NEW c, NEW s \in Surfaces, Wrote(c, s)
  PROVE  /\ since' \in [Callers -> SUBSET Surfaces] /\ fresh' \in [Callers -> BOOLEAN]
         /\ \A d \in Callers \ {c} : /\ call[d] = NoCall \/ s \in since'[d]
                                     /\ since[d] \subseteq since'[d]
                                     /\ fresh'[d] => fresh[d] /\ ~(call[d].at = "write" /\ First(call[d].todo) = s)
BY DEF ConfType, Wrote

(* One call changes, the others go on.                                        *)
LEMMA OneCall ==
  ASSUME ConfType, NEW c \in Callers, NEW k, call' = [call EXCEPT ![c] = k], CallOk(k),
         conf' \in [Surfaces -> ConfFile], served' \subseteq DOMAIN Key,
         since' \in [Callers -> SUBSET Surfaces], fresh' \in [Callers -> BOOLEAN]
  PROVE  ConfType' /\ call'[c] = k /\ \A d \in Callers \ {c} : call'[d] = call[d]
<1>1. /\ DOMAIN call' = Callers /\ call' = [d \in Callers |-> call'[d]]
      /\ call'[c] = k /\ \A d \in Callers \ {c} : call'[d] = call[d]
  BY DEF ConfType
<1>2. \A d \in Callers : CallOk(call'[d])
  BY <1>1 DEF ConfType
<1>3. \A d \in Callers : CallOk(call'[d]) <=> CallOk(call[d])'
  BY DEF CallOk, Calls, ConfFile, Entries, Ids
<1> QED BY <1>1, <1>2, <1>3 DEF ConfType

LEMMA BeginType == ASSUME IdeConfigAssumption, ConfType, NEW c \in Callers, BeginCall(c) PROVE ConfType'
<1>1. PICK r \in Requests :
        /\ Plan(r[1], r[2]) # {}
        /\ call' = [call EXCEPT ![c] = [NoCall EXCEPT
                      !.op = r[1], !.p = r[2], !.todo = Plan(r[1], r[2]), !.at = "read",
                      !.found = IF r[1] = "register" THEN Found ELSE {}]]
  BY DEF BeginCall
<1> DEFINE k == [NoCall EXCEPT !.op = r[1], !.p = r[2], !.todo = Plan(r[1], r[2]), !.at = "read",
                               !.found = IF r[1] = "register" THEN Found ELSE {}]
<1>2. /\ r[1] \in {"setup", "init", "untrack", "register", "fix"} /\ r[2] \in Ids
      /\ r[1] \in {"setup", "init", "untrack"} => r[2] \in DOMAIN Key
  BY DEF IdeConfigAssumption, Ids
<1>3. Plan(r[1], r[2]) \subseteq Surfaces
  BY DEF Plan, Surfaces
<1>4. Found \subseteq DOMAIN Key
  BY FoundType
<1>5. /\ k.op = r[1] /\ k.p = r[2] /\ k.todo = Plan(r[1], r[2]) /\ k.at = "read" /\ k.mem = Blank
      /\ k \in Calls
  BY <1>2, <1>3, <1>4, NoCallOk DEF NoCall, Calls, CallOk
<1>6. CallOk(k)
  BY <1>1, <1>2, <1>5 DEF CallOk, Blank
<1>7. UNCHANGED <<conf, fresh, served>> /\ since' \in [Callers -> SUBSET Surfaces]
  BY DEF BeginCall, ConfType
<1> QED BY <1>1, <1>6, <1>7, OneCall DEF ConfType

LEMMA ReadType == ASSUME ConfType, NEW c \in Callers, ReadFile(c) PROVE ConfType'
<1> DEFINE s == First(call[c].todo)
           k == [call[c] EXCEPT !.at = "write", !.mem = Parsed(s),
                   !.snap = IF InPair(c, s) THEN [@ EXCEPT ![s] = conf[s]] ELSE @]
<1>1. CallOk(call[c]) /\ call[c] \in Calls /\ call[c].todo # {} /\ s \in Surfaces
  BY FirstIsLeft DEF ConfType, ReadFile, CallOk, Calls
<1>2. call' = [call EXCEPT ![c] = k]
  BY DEF ReadFile, ConfType
<1>3. Parsed(s) \in ConfFile /\ Parsed(s).state = "json" /\ conf[s] \in ConfFile
  BY <1>1, ParsedType DEF ConfType
<1>4. call[c].snap \in [{"ag1", "ag2"} -> ConfFile]
  BY <1>1 DEF Calls
<1>5. k \in Calls /\ k.mem = Parsed(s) /\ k.op = call[c].op /\ k.p = call[c].p
      /\ k.todo = call[c].todo /\ k.at = "write"
  <2>1. k.snap \in [{"ag1", "ag2"} -> ConfFile]
    BY <1>1, <1>3, <1>4 DEF Calls, InPair
  <2> HIDE DEF s
  <2> QED BY <1>1, <1>3, <2>1 DEF Calls
<1>6. CallOk(k)
  BY <1>1, <1>3, <1>5 DEF CallOk, ReadFile
<1>7. UNCHANGED <<conf, since, served>> /\ fresh' \in [Callers -> BOOLEAN]
  BY DEF ReadFile, ConfType
<1> QED BY <1>2, <1>6, <1>7, OneCall DEF ConfType

(* What WriteFile does to a file, when it does: what it has read is edited.        *)
Puts(c, s, k) ==
  /\ s = First(call[c].todo) /\ s \in call[c].todo /\ ~Guarded(s)
  /\ \E reg \in SUBSET Entries :
       /\ reg = Edited(c, s, call[c].mem.reg)
       /\ call[c].op = "untrack" => reg # call[c].mem.reg
       /\ conf' = [conf EXCEPT ![s] = [call[c].mem EXCEPT !.reg = reg]]
       /\ conf'[s].reg = reg
  /\ conf'[s].others = call[c].mem.others /\ conf'[s].state = "json"
  /\ k = [call[c] EXCEPT !.at = "verify", !.mem = conf'[s]]
  /\ CallOk(k) /\ k.at = "verify" /\ conf' \in [Surfaces -> ConfFile]
  /\ Wrote(c, s) /\ served' = Served(c, s)

LEMMA WriteDoes ==
  ASSUME IdeConfigAssumption, ConfType, NEW c \in Callers, WriteFile(c)
  PROVE  \E k : /\ call' = [call EXCEPT ![c] = k]
                /\ \/ Goes(c, k) /\ UNCHANGED <<conf, since, fresh, served>>
                   \/ \E s \in Surfaces : Puts(c, s, k)
<1> DEFINE s == First(call[c].todo)
           had == call[c].mem
           reg == Edited(c, s, had.reg)
           whole == [had EXCEPT !.reg = reg]
           k == [call[c] EXCEPT !.at = "verify", !.mem = whole]
<1>1. /\ call[c].at = "write" /\ CallOk(call[c]) /\ had \in ConfFile /\ had.state = "json"
      /\ call[c].op # "none" /\ s \in call[c].todo /\ s \in Surfaces
  BY FirstIsLeft DEF ConfType, WriteFile, CallOk, Calls
<1>2. CASE reg = had.reg /\ call[c].op \in {"untrack", "fix"}
  BY <1>1, <1>2, NextGoes DEF WriteFile
<1>3. CASE ~(reg = had.reg /\ call[c].op \in {"untrack", "fix"}) /\ Guarded(s)
  BY <1>1, <1>3, FailedGoes DEF WriteFile
<1>4. CASE ~(reg = had.reg /\ call[c].op \in {"untrack", "fix"}) /\ ~Guarded(s)
  <2>1. /\ conf' = [conf EXCEPT ![s] = whole] /\ Wrote(c, s) /\ served' = Served(c, s)
        /\ call' = [call EXCEPT ![c].at = "verify", ![c].mem = conf'[s]]
    BY <1>4 DEF WriteFile
  <2>2. reg \in SUBSET Entries
    BY <1>1, EditedType DEF ConfFile
  <2>3. /\ whole \in ConfFile /\ whole.state = "json" /\ whole.others = had.others /\ whole.reg = reg
    BY <1>1, <2>2 DEF ConfFile
  <2>4. conf' \in [Surfaces -> ConfFile] /\ conf'[s] = whole
    BY <1>1, <2>1, <2>3 DEF ConfType
  <2>5. call' = [call EXCEPT ![c] = k]
    <3>1. DOMAIN call = Callers
      BY DEF ConfType
    <3> HIDE DEF whole
    <3> QED BY <2>1, <2>4, <3>1
  <2>6. k \in Calls /\ k.at = "verify" /\ k.mem = whole /\ k.op = call[c].op /\ k.p = call[c].p
        /\ k.todo = call[c].todo
    <3> HIDE DEF whole
    <3> QED BY <1>1, <2>3 DEF CallOk, Calls
  <2>7. CallOk(k)
    BY <1>1, <2>3, <2>6 DEF CallOk
  <2>8. k = [call[c] EXCEPT !.at = "verify", !.mem = conf'[s]]
    BY <2>4
  <2>9. Puts(c, s, k)
    BY <1>1, <1>4, <2>1, <2>2, <2>3, <2>4, <2>6, <2>7, <2>8 DEF Puts
  <2> QED BY <1>1, <2>5, <2>9
<1> QED BY <1>2, <1>3, <1>4

LEMMA VerifyDoes ==
  ASSUME ConfType, NEW c \in Callers, Verify(c)
  PROVE  /\ \E k : call' = [call EXCEPT ![c] = k] /\ Goes(c, k)
         /\ UNCHANGED <<conf, since, fresh, served>>
<1> DEFINE s == First(call[c].todo)
<1>1. /\ call[c].at = "verify" /\ CallOk(call[c]) /\ call[c].todo \in SUBSET Surfaces
      /\ call[c].todo # {} /\ s \in call[c].todo /\ UNCHANGED <<conf, since, fresh, served>>
  BY FirstIsLeft DEF ConfType, Verify, CallOk, Calls
<1>2. CASE Failed(c)
  BY <1>1, <1>2, FailedGoes
<1>3. CASE call' = Next1(c)
  BY <1>1, <1>3, NextGoes
<1>4. CASE InPair(c, s) /\ call[c].todo # {s} /\ call' = [Next1(c) EXCEPT ![c].written = @ \cup {s}]
  <2>1. PICK k : Next1(c) = [call EXCEPT ![c] = k] /\ Goes(c, k)
    BY <1>1, NextGoes
  <2> DEFINE l == [k EXCEPT !.written = @ \cup {s}]
  <2>2. s = "ag1"
    BY <1>1, <1>4, FirstIsLeft DEF InPair
  <2>3. k \in Calls
    BY <2>1 DEF Goes, CallOk
  <2>4. call' = [call EXCEPT ![c] = l]
    BY <1>4, <2>1 DEF ConfType
  <2>5. l \in Calls /\ l.at = k.at /\ l.mem = k.mem /\ l.op = k.op /\ l.p = k.p /\ l.todo = k.todo
    BY <2>2, <2>3 DEF Calls
  <2>6. Goes(c, l)
    BY <2>1, <2>5 DEF Goes, CallOk
  <2> QED BY <1>1, <2>4, <2>6
<1> QED BY <1>1, <1>2, <1>3, <1>4 DEF Verify

LEMMA RollbackDoes ==
  ASSUME ConfType, NEW c \in Callers, Rollback(c)
  PROVE  /\ call' = [call EXCEPT ![c] = NoCall] /\ UNCHANGED served
         /\ conf' \in [Surfaces -> ConfFile]
         /\ \A s \in Surfaces \ {"ag1"} : conf'[s] = conf[s]
         /\ \/ UNCHANGED <<conf, since, fresh>>
            \/ Wrote(c, "ag1")
<1>1. /\ call[c].written \subseteq {"ag1"} /\ call[c].snap \in [{"ag1", "ag2"} -> ConfFile]
  BY DEF ConfType, CallOk, Calls
<1>2. conf' = [s \in Surfaces |-> IF s \in call[c].written THEN call[c].snap[s] ELSE conf[s]]
  BY DEF Rollback
<1>3. conf' \in [Surfaces -> ConfFile] /\ \A s \in Surfaces \ {"ag1"} : conf'[s] = conf[s]
  BY <1>1, <1>2 DEF ConfType
<1>4. call[c].written = {} => UNCHANGED conf
  BY <1>2 DEF ConfType
<1> QED BY <1>3, <1>4 DEF Rollback

(* A tool changes what is not codevira's in a file, or completes the file.      *)
LEMMA ToolDoes ==
  ASSUME IdeConfigAssumption, ConfType, NEW s \in Surfaces, ToolWrites(s) \/ ToolCompletes(s)
  PROVE  /\ conf' \in [Surfaces -> ConfFile] /\ conf'[s].reg = conf[s].reg
         /\ \A t \in Surfaces \ {s} : conf'[t] = conf[t]
         /\ Wrote(NoProject, s) /\ UNCHANGED <<call, served>>
<1>1. conf[s] \in ConfFile
  BY DEF ConfType
<1>2. PICK o \in SUBSET Others, st \in {"json", "garbled"} :
        conf' = [conf EXCEPT ![s] = [@ EXCEPT !.others = o, !.state = st]]
  <2>1. CASE ToolWrites(s)
    <3>1. PICK o \in SUBSET Others, st \in {"json", "garbled"} :
            conf' = [conf EXCEPT ![s].others = o, ![s].state = st]
      BY <2>1 DEF ToolWrites
    <3>2. conf' = [conf EXCEPT ![s] = [@ EXCEPT !.others = o, !.state = st]]
      BY <3>1 DEF ConfType
    <3> QED BY <3>2
  <2>2. CASE ToolCompletes(s)
    <3>1. [conf[s] EXCEPT !.state = "json"] = [conf[s] EXCEPT !.others = conf[s].others, !.state = "json"]
      BY <1>1 DEF ConfFile
    <3>2. conf' = [conf EXCEPT ![s] = [@ EXCEPT !.others = conf[s].others, !.state = "json"]]
      BY <2>2, <3>1 DEF ToolCompletes, ConfType
    <3> QED BY <1>1, <3>2 DEF ConfFile
  <2> QED BY <2>1, <2>2
<1> DEFINE new == [conf[s] EXCEPT !.others = o, !.state = st]
<1>3. new \in ConfFile /\ new.reg = conf[s].reg
  BY <1>1 DEF ConfFile
<1>4. conf' = [conf EXCEPT ![s] = new]
  BY <1>2
<1>5. conf' \in [Surfaces -> ConfFile] /\ conf'[s] = new /\ \A t \in Surfaces \ {s} : conf'[t] = conf[t]
  BY <1>3, <1>4 DEF ConfType
<1> QED BY <1>3, <1>5 DEF ToolWrites, ToolCompletes

-----------------------------------------------------------------------------
(* What registered projects have, and what a call knows of the files.         *)

Has(reg, p) == \E e \in reg : e.scope = p /\ e.bound = p
Sound(reg) == \A e \in reg : e.scope # Top => e.bound = e.scope

(* Before it writes a file that nobody wrote since, a call has what it read; of   *)
(* Claude Code's it has what the registered projects need, unless it knows that  *)
(* others wrote the file.                                                     *)
KnowsFile(c) ==
  call[c].at = "write" /\ fresh[c] => call[c].mem.others = Parsed(First(call[c].todo)).others

KnowsClaude(c) ==
  call[c].at = "write" /\ "claude" \in call[c].todo =>
    /\ Sound(call[c].mem.reg)
    /\ "claude" \notin since[c] => call[c].mem = Parsed("claude")
    /\ call[c].op = "untrack" => call[c].mem.reg = {} \/ \A p \in served : Has(call[c].mem.reg, p)

KnowsFound(c) ==
  /\ call[c].at \in {"read", "write"} /\ call[c].op = "register"
  /\ "claude" \in call[c].todo \ since[c] /\ conf["claude"].state = "json"
  => served \subseteq call[c].found

Knows(c) == KnowsFile(c) /\ KnowsClaude(c) /\ KnowsFound(c)

IdeInv ==
  /\ ConfType
  /\ StaysServed /\ Sound(conf["claude"].reg)
  /\ \A c \in Callers : Knows(c)

(* A call that waits keeps what it knows: who writes the file it has read, takes  *)
(* away that it is fresh, and who writes Claude Code's is noticed.             *)
LEMMA WaitingKnow ==
  ASSUME IdeInv, NEW d \in Callers, call'[d] = call[d], since[d] \subseteq since'[d],
         fresh'[d] => fresh[d],
         call[d].at = "write" /\ fresh'[d] => conf'[First(call[d].todo)] = conf[First(call[d].todo)],
         call[d] = NoCall \/ conf'["claude"] = conf["claude"] \/ "claude" \in since'[d],
         call[d] = NoCall \/ served' \subseteq served
  PROVE  Knows(d)'
<1>1. CASE call[d] = NoCall
  BY <1>1 DEF Knows, KnowsFile, KnowsClaude, KnowsFound, NoCall
<1>2. CASE call[d] # NoCall
  <2>1. Knows(d) /\ served' \subseteq served
    BY <1>2 DEF IdeInv
  <2>2. KnowsFile(d)'
    BY <2>1 DEF Knows, KnowsFile, Parsed
  <2>3. KnowsClaude(d)'
    <3> SUFFICES ASSUME call[d].at = "write", "claude" \in call[d].todo
                 PROVE  /\ Sound(call[d].mem.reg)
                        /\ "claude" \notin since'[d] => call[d].mem = Parsed("claude")'
                        /\ call[d].op = "untrack" =>
                             call[d].mem.reg = {} \/ \A p \in served' : Has(call[d].mem.reg, p)
      BY DEF KnowsClaude
    <3>1. "claude" \notin since'[d] => Parsed("claude")' = Parsed("claude") /\ "claude" \notin since[d]
      BY <1>2 DEF Parsed
    <3> QED BY <2>1, <3>1 DEF Knows, KnowsClaude
  <2>4. KnowsFound(d)'
    BY <1>2, <2>1 DEF Knows, KnowsFound
  <2> QED BY <2>2, <2>3, <2>4 DEF Knows
<1> QED BY <1>1, <1>2

(* A call that has gone on to another file, or is over, knows nothing.          *)
LEMMA GoneKnow == ASSUME NEW c, NEW k, Goes(c, k), call'[c] = k PROVE Knows(c)'
BY DEF Goes, Knows, KnowsFile, KnowsClaude, KnowsFound

(* Where only one call goes on, and no file changes.                          *)
LEMMA NobodyWrote ==
  ASSUME IdeInv, NEW c \in Callers, NEW k, call' = [call EXCEPT ![c] = k], CallOk(k),
         UNCHANGED <<conf, served>>, since' \in [Callers -> SUBSET Surfaces],
         fresh' \in [Callers -> BOOLEAN],
         \A d \in Callers \ {c} : since'[d] = since[d] /\ fresh'[d] = fresh[d],
         ConfType' => Knows(c)'
  PROVE  IdeInv'
<1>1. ConfType' /\ call'[c] = k /\ \A d \in Callers \ {c} : call'[d] = call[d]
  BY OneCall DEF IdeInv, ConfType
<1>2. ASSUME NEW d \in Callers PROVE Knows(d)'
  BY <1>1, WaitingKnow
<1>3. StaysServed' /\ Sound(conf'["claude"].reg)
  BY DEF IdeInv, StaysServed
<1> QED BY <1>1, <1>2, <1>3 DEF IdeInv

LEMMA BeginKnows == ASSUME IdeConfigAssumption, IdeInv, NEW c \in Callers, BeginCall(c) PROVE IdeInv'
<1>1. ConfType /\ ConfType'
  BY BeginType DEF IdeInv
<1>2. PICK r \in Requests :
         call' = [call EXCEPT ![c] = [NoCall EXCEPT
                      !.op = r[1], !.p = r[2], !.todo = Plan(r[1], r[2]), !.at = "read",
                      !.found = IF r[1] = "register" THEN Found ELSE {}]]
  BY DEF BeginCall
<1> DEFINE k == [NoCall EXCEPT !.op = r[1], !.p = r[2], !.todo = Plan(r[1], r[2]), !.at = "read",
                               !.found = IF r[1] = "register" THEN Found ELSE {}]
<1>3. /\ call'[c] = k /\ call' = [call EXCEPT ![c] = k]
      /\ k.at = "read" /\ (k.op = "register" => k.found = Found)
  BY <1>1, <1>2 DEF ConfType, NoCall
<1>4. conf["claude"].state = "json" => served \subseteq Found
  <2>1. ASSUME conf["claude"].state = "json", NEW p \in served PROVE p \in Found
    <3>1. p \in DOMAIN Key /\ p # NoProject
      BY DEF IdeInv, ConfType, IdeConfigAssumption
    <3>2. \E e \in Parsed("claude").reg : e.scope = p
      BY <2>1 DEF IdeInv, StaysServed, Parsed
    <3> QED BY <3>1, <3>2 DEF Found
  <2> QED BY <2>1
<1>5. /\ UNCHANGED <<conf, fresh, served>> /\ since' \in [Callers -> SUBSET Surfaces]
      /\ fresh' \in [Callers -> BOOLEAN]
      /\ \A d \in Callers \ {c} : since'[d] = since[d]
  BY <1>1 DEF BeginCall, ConfType
<1>6. Knows(c)'
  BY <1>3, <1>4, <1>5 DEF Knows, KnowsFile, KnowsClaude, KnowsFound
<1>7. CallOk(k)
  BY <1>1, <1>3 DEF ConfType, CallOk, Calls, ConfFile, Entries, Ids
<1> HIDE DEF k
<1> QED BY <1>3, <1>5, <1>6, <1>7, NobodyWrote

LEMMA ReadKnows == ASSUME IdeInv, NEW c \in Callers, ReadFile(c) PROVE IdeInv'
<1> DEFINE s == First(call[c].todo)
<1>1. ConfType /\ ConfType'
  BY ReadType DEF IdeInv
<1>2. /\ call' = [call EXCEPT ![c] = call'[c]] /\ call'[c].mem = Parsed(s) /\ call'[c].todo = call[c].todo
      /\ call'[c].op = call[c].op /\ call'[c].found = call[c].found /\ call[c].at = "read"
  <2>1. call[c] \in Calls /\ DOMAIN call = Callers /\ call[c].at = "read"
    BY <1>1 DEF ReadFile, ConfType, CallOk
  <2> DEFINE snap == IF InPair(c, s) THEN [call[c].snap EXCEPT ![s] = conf[s]] ELSE call[c].snap
             k == [call[c] EXCEPT !.at = "write", !.mem = Parsed(s), !.snap = snap]
  <2>2. call' = [call EXCEPT ![c] = k]
    BY <2>1 DEF ReadFile
  <2> HIDE DEF snap
  <2>3. k.mem = Parsed(s) /\ k.todo = call[c].todo /\ k.op = call[c].op /\ k.found = call[c].found
    BY <2>1 DEF Calls
  <2> HIDE DEF k
  <2>4. call'[c] = k
    BY <2>1, <2>2
  <2> QED BY <2>1, <2>2, <2>3, <2>4
<1>3. /\ UNCHANGED <<conf, since, served>> /\ since' \in [Callers -> SUBSET Surfaces]
      /\ fresh' \in [Callers -> BOOLEAN] /\ \A d \in Callers \ {c} : fresh'[d] = fresh[d]
  BY <1>1 DEF ReadFile, ConfType
<1>4. "claude" \in call[c].todo => s = "claude"
  BY <1>1, FirstIsLeft DEF ConfType, CallOk, Calls
<1>5. KnowsFile(c)'
  BY <1>2, <1>3 DEF KnowsFile, Parsed
<1>6. KnowsClaude(c)'
  <2>1. Sound(Parsed("claude").reg)
    BY DEF IdeInv, Sound, Parsed, Blank
  <2>2. Parsed("claude").reg = {} \/ \A p \in served : Has(Parsed("claude").reg, p)
    BY DEF IdeInv, StaysServed, Has, Parsed, Blank
  <2>3. Parsed("claude")' = Parsed("claude")
    BY <1>3 DEF Parsed
  <2> QED BY <1>2, <1>3, <1>4, <2>1, <2>2, <2>3 DEF KnowsClaude
<1>7. KnowsFound(c)'
  BY <1>2, <1>3 DEF IdeInv, Knows, KnowsFound
<1>8. CallOk(call'[c])
  BY <1>1 DEF ConfType, CallOk, Calls, ConfFile, Entries, Ids
<1> QED BY <1>2, <1>3, <1>5, <1>6, <1>7, <1>8, NobodyWrote DEF Knows

(* What a write of Claude Code's file leaves of the entries.                    *)
LEMMA EntriesStay ==
  ASSUME IdeConfigAssumption, IdeInv, NEW c \in Callers, call[c].at = "write",
         NEW k, Puts(c, "claude", k)
  PROVE  StaysServed' /\ Sound(conf'["claude"].reg) /\ served' \subseteq DOMAIN Key
<1> DEFINE p == call[c].p
           op == call[c].op
           had == call[c].mem
           reg == conf'["claude"].reg
           now == {e.scope : e \in reg}
<1>1. /\ ConfType /\ CallOk(call[c]) /\ "claude" \in call[c].todo
      /\ op \in {"setup", "init", "untrack", "register", "fix"}
      /\ op \in {"setup", "init"} => p \in DOMAIN Key
      /\ op \in {"setup", "init"} => p # Top
      /\ \A q \in served : q # Top /\ q \in DOMAIN Key
  BY DEF IdeInv, ConfType, CallOk, Calls, Puts, IdeConfigAssumption, NoProject, Top
<1>2. /\ Sound(had.reg) /\ Sound(conf["claude"].reg)
      /\ op = "untrack" => had.reg = {} \/ \A q \in served : Has(had.reg, q)
      /\ \A q \in served : Has(conf["claude"].reg, q)
  BY <1>1 DEF IdeInv, Knows, KnowsClaude, StaysServed, Has
<1>3. conf["claude"].state = "json" /\ Parsed("claude") = conf["claude"]
  BY <1>1 DEF Puts, Guarded, ConfType, ConfFile, Surfaces, Flat, Parsed
<1>4. since[c] = {} => had.reg = conf["claude"].reg
  BY <1>1, <1>3 DEF IdeInv, Knows, KnowsClaude
<1>5. since[c] = {} /\ op = "register" => served \subseteq call[c].found
  BY <1>1, <1>3 DEF IdeInv, Knows, KnowsFound
<1>6. /\ op \in {"setup", "init"} => reg = Scoped(had.reg, p)
      /\ op = "register" => reg = PerProject(call[c].found)
      /\ op = "untrack" => reg = had.reg \ Bound(had.reg, p) /\ reg # had.reg
      /\ op = "fix" => reg = had.reg \ Dynamic
  BY <1>1 DEF Puts, Edited
<1>7. Sound(reg)
  BY <1>1, <1>2, <1>6 DEF Sound, Scoped, PerProject, Server
<1>8. \A q \in served \cap now : Has(reg, q)
  BY <1>1, <1>7 DEF Sound, Has
<1>9. served' = Served(c, "claude")
  BY DEF Puts
<1>10. CASE op \in {"setup", "init"}
  <2>1. /\ Has(reg, p)
        /\ since[c] = {} => \A q \in served : Has(reg, q)
    <3>1. Has(reg, p)
      <4>1. Server(p, Key[p], p) \in reg
        BY <1>6, <1>10 DEF Scoped, PerProject
      <4> QED BY <4>1 DEF Has, Server
    <3>2. ASSUME since[c] = {}, NEW q \in served, q # p PROVE Has(reg, q)
      <4>1. PICK e \in had.reg : e.scope = q /\ e.bound = q
        BY <1>2, <1>4, <3>2 DEF Has
      <4>2. e \in reg
        BY <1>1, <1>6, <1>10, <3>2, <4>1 DEF Scoped
      <4> QED BY <4>1, <4>2 DEF Has
    <3> QED BY <3>1, <3>2
  <2>2. \/ since[c] = {} /\ served' \subseteq served \cup {p}
        \/ since[c] # {} /\ served' = served \cap now
    BY <1>9, <1>10 DEF Served
  <2> QED BY <1>1, <1>7, <1>8, <1>10, <2>1, <2>2 DEF StaysServed, Has
<1>11. CASE op = "untrack"
  <2>1. served' = served \ {p}
    BY <1>9, <1>11 DEF Served
  <2>2. ASSUME NEW q \in served, q # p PROVE Has(reg, q)
    <3>1. PICK e \in had.reg : e.scope = q /\ e.bound = q
      BY <1>2, <1>6, <1>11 DEF Has
    <3> QED BY <1>6, <1>11, <2>2, <3>1 DEF Has, Bound
  <2> QED BY <1>1, <1>7, <2>1, <2>2 DEF StaysServed, Has
<1>12. CASE op \in {"register", "fix"}
  <2>1. op \notin {"setup", "init"} /\ op # "untrack"
    BY <1>12
  <2>3. since[c] = {} => served' = served
    BY <1>9, <2>1 DEF Served
  <2>4. since[c] # {} => served' = served \cap now
    BY <1>9, <2>1 DEF Served
  <2>2. ASSUME since[c] = {}, NEW q \in served PROVE Has(reg, q)
    <3>1. CASE op = "register"
      <4>1. Server(q, Key[q], q) \in reg
        BY <1>5, <1>6, <2>2, <3>1 DEF PerProject
      <4> QED BY <4>1 DEF Has, Server
    <3>2. CASE op = "fix"
      <4>1. PICK e \in had.reg : e.scope = q /\ e.bound = q
        BY <1>2, <1>4, <2>2 DEF Has
      <4> QED BY <1>1, <1>6, <3>2, <4>1 DEF Has, Dynamic, Server
    <3> QED BY <1>12, <3>1, <3>2
  <2> QED BY <1>1, <1>7, <1>8, <2>2, <2>3, <2>4 DEF StaysServed, Has
<1> QED BY <1>1, <1>10, <1>11, <1>12

LEMMA WriteKnows == ASSUME IdeConfigAssumption, IdeInv, NEW c \in Callers, WriteFile(c) PROVE IdeInv'
<1>0. ConfType /\ call[c].at = "write"
  BY DEF IdeInv, WriteFile
<1>1. PICK k : /\ call' = [call EXCEPT ![c] = k]
               /\ \/ Goes(c, k) /\ UNCHANGED <<conf, since, fresh, served>>
                  \/ \E s \in Surfaces : Puts(c, s, k)
  BY <1>0, WriteDoes
<1>2. CASE Goes(c, k) /\ UNCHANGED <<conf, since, fresh, served>>
  BY <1>0, <1>1, <1>2, GoneKnow, NobodyWrote DEF ConfType, Goes
<1>3. ASSUME NEW s \in Surfaces, Puts(c, s, k) PROVE IdeInv'
  <2>1. /\ since' \in [Callers -> SUBSET Surfaces] /\ fresh' \in [Callers -> BOOLEAN]
        /\ \A d \in Callers \ {c} : /\ call[d] = NoCall \/ s \in since'[d]
                                    /\ since[d] \subseteq since'[d]
                                    /\ fresh'[d] => fresh[d] /\ ~(call[d].at = "write" /\ First(call[d].todo) = s)
    BY <1>0, <1>3, WroteType DEF Puts
  <2>2. \A t \in Surfaces \ {s} : conf'[t] = conf[t]
    BY <1>0, <1>3 DEF Puts, ConfType
  <2>3. s # "claude" => served' = served
    BY <1>3 DEF Puts, Served
  <2>4. StaysServed' /\ Sound(conf'["claude"].reg) /\ served' \subseteq DOMAIN Key
    <3>1. CASE s = "claude"
      BY <1>0, <1>3, <3>1, EntriesStay
    <3>2. CASE s # "claude"
      <4>1. conf'["claude"] = conf["claude"]
        BY <2>2, <3>2 DEF Surfaces
      <4> QED BY <1>0, <2>3, <3>2, <4>1 DEF IdeInv, StaysServed, ConfType
    <3> QED BY <3>1, <3>2
  <2>5. ConfType' /\ call'[c] = k /\ \A d \in Callers \ {c} : call'[d] = call[d]
    <3>1. CallOk(k) /\ conf' \in [Surfaces -> ConfFile]
      BY <1>3 DEF Puts
    <3> QED BY <1>0, <1>1, <2>1, <2>4, <3>1, OneCall
  <2>6. Knows(c)'
    BY <1>3, <2>5 DEF Puts, Knows, KnowsFile, KnowsClaude, KnowsFound
  <2>7. ASSUME NEW d \in Callers \ {c} PROVE Knows(d)'
    <3>1. call[d] = NoCall \/ served' \subseteq served
      BY <1>3, <2>7 DEF Puts, Served
    <3>2. ASSUME call[d].at = "write", fresh'[d]
          PROVE  conf'[First(call[d].todo)] = conf[First(call[d].todo)]
      <4>1. First(call[d].todo) # s
        BY <2>1, <3>2
      <4>2. First(call[d].todo) \in Surfaces
        BY <1>0, <3>2, FirstIsLeft DEF ConfType, CallOk, Calls
      <4> QED BY <2>2, <4>1, <4>2
    <3>3. call[d] = NoCall \/ conf'["claude"] = conf["claude"] \/ "claude" \in since'[d]
      BY <2>1, <2>2 DEF Surfaces
    <3> QED BY <2>1, <2>5, <3>1, <3>2, <3>3, WaitingKnow
  <2> QED BY <2>4, <2>5, <2>6, <2>7 DEF IdeInv
<1> QED BY <1>1, <1>2, <1>3

LEMMA VerifyKnows == ASSUME IdeInv, NEW c \in Callers, Verify(c) PROVE IdeInv'
<1>1. ConfType
  BY DEF IdeInv
<1>2. PICK k : call' = [call EXCEPT ![c] = k] /\ Goes(c, k)
  BY <1>1, VerifyDoes
<1>3. UNCHANGED <<conf, since, fresh, served>>
  BY <1>1, VerifyDoes
<1>4. call'[c] = k
  BY <1>1, <1>2 DEF ConfType
<1> QED BY <1>1, <1>2, <1>3, <1>4, GoneKnow, NobodyWrote DEF ConfType, Goes

LEMMA RollbackKnows == ASSUME IdeInv, NEW c \in Callers, Rollback(c) PROVE IdeInv'
<1>0. ConfType /\ call[c].at = "rollback"
  BY DEF IdeInv, Rollback
<1>1. /\ call' = [call EXCEPT ![c] = NoCall] /\ UNCHANGED served
      /\ conf' \in [Surfaces -> ConfFile] /\ \A s \in Surfaces \ {"ag1"} : conf'[s] = conf[s]
      /\ UNCHANGED <<conf, since, fresh>> \/ Wrote(c, "ag1")
  BY <1>0, RollbackDoes
<1>2. Goes(c, NoCall)
  BY NoCallOk DEF Goes, NoCall
<1>3. CASE UNCHANGED <<conf, since, fresh>>
  <2>1. call'[c] = NoCall
    BY <1>0, <1>1 DEF ConfType
  <2> QED BY <1>0, <1>1, <1>2, <1>3, <2>1, GoneKnow, NobodyWrote DEF ConfType, Goes
<1>4. CASE Wrote(c, "ag1")
  <2>1. /\ since' \in [Callers -> SUBSET Surfaces] /\ fresh' \in [Callers -> BOOLEAN]
        /\ \A d \in Callers \ {c} : /\ since[d] \subseteq since'[d]
                                    /\ fresh'[d] => fresh[d] /\ ~(call[d].at = "write" /\ First(call[d].todo) = "ag1")
    BY <1>0, <1>4, WroteType DEF Surfaces, Flat
  <2>2. ConfType' /\ call'[c] = NoCall /\ \A d \in Callers \ {c} : call'[d] = call[d]
    BY <1>0, <1>1, <2>1, NoCallOk, OneCall DEF ConfType
  <2>3. conf'["claude"] = conf["claude"]
    BY <1>1 DEF Surfaces, Flat
  <2>4. ASSUME NEW d \in Callers \ {c} PROVE Knows(d)'
    <3>1. ASSUME call[d].at = "write", fresh'[d]
          PROVE  conf'[First(call[d].todo)] = conf[First(call[d].todo)]
      <4>1. First(call[d].todo) # "ag1"
        BY <2>1, <3>1
      <4>2. First(call[d].todo) \in Surfaces
        BY <1>0, <3>1, FirstIsLeft DEF ConfType, CallOk, Calls
      <4> QED BY <1>1, <4>1, <4>2
    <3> QED BY <1>1, <2>1, <2>2, <2>3, <3>1, WaitingKnow
  <2>5. Knows(c)'
    BY <1>2, <2>2, GoneKnow
  <2>6. StaysServed' /\ Sound(conf'["claude"].reg)
    BY <1>1, <2>3 DEF IdeInv, StaysServed
  <2> QED BY <2>2, <2>4, <2>5, <2>6 DEF IdeInv
<1> QED BY <1>1, <1>3, <1>4

LEMMA ToolKnows ==
  ASSUME IdeConfigAssumption, IdeInv, NEW s \in Surfaces, ToolWrites(s) \/ ToolCompletes(s)
  PROVE  IdeInv'
<1>0. ConfType
  BY DEF IdeInv
<1>1. /\ conf' \in [Surfaces -> ConfFile] /\ conf'[s].reg = conf[s].reg
      /\ \A t \in Surfaces \ {s} : conf'[t] = conf[t]
      /\ Wrote(NoProject, s) /\ UNCHANGED <<call, served>>
  BY <1>0, ToolDoes
<1>2. Callers \ {NoProject} = Callers
  BY DEF IdeConfigAssumption
<1>3. /\ since' \in [Callers -> SUBSET Surfaces] /\ fresh' \in [Callers -> BOOLEAN]
      /\ \A d \in Callers : /\ call[d] = NoCall \/ s \in since'[d]
                            /\ since[d] \subseteq since'[d]
                            /\ fresh'[d] => fresh[d] /\ ~(call[d].at = "write" /\ First(call[d].todo) = s)
  BY <1>0, <1>1, <1>2, WroteType
<1>4. ConfType'
  <2>1. \A d \in Callers : CallOk(call[d])'
    BY <1>0, <1>1 DEF ConfType, CallOk, Calls, ConfFile, Entries, Ids
  <2> QED BY <1>0, <1>1, <1>3, <2>1 DEF ConfType, ConfFile, Entries, Ids
<1>5. ASSUME NEW d \in Callers PROVE Knows(d)'
  <2>1. ASSUME call[d].at = "write", fresh'[d]
        PROVE  conf'[First(call[d].todo)] = conf[First(call[d].todo)]
    <3>1. First(call[d].todo) # s
      BY <1>3, <2>1
    <3>2. First(call[d].todo) \in Surfaces
      BY <1>0, <2>1, FirstIsLeft DEF ConfType, CallOk, Calls
    <3> QED BY <1>1, <3>1, <3>2
  <2>2. call[d] = NoCall \/ conf'["claude"] = conf["claude"] \/ "claude" \in since'[d]
    BY <1>1, <1>3 DEF Surfaces
  <2> QED BY <1>1, <1>3, <2>1, <2>2, WaitingKnow
<1>6. conf'["claude"].reg = conf["claude"].reg
  BY <1>1 DEF Surfaces
<1>7. StaysServed' /\ Sound(conf'["claude"].reg)
  BY <1>1, <1>6 DEF IdeInv, StaysServed
<1> QED BY <1>4, <1>5, <1>7 DEF IdeInv

LEMMA IdeStep == ASSUME IdeConfigAssumption, IdeInv, [INext]_ivars PROVE IdeInv'
<1>1. CASE UNCHANGED ivars
  <2>1. ConfType'
    BY <1>1 DEF IdeInv, ivars, ConfType, CallOk, Calls, ConfFile, Entries, Ids
  <2>2. \A c \in Callers : Knows(c)'
    BY <1>1 DEF IdeInv, ivars, Knows, KnowsFile, KnowsClaude, KnowsFound, Parsed
  <2> QED BY <1>1, <2>1, <2>2 DEF IdeInv, ivars, StaysServed
<1> QED
  BY <1>1, BeginKnows, ReadKnows, WriteKnows, VerifyKnows, RollbackKnows, ToolKnows DEF INext

LEMMA IdeHolds == ASSUME IdeConfigAssumption PROVE ISpec => []IdeInv
<1>1. ASSUME IInit PROVE IdeInv
  <2>1. conf \in [Surfaces -> ConfFile]
    <3>1. ASSUME NEW s \in Surfaces
          PROVE  [Blank EXCEPT
                    !.state = IF s = Broken[1] THEN Broken[2] ELSE "json", !.others = Others,
                    !.reg = IF s = "claude" THEN {Server(Top, Bare, NoProject)} ELSE {}] \in ConfFile
      <4>1. Broken[2] \in {"json", "garbled"}
        BY DEF IdeConfigAssumption
      <4>2. {Server(Top, Bare, NoProject)} \subseteq Entries
        BY DEF Entries, Ids, Server, Top, NoProject
      <4> QED BY <4>1, <4>2 DEF Blank, ConfFile
    <3> QED BY <1>1, <3>1 DEF IInit
  <2>2. \A c \in Callers : call[c] = NoCall /\ CallOk(call[c])
    BY <1>1, NoCallOk DEF IInit
  <2>3. ConfType
    BY <1>1, <2>1, <2>2 DEF ConfType, IInit
  <2>4. \A c \in Callers : Knows(c)
    BY <2>2 DEF Knows, KnowsFile, KnowsClaude, KnowsFound, NoCall
  <2>5. StaysServed
    BY <1>1 DEF IInit, StaysServed
  <2>6. conf["claude"].reg = {Server(Top, Bare, NoProject)}
    BY <1>1 DEF IInit, Surfaces, Blank
  <2>7. Sound(conf["claude"].reg)
    BY <2>6 DEF Sound, Server
  <2> QED BY <2>3, <2>4, <2>5, <2>7 DEF IdeInv
<1> QED BY <1>1, IdeStep, PTL DEF ISpec

(* A project that was registered with Claude Code keeps its own entry, through   *)
(* whatever calls, failures and writes of the tool follow, until it is untracked *)
(* or a call is disturbed: for any callers, projects and requests.             *)
THEOREM RegisteredStay == ASSUME IdeConfigAssumption PROVE ISpec => []StaysServed
<1>1. IdeInv => StaysServed
  BY DEF IdeInv
<1> QED BY <1>1, IdeHolds, PTL

(* A call that nobody overtook between its read and its write leaves everything  *)
(* else in a file: for any callers, files and tools that write them.           *)
THEOREM OthersAreKept == ASSUME IdeConfigAssumption PROVE ISpec => OthersKept
<1>1. ASSUME IdeInv, [INext]_ivars PROVE OthersKeptStep
  <2>0. DOMAIN call = Callers
    BY <1>1 DEF IdeInv, ConfType
  <2> SUFFICES ASSUME NEW c \in Callers, NEW s \in Surfaces, call[c].at = "write",
                      First(call[c].todo) = s, fresh[c], call'[c] # call[c]
               PROVE  conf[s].others = conf'[s].others
    BY <2>0 DEF OthersKeptStep
  <2>1. ConfType /\ conf[s] \in ConfFile /\ Knows(c)
    BY <1>1 DEF IdeInv, ConfType
  <2>2. CASE \E d \in Callers \ {c} : BeginCall(d) \/ ReadFile(d) \/ WriteFile(d) \/ Verify(d) \/ Rollback(d)
    <3>1. PICK d \in Callers \ {c} : BeginCall(d) \/ ReadFile(d) \/ WriteFile(d) \/ Verify(d) \/ Rollback(d)
      BY <2>2
    <3>2. call'[c] = call[c]
      <4>1. CASE BeginCall(d)
        BY <3>1, <4>1, <2>1 DEF BeginCall, ConfType
      <4>2. CASE ReadFile(d)
        BY <3>1, <4>2, <2>1 DEF ReadFile, ConfType
      <4>3. CASE WriteFile(d) \/ Verify(d) \/ Rollback(d)
        <5>1. \E k : call' = [call EXCEPT ![d] = k]
          BY <2>1, <3>1, <4>3, WriteDoes, VerifyDoes, RollbackDoes
        <5> QED BY <2>1, <3>1, <5>1 DEF ConfType
      <4> QED BY <3>1, <4>1, <4>2, <4>3
    <3> QED BY <3>2
  <2>3. CASE WriteFile(c)
    <3>1. PICK k : \/ Goes(c, k) /\ UNCHANGED <<conf, since, fresh, served>>
                   \/ \E t \in Surfaces : Puts(c, t, k)
      BY <2>1, <2>3, WriteDoes
    <3>2. ASSUME NEW t \in Surfaces, Puts(c, t, k) PROVE conf[s].others = conf'[s].others
      <4>1. t = s /\ conf'[s].others = call[c].mem.others /\ conf[s].state = "json"
        BY <2>1, <3>2 DEF Puts, Guarded, ConfFile
      <4> QED BY <2>1, <4>1 DEF Knows, KnowsFile, Parsed
    <3> QED BY <3>1, <3>2
  <2>4. CASE BeginCall(c) \/ ReadFile(c) \/ Verify(c) \/ Rollback(c)
    BY <2>4 DEF BeginCall, ReadFile, Verify, Rollback
  <2>5. CASE \E t \in Surfaces : ToolWrites(t) \/ ToolCompletes(t)
    BY <2>5 DEF ToolWrites, ToolCompletes
  <2>6. CASE UNCHANGED ivars
    BY <2>6 DEF ivars
  <2> QED BY <1>1, <2>2, <2>3, <2>4, <2>5, <2>6 DEF INext
<1>2. IdeInv /\ [INext]_ivars => OthersKeptStep \/ UNCHANGED ivars
  BY <1>1
<1> QED BY <1>2, IdeHolds, PTL DEF ISpec, OthersKept

-----------------------------------------------------------------------------
(* Export and import.                                                         *)

Jobs == [at : {"idle", "pack", "aside", "extract"}, arch : Archive, todo : SUBSET Files,
         rows : SUBSET Signals, quiet : BOOLEAN, base : [Signals -> Nat]]

CarryType ==
  /\ mem \in [Files -> SUBSET Nat] /\ learned \in [Signals -> Nat]
  /\ archives \subseteq Archive /\ job \in Jobs /\ written \in Nat

(* What is about to be extracted over is known to be written late; what is not   *)
(* extracted yet is not there yet, and a row that is not merged yet not counted. *)
CarryInv ==
  /\ CarryType
  /\ NothingOverwritten
  /\ job.at = "extract" => \A f \in job.todo : mem[f] \subseteq late
  /\ job.at = "aside" => job.todo = {f \in Files : job.arch.mem[f] # {}}
  /\ job.at \in {"aside", "extract"} =>
       \A s \in Signals : IF s \in job.rows THEN learned[s] = job.base[s]
                          ELSE learned[s] = job.base[s] + job.arch.rows[s]
  /\ job.at = "extract" /\ job.quiet /\ ~Empty(job.arch.mem) =>
       \A f \in Files : mem[f] = IF f \in job.todo THEN {} ELSE job.arch.mem[f]

LEMMA CarryTypeStep == ASSUME CarryType, [TRNext]_trvars PROVE CarryType'
<1> USE DEF CarryType
<1>0. Nothing \in [Files -> SUBSET Nat] /\ NoRows \in [Signals -> Nat]
  BY DEF Nothing, NoRows
<1>1. [mem |-> Nothing, rows |-> NoRows] \in Archive
  BY <1>0 DEF Archive
<1>2. Idle \in Jobs
  BY <1>0, <1>1 DEF Idle, Jobs
<1>3. job.arch \in Archive /\ job.todo \in SUBSET Files /\ job.rows \in SUBSET Signals
  BY DEF Jobs
<1>4. job.arch.mem \in [Files -> SUBSET Nat] /\ job.arch.rows \in [Signals -> Nat]
  BY <1>3 DEF Archive
<1>5. CASE Tick
  BY <1>5 DEF Tick
<1>6. ASSUME NEW f \in Files, AppendLine(f) PROVE CarryType'
  <2>1. job' = [job EXCEPT !.quiet = FALSE] /\ UNCHANGED <<learned, archives>>
    BY <1>6 DEF AppendLine
  <2>2. job' \in Jobs
    BY <2>1 DEF Jobs
  <2>3. written' = written + 1 /\ mem' = [mem EXCEPT ![f] = @ \cup {written'}]
    BY <1>6 DEF AppendLine
  <2>4. mem' \in [Files -> SUBSET Nat] /\ written' \in Nat
    BY <2>3
  <2> QED BY <2>1, <2>2, <2>4
<1>7. CASE BeginExport
  <2>1. job' = [Idle EXCEPT !.at = "pack", !.todo = Files, !.arch.rows = learned]
    BY <1>7 DEF BeginExport
  <2>2. job' \in Jobs
    BY <2>1, <1>0 DEF Idle, Jobs, Archive
  <2> QED BY <2>2, <1>7 DEF BeginExport
<1>8. ASSUME NEW f \in Files, Pack(f) PROVE CarryType'
  <2>1. job' = [job EXCEPT !.todo = @ \ {f}, !.arch.mem[f] = mem[f]]
    BY <1>8 DEF Pack
  <2>2. job' \in Jobs
    BY <2>1, <1>3, <1>4 DEF Jobs, Archive
  <2> QED BY <2>2, <1>8 DEF Pack
<1>9. CASE Publish
  BY <1>9, <1>2, <1>3 DEF Publish
<1>10. ASSUME NEW arch \in archives, NEW force \in BOOLEAN, BeginImport(arch, force) PROVE CarryType'
  <2>1. PICK to \in {"extract", "aside"} :
          job' = [Idle EXCEPT !.at = to, !.arch = arch, !.todo = {f \in Files : arch.mem[f] # {}},
                              !.rows = {s \in Signals : arch.rows[s] # 0},
                              !.quiet = TRUE, !.base = learned]
    BY <1>10 DEF BeginImport
  <2>2. job' \in Jobs
    BY <2>1 DEF Idle, Jobs
  <2> QED BY <2>2, <1>10 DEF BeginImport
<1>11. CASE MoveAside
  <2>1. [job EXCEPT !.at = "extract"] \in Jobs
    BY DEF Jobs
  <2> QED BY <2>1, <1>0, <1>2, <1>11 DEF MoveAside
<1>12. ASSUME NEW f \in Files, Extract(f) PROVE CarryType'
  <2>1. [job EXCEPT !.todo = @ \ {f}] \in Jobs
    BY DEF Jobs
  <2>2. [mem EXCEPT ![f] = job.arch.mem[f]] \in [Files -> SUBSET Nat]
    BY <1>4
  <2> QED BY <2>1, <2>2, <1>12 DEF Extract
<1>13. ASSUME NEW s \in Signals, Merge(s) PROVE CarryType'
  <2>1. [job EXCEPT !.rows = @ \ {s}] \in Jobs
    BY DEF Jobs
  <2>2. [learned EXCEPT ![s] = @ + job.arch.rows[s]] \in [Signals -> Nat]
    BY <1>4
  <2> QED BY <2>1, <2>2, <1>13 DEF Merge
<1>14. CASE EndImport
  BY <1>14, <1>2 DEF EndImport
<1>15. CASE Fail
  BY <1>15, <1>2 DEF Fail
<1>16. CASE UNCHANGED trvars
  BY <1>16 DEF trvars
<1> QED
  BY <1>5, <1>6, <1>7, <1>8, <1>9, <1>10, <1>11, <1>12, <1>13, <1>14, <1>15, <1>16 DEF TRNext

(* What is in memory or in a backup stays there.                              *)
LEMMA LinesStay ==
  ASSUME NothingOverwritten, UNCHANGED <<mem, written>>, aside \subseteq aside', UNCHANGED late
  PROVE  NothingOverwritten'
BY DEF NothingOverwritten

LEMMA CarryStep == ASSUME CarryInv, [TRNext]_trvars PROVE CarryInv'
<1>1. CarryType /\ CarryType'
  BY CarryTypeStep DEF CarryInv
<1> USE DEF CarryInv
<1>2. job.arch.mem \in [Files -> SUBSET Nat] /\ job.arch.rows \in [Signals -> Nat]
  BY <1>1 DEF CarryType, Jobs, Archive
<1>3. mem \in [Files -> SUBSET Nat] /\ learned \in [Signals -> Nat] /\ written \in Nat
  BY <1>1 DEF CarryType
<1>4. ASSUME job' = Idle, NothingOverwritten' PROVE CarryInv'
  BY <1>1, <1>4 DEF Idle
<1>5. CASE Tick
  BY <1>1, <1>5, LinesStay DEF Tick, Empty, Nothing
<1>6. ASSUME NEW f \in Files, AppendLine(f) PROVE CarryInv'
  <2>1. /\ written' = written + 1 /\ mem' = [mem EXCEPT ![f] = @ \cup {written'}]
        /\ late' = IF job.at = "extract" /\ f \in job.todo THEN late \cup {written'} ELSE late
        /\ job' = [job EXCEPT !.quiet = FALSE] /\ UNCHANGED <<learned, aside>>
    BY <1>6 DEF AppendLine
  <2>2. /\ job'.at = job.at /\ job'.todo = job.todo /\ job'.arch = job.arch /\ ~job'.quiet
        /\ job'.rows = job.rows /\ job'.base = job.base
    BY <2>1, <1>1 DEF CarryType, Jobs
  <2>3. /\ mem'[f] = mem[f] \cup {written'} /\ \A g \in Files \ {f} : mem'[g] = mem[g]
        /\ 1 .. written' = (1 .. written) \cup {written'} /\ late \subseteq late'
    BY <2>1, <1>3
  <2>4. (\E g \in Files : written' \in mem'[g]) /\ mem' \in {mem'} \cup {b.mem : b \in aside'}
    BY <2>3
  <2>5. NothingOverwritten'
    <3> SUFFICES ASSUME NEW l \in 1 .. written', l \notin late'
                 PROVE  \E m \in {mem'} \cup {b.mem : b \in aside'} : \E g \in Files : l \in m[g]
      BY DEF NothingOverwritten
    <3>1. CASE l = written'
      BY <2>4, <3>1
    <3>2. CASE l # written'
      <4>1. l \in 1 .. written /\ l \notin late
        BY <2>3, <3>2
      <4>2. PICK m \in {mem} \cup {b.mem : b \in aside} : \E g \in Files : l \in m[g]
        BY <4>1 DEF NothingOverwritten
      <4>3. CASE m = mem
        BY <2>3, <4>2, <4>3
      <4>4. CASE m \in {b.mem : b \in aside}
        BY <2>1, <4>2, <4>4
      <4> QED BY <4>2, <4>3, <4>4
    <3> QED BY <3>1, <3>2
  <2>6. job'.at = "extract" => \A g \in job'.todo : mem'[g] \subseteq late'
    BY <2>1, <2>2, <2>3, <1>1 DEF CarryType, Jobs
  <2> QED BY <1>1, <2>1, <2>2, <2>5, <2>6
<1>7. CASE BeginExport
  <2>1. job'.at = "pack"
    BY <1>7 DEF BeginExport, Idle
  <2> QED BY <1>1, <1>7, <2>1, LinesStay DEF BeginExport
<1>8. ASSUME NEW f \in Files, Pack(f) PROVE CarryInv'
  <2>1. job'.at = "pack"
    BY <1>8, <1>1 DEF Pack, CarryType, Jobs
  <2> QED BY <1>1, <1>8, <2>1, LinesStay DEF Pack
<1>9. CASE Publish
  BY <1>4, <1>9, LinesStay DEF Publish
<1>10. ASSUME NEW arch \in archives, NEW force \in BOOLEAN, BeginImport(arch, force) PROVE CarryInv'
  <2>1. /\ job'.at = IF Empty(mem) \/ Empty(arch.mem) THEN "extract" ELSE "aside"
        /\ job'.arch = arch /\ job'.todo = {f \in Files : arch.mem[f] # {}}
        /\ job'.rows = {s \in Signals : arch.rows[s] # 0} /\ job'.base = learned
        /\ UNCHANGED <<mem, learned, aside, written, late>>
    BY <1>10 DEF BeginImport, Idle
  <2>2. arch.mem \in [Files -> SUBSET Nat] /\ arch.rows \in [Signals -> Nat]
    BY <1>1 DEF CarryType, Archive
  <2>3. Empty(mem) => \A f \in Files : mem[f] = {}
    BY DEF Empty, Nothing
  <2>4. Empty(arch.mem) => job'.todo = {}
    BY <2>1 DEF Empty, Nothing
  <2>5. job'.at = "extract" => \A f \in job'.todo : mem'[f] \subseteq late'
    BY <2>1, <2>3, <2>4
  <2>6. \A s \in Signals : IF s \in job'.rows THEN learned'[s] = job'.base[s]
                           ELSE learned'[s] = job'.base[s] + job'.arch.rows[s]
    BY <2>1, <2>2, <1>3
  <2>7. job'.at = "extract" /\ ~Empty(job'.arch.mem) =>
          \A f \in Files : mem'[f] = IF f \in job'.todo THEN {} ELSE job'.arch.mem[f]
    BY <2>1, <2>3
  <2>8. NothingOverwritten'
    BY <2>1, LinesStay
  <2> QED BY <1>1, <2>1, <2>5, <2>6, <2>7, <2>8 DEF Empty, Nothing
<1>11. CASE MoveAside
  <2>1. CASE \E b \in aside : b.sec = sec
    BY <1>4, <1>11, <2>1, LinesStay DEF MoveAside
  <2>2. CASE ~\E b \in aside : b.sec = sec
    <3>1. /\ job.at = "aside" /\ mem' = Nothing /\ aside' = aside \cup {[sec |-> sec, mem |-> mem]}
          /\ job' = [job EXCEPT !.at = "extract"] /\ UNCHANGED <<learned, written, late>>
      BY <1>11, <2>2 DEF MoveAside
    <3>2. /\ job'.at = "extract" /\ job'.todo = job.todo /\ job'.arch = job.arch
          /\ job'.rows = job.rows /\ job'.base = job.base
      BY <3>1, <1>1 DEF CarryType, Jobs
    <3>3. \A f \in Files : mem'[f] = {}
      BY <3>1 DEF Nothing
    <3>4. mem \in {b.mem : b \in aside'} /\ {b.mem : b \in aside} \subseteq {b.mem : b \in aside'}
      <4>1. [sec |-> sec, mem |-> mem] \in aside' /\ [sec |-> sec, mem |-> mem].mem = mem
        BY <3>1
      <4>2. aside \subseteq aside'
        BY <3>1
      <4> QED BY <4>1, <4>2
    <3>5. NothingOverwritten'
      BY <3>1, <3>4 DEF NothingOverwritten
    <3>6. \A f \in job'.todo : mem'[f] \subseteq late'
      BY <3>2, <3>3, <1>1 DEF CarryType, Jobs
    <3>7. \A f \in Files : mem'[f] = IF f \in job'.todo THEN {} ELSE job'.arch.mem[f]
      BY <3>1, <3>2, <3>3
    <3>8. \A s \in Signals : IF s \in job'.rows THEN learned'[s] = job'.base[s]
                             ELSE learned'[s] = job'.base[s] + job'.arch.rows[s]
      BY <3>1, <3>2
    <3> QED BY <1>1, <3>2, <3>5, <3>6, <3>7, <3>8
  <2> QED BY <2>1, <2>2
<1>12. ASSUME NEW f \in Files, Extract(f) PROVE CarryInv'
  <2>1. /\ job.at = "extract" /\ f \in job.todo /\ mem' = [mem EXCEPT ![f] = job.arch.mem[f]]
        /\ job' = [job EXCEPT !.todo = @ \ {f}] /\ UNCHANGED <<learned, aside, written, late>>
    BY <1>12 DEF Extract
  <2>2. /\ job'.at = "extract" /\ job'.todo = job.todo \ {f} /\ job'.arch = job.arch
        /\ job'.rows = job.rows /\ job'.base = job.base /\ job'.quiet = job.quiet
    BY <2>1, <1>1 DEF CarryType, Jobs
  <2>3. mem'[f] = job.arch.mem[f] /\ \A g \in Files \ {f} : mem'[g] = mem[g]
    BY <2>1, <1>3
  <2>4. mem[f] \subseteq late
    BY <2>1
  <2>5. \A l \in 1 .. written : (\E g \in Files : l \in mem[g]) =>
          l \in late \/ \E g \in Files : l \in mem'[g]
    BY <2>3, <2>4
  <2>6. NothingOverwritten'
    BY <2>1, <2>5 DEF NothingOverwritten
  <2>7. \A g \in job'.todo : mem'[g] \subseteq late'
    BY <2>1, <2>2, <2>3, <1>1 DEF CarryType, Jobs
  <2>8. job'.quiet /\ ~Empty(job'.arch.mem) =>
          \A g \in Files : mem'[g] = IF g \in job'.todo THEN {} ELSE job'.arch.mem[g]
    BY <2>1, <2>2, <2>3 DEF Empty, Nothing
  <2>9. \A s \in Signals : IF s \in job'.rows THEN learned'[s] = job'.base[s]
                           ELSE learned'[s] = job'.base[s] + job'.arch.rows[s]
    BY <2>1, <2>2
  <2> QED BY <1>1, <2>2, <2>6, <2>7, <2>8, <2>9
<1>13. ASSUME NEW s \in Signals, Merge(s) PROVE CarryInv'
  <2>1. /\ job.at = "extract" /\ s \in job.rows /\ job.todo = {}
        /\ learned' = [learned EXCEPT ![s] = @ + job.arch.rows[s]]
        /\ job' = [job EXCEPT !.rows = @ \ {s}] /\ UNCHANGED <<mem, aside, written, late>>
    BY <1>13 DEF Merge
  <2>2. /\ job'.at = "extract" /\ job'.todo = job.todo /\ job'.arch = job.arch
        /\ job'.rows = job.rows \ {s} /\ job'.base = job.base /\ job'.quiet = job.quiet
    BY <2>1, <1>1 DEF CarryType, Jobs
  <2>3. \A t \in Signals : IF t \in job'.rows THEN learned'[t] = job'.base[t]
                           ELSE learned'[t] = job'.base[t] + job'.arch.rows[t]
    BY <2>1, <2>2, <1>2, <1>3
  <2>4. NothingOverwritten'
    BY <2>1, LinesStay
  <2>5. job'.quiet /\ ~Empty(job'.arch.mem) =>
          \A g \in Files : mem'[g] = IF g \in job'.todo THEN {} ELSE job'.arch.mem[g]
    BY <2>1, <2>2 DEF Empty, Nothing
  <2> QED BY <1>1, <2>1, <2>2, <2>3, <2>4, <2>5
<1>14. CASE EndImport
  BY <1>4, <1>14, LinesStay DEF EndImport
<1>15. CASE Fail
  BY <1>4, <1>15, LinesStay DEF Fail
<1>16. CASE UNCHANGED trvars
  BY <1>1, <1>16, LinesStay DEF trvars, Empty, Nothing
<1> QED
  BY <1>5, <1>6, <1>7, <1>8, <1>9, <1>10, <1>11, <1>12, <1>13, <1>14, <1>15, <1>16 DEF TRNext

LEMMA CarryHolds == ASSUME TransferAssumption PROVE TRSpec => []CarryInv
<1>1. ASSUME TRInit PROVE CarryInv
  <2>1. Nothing \in [Files -> SUBSET Nat] /\ NoRows \in [Signals -> Nat]
    BY DEF Nothing, NoRows
  <2>2. Idle \in Jobs
    BY <2>1 DEF Idle, Jobs, Archive
  <2>3. CarryType
    BY <1>1, <2>1, <2>2, TransferAssumption DEF CarryType, TransferAssumption, TRInit
  <2> QED BY <1>1, <2>3 DEF CarryInv, TRInit, NothingOverwritten, Idle
<1> QED BY <1>1, CarryStep, PTL DEF TRSpec

(* Whatever commands are refused, fail or are repeated, a line that an agent has *)
(* written is in the project's memory or in a backup, unless it was written to a *)
(* file that an import was about to extract: for any files, archives, commands, *)
(* faults and appends.                                                        *)
THEOREM NothingIsOverwritten == ASSUME TransferAssumption PROVE TRSpec => []NothingOverwritten
<1>1. CarryInv => NothingOverwritten
  BY DEF CarryInv
<1> QED BY <1>1, CarryHolds, PTL

(* An import that nothing disturbed leaves the files of the archive, if it has   *)
(* any, and has added each of its rows once.                                   *)
THEOREM ImportsDoArriveWhole == ASSUME TransferAssumption PROVE TRSpec => []ImportsArriveWhole
<1>1. ASSUME CarryInv PROVE ImportsArriveWhole
  <2>1. /\ mem \in [Files -> SUBSET Nat] /\ job.arch.mem \in [Files -> SUBSET Nat]
    BY <1>1 DEF CarryInv, CarryType, Jobs, Archive
  <2> QED BY <1>1, <2>1 DEF CarryInv, ImportsArriveWhole
<1> QED BY <1>1, CarryHolds, PTL

-----------------------------------------------------------------------------
(* For which project a call is answered.                                      *)

Trees == [Directories -> SUBSET Markers]

BindTypes ==
  /\ marks \in Trees /\ cwd \in Directories /\ workspace \in Seq(Directories)
  /\ override \in SUBSET Directories /\ (override # {} => \E d \in Directories : override = {d})
  /\ DOMAIN doing = Tasks
  /\ \A t \in Tasks : doing[t].path \in Paths \cup {NoPath}

(* The question is asked once.                                                *)
AskedOnce ==
  /\ \A t, u \in Waiting : t = u
  /\ ~attempted => Waiting = {} /\ heard = {}
  /\ heard # {} => Waiting = {}
  /\ heard = {} \/ \E tree \in Trees : heard = {tree}
  /\ Waiting # {} => mode \in {"workspace", "desktop"}

(* What the reply has left a server with that has a workspace: the project it    *)
(* chose, or the start directory, when that was open or nothing was chosen.    *)
BoundTo(tree, o) ==
  /\ \A d \in Directories : tree[d] \subseteq marks[d]
  /\ o = {} /\ Open(tree) # {} => Discover(cwd, tree) \in Open(tree)
  /\ \A w \in o : /\ w \in Tracked(tree) \cup Repos(tree)
                  /\ Open(tree) # {} => w \in Open(tree)
                  /\ w \in Tracked(tree) => w \in Open(tree)

BindInv ==
  /\ BindTypes /\ AskedOnce
  /\ mode = "workspace" =>
       /\ heard = {} => override = {}
       /\ \A tree \in heard : BoundTo(tree, override)
  /\ mode = "http" => override = {}
  /\ mode = "pinned" => override = {cwd}
  /\ CallsStayHome

(* What a task is answered for: what the server is bound to.                   *)
LEMMA RootIs ==
  ASSUME NEW pin, NEW t, NEW o, pin.owner # t \/ pin.root = Resolved(o)
  PROVE  Root(pin, t, o) = Resolved(o)
BY DEF Root

(* The nearest directory of S above d.                                        *)
LEMMA NearestIs ==
  ASSUME NEW d \in Directories, NEW S
  PROVE  \/ /\ Nearest(d, S) = {} /\ d \notin S /\ NearestOr(d, S) = d
            /\ \A i \in DOMAIN Up[d] : Up[d][i] \notin S
         \/ \E i \in DOMAIN Up[d] :
              /\ Nearest(d, S) = {Up[d][i]} /\ NearestOr(d, S) = Up[d][i]
              /\ Up[d][i] \in S \cap Directories
              /\ \A j \in 1 .. i - 1 : Up[d][j] \notin S
              /\ d \in S => Up[d][i] = d
<1> DEFINE hits == {i \in DOMAIN Up[d] : Up[d][i] \in S}
<1>0. /\ DOMAIN Up[d] = 1 .. Len(Up[d]) /\ Len(Up[d]) \in Nat
      /\ \A i \in DOMAIN Up[d] : Up[d][i] \in Directories
      /\ 1 \in DOMAIN Up[d] /\ Up[d][1] = d
  BY BindingAssumption, LenProperties, ElementOfSeq, EmptySeq
<1>1. CASE hits = {}
  BY <1>0, <1>1 DEF Nearest, NearestOr
<1>2. CASE hits # {}
  <2>1. hits \in SUBSET Nat
    BY <1>0
  <2>2. PICK x \in hits : \A y \in hits : x <= y
    <3> HIDE DEF hits
    <3> QED BY <1>2, <2>1, LeastOf
  <2>3. Min(hits) \in hits /\ \A y \in hits : Min(hits) <= y
    <3> HIDE DEF hits
    <3> QED BY <2>2 DEF Min
  <2>4. PICK i \in hits : i = Min(hits) /\ \A y \in hits : i <= y
    <3> HIDE DEF hits
    <3> QED BY <2>3
  <2>5. Nearest(d, S) = {Up[d][i]}
    BY <1>2, <2>4 DEF Nearest
  <2>6. NearestOr(d, S) = Up[d][i]
    <3>1. (CHOOSE r \in {Up[d][i]} : TRUE) = Up[d][i]
      OBVIOUS
    <3>2. {Up[d][i]} # {}
      OBVIOUS
    <3> HIDE DEF hits
    <3> QED BY <2>5, <3>1, <3>2, Zenon DEF NearestOr
  <2>7. ASSUME NEW j \in DOMAIN Up[d], Up[d][j] \in S PROVE i <= j
    <3>1. j \in hits
      BY <2>7
    <3> QED BY <2>4, <3>1
  <2>8. i \in 1 .. Len(Up[d])
    BY <1>0, <2>4
  <2>9. \A j \in 1 .. i - 1 : Up[d][j] \notin S
    <3> HIDE DEF hits
    <3>1. \A j \in 1 .. i - 1 : j \in DOMAIN Up[d] /\ ~(i <= j)
      BY <1>0, <2>8
    <3> QED BY <2>7, <3>1
  <2>10. d \in S => i = 1
    <3> HIDE DEF hits
    <3> QED BY <1>0, <2>7, <2>8
  <2> QED BY <1>0, <2>4, <2>5, <2>6, <2>9, <2>10
<1> QED BY <1>1, <1>2

LEMMA DiscoverIs ==
  ASSUME NEW d \in Directories, NEW tree
  PROVE  /\ Discover(d, tree) \in Directories
         /\ d \in WithMarker(tree) => Discover(d, tree) = d
BY NearestIs DEF Discover

(* A tracked project that a search up to the repository finds is the directory's. *)
LEMMA ProjectFound ==
  ASSUME NEW d \in Directories, NEW tree
  PROVE  LET e == NearestOr(d, Tracked(tree) \cup Repos(tree)) IN
         /\ e \in Directories
         /\ e \in Tracked(tree) => ProjectOf(d, tree) = {e}
         /\ ProjectOf(d, tree) # {} => e \in Tracked(tree)
<1> DEFINE S == Tracked(tree) \cup Repos(tree)
<1>1. CASE \A i \in DOMAIN Up[d] : Up[d][i] \notin S
  <2>1. ProjectOf(d, tree) = {}
    BY <1>1 DEF ProjectOf
  <2>2. NearestOr(d, S) = d /\ d \notin S
    <3> HIDE DEF S
    <3> QED BY <1>1, NearestIs
  <2> QED BY <2>1, <2>2
<1>2. ASSUME NEW i \in DOMAIN Up[d], NearestOr(d, S) = Up[d][i], Up[d][i] \in S \cap Directories,
             \A j \in 1 .. i - 1 : Up[d][j] \notin S
      PROVE  /\ Up[d][i] \in Directories
             /\ Up[d][i] \in Tracked(tree) => ProjectOf(d, tree) = {Up[d][i]}
             /\ ProjectOf(d, tree) # {} => Up[d][i] \in Tracked(tree)
  <2>0. DOMAIN Up[d] = 1 .. Len(Up[d]) /\ Len(Up[d]) \in Nat
    BY BindingAssumption, LenProperties
  <2>1. ASSUME NEW p \in ProjectOf(d, tree) PROVE p = Up[d][i] /\ p \in Tracked(tree)
    <3>1. PICK k \in DOMAIN Up[d] : /\ p = Up[d][k] /\ p \in Tracked(tree)
                                    /\ \A j \in 1 .. k - 1 : Up[d][j] \notin S
      BY <2>1 DEF ProjectOf
    <3>2. ~(k < i) /\ ~(i < k)
      BY <1>2, <2>0, <3>1
    <3> QED BY <2>0, <3>1, <3>2
  <2>2. Up[d][i] \in Tracked(tree) => Up[d][i] \in ProjectOf(d, tree)
    BY <1>2 DEF ProjectOf
  <2> QED BY <1>2, <2>1, <2>2
<1> HIDE DEF S
<1>3. \/ \A i \in DOMAIN Up[d] : Up[d][i] \notin S
      \/ \E i \in DOMAIN Up[d] : /\ NearestOr(d, S) = Up[d][i] /\ Up[d][i] \in S \cap Directories
                                 /\ \A j \in 1 .. i - 1 : Up[d][j] \notin S
  BY NearestIs
<1> QED BY <1>1, <1>2, <1>3 DEF S

(* Whatever root is compared, what is chosen of a workspace is a project that is *)
(* open, if one is, and no tracked one that is not.                           *)
LEMMA ChosenIs ==
  ASSUME BindTypes, NEW here
  PROVE  LET to == Chosen(workspace, here) IN
         /\ to = {} \/ \E w \in Directories : to = {w}
         /\ Open(marks) # {} => to # {}
         /\ \A w \in to : /\ w \in Tracked(marks) \cup Repos(marks)
                          /\ Open(marks) # {} => w \in Open(marks)
                          /\ w \in Tracked(marks) => w \in Open(marks)
<1> DEFINE usable == {i \in DOMAIN workspace : workspace[i] \notin Refused}
           In(S) == {i \in usable : Enclosing(workspace[i]) \in S}
           T == In(Tracked(marks))
           best == IF T # {} THEN T
                   ELSE IF In(Repos(marks)) # {} THEN In(Repos(marks)) ELSE usable
<1>0. /\ DOMAIN workspace \in SUBSET Nat
      /\ \A i \in DOMAIN workspace : workspace[i] \in Directories
  BY LenProperties, ElementOfSeq DEF BindTypes
<1>1. \A i \in usable : /\ Enclosing(workspace[i]) \in Directories
                        /\ i \in T => ProjectOf(workspace[i], marks) = {Enclosing(workspace[i])}
                        /\ ProjectOf(workspace[i], marks) # {} => i \in T
  BY <1>0, ProjectFound DEF Enclosing
<1>2. Open(marks) # {} => T # {}
  BY <1>1 DEF Open
<1>3. \A i \in T : Enclosing(workspace[i]) \in Open(marks)
  BY <1>1 DEF Open
<1>4. CASE usable = {}
  <2>1. Picked(workspace) = {}
    BY <1>4 DEF Picked
  <2> QED BY <1>2, <1>4, <2>1 DEF Chosen
<1>5. CASE usable # {}
  <2>1. best # {} /\ best \in SUBSET Nat /\ best \subseteq usable
    BY <1>0, <1>5
  <2>2. Picked(workspace) = {Enclosing(workspace[Min(best)])}
    BY <1>5 DEF Picked
  <2>3. Min(best) \in best
    <3> HIDE DEF best
    <3>1. PICK x \in best : \A y \in best : x <= y
      BY <2>1, LeastOf
    <3> QED BY <3>1 DEF Min
  <2>4. PICK k \in best : Picked(workspace) = {Enclosing(workspace[k])}
    <3> HIDE DEF best
    <3> QED BY <2>2, <2>3
  <2> DEFINE e == Enclosing(workspace[k])
  <2>5. e \in Directories /\ (T # {} => k \in T) /\ (e \in Tracked(marks) => k \in T)
    BY <1>1, <2>1
  <2>6. e \in Tracked(marks) => e \in Open(marks)
    BY <1>3, <2>5
  <2>7. Open(marks) # {} => e \in Tracked(marks)
    BY <1>2, <2>5
  <2>8. Chosen(workspace, here) \subseteq {e} /\ (e \in Tracked(marks) => Chosen(workspace, here) = {e})
        /\ \A w \in Chosen(workspace, here) : w \in Tracked(marks) \cup Repos(marks)
    <3> HIDE DEF e
    <3>1. Picked(workspace) = {e}
      BY <2>4 DEF e
    <3> QED BY <3>1 DEF Chosen
  <2> HIDE DEF e
  <2> QED BY <2>5, <2>6, <2>7, <2>8
<1> QED BY <1>4, <1>5

(* One answer: what is bound after it, and for which root it is.              *)
RespondTo(o, path) ==
  LET target == IF mode # "desktop" \/ path = NoPath THEN {} ELSE Nearest(path, Tracked(marks))
  IN  IF target \subseteq {Resolved(o)} THEN o ELSE target

LEMMA RespondIs ==
  ASSUME BindTypes, NEW t \in Tasks, NEW pin, NEW o \in SUBSET Directories, NEW path \in Paths \cup {NoPath},
         o # {} => \E d \in Directories : o = {d},
         pin.owner # t \/ pin.root = Resolved(o),
         Respond(t, pin, o, path)
  PROVE  /\ override' = RespondTo(o, path)
         /\ answered' = [task |-> t, path |-> path, root |-> Resolved(override'), tree |-> marks,
                         early |-> doing[t].at = "idle" /\ Waiting # {}]
         /\ doing' = [doing EXCEPT ![t] = AtRest]
         /\ override' \in SUBSET Directories /\ (override' # {} => \E d \in Directories : override' = {d})
         /\ mode # "desktop" => override' = o
         /\ mode = "desktop" /\ path # NoPath =>
              LET n == Nearest(path, Tracked(marks)) IN n = {} \/ Resolved(override') \in n
<1> DEFINE target == IF mode # "desktop" \/ path = NoPath THEN {} ELSE Nearest(path, Tracked(marks))
           to == IF target \subseteq {Root(pin, t, o)} THEN o ELSE target
           after == IF to = o THEN pin ELSE Cleared
<1>1. Root(pin, t, o) = Resolved(o)
  BY RootIs
<1>2. /\ override' = to /\ doing' = [doing EXCEPT ![t] = AtRest]
      /\ answered' = [task |-> t, path |-> path, root |-> Root(after, t, to), tree |-> marks,
                      early |-> doing[t].at = "idle" /\ Waiting # {}]
  BY DEF Respond
<1>3. to = RespondTo(o, path)
  BY <1>1 DEF RespondTo
<1>4. Root(after, t, to) = Resolved(to)
  <2>1. after.owner # t \/ after.root = Resolved(to)
    <3>1. Cleared.owner # t
      BY BindingAssumption DEF Cleared
    <3> QED BY <3>1
  <2> HIDE DEF after, to
  <2> QED BY <2>1, RootIs
<1>5. target = {} \/ \E d \in Directories : target = {d} /\ d \in Tracked(marks)
  <2>1. ASSUME path \in Directories PROVE Nearest(path, Tracked(marks)) = {} \/
              \E d \in Directories : Nearest(path, Tracked(marks)) = {d} /\ d \in Tracked(marks)
    BY <2>1, NearestIs
  <2> QED BY <2>1, BindingAssumption
<1>6. to \in SUBSET Directories /\ (to # {} => \E d \in Directories : to = {d})
  BY <1>5
<1>7. mode # "desktop" => to = o
  OBVIOUS
<1>8. mode = "desktop" /\ path # NoPath => target = {} \/ Resolved(to) \in target
  <2>1. CASE target \subseteq {Resolved(o)}
    BY <1>1, <1>5, <2>1
  <2>2. CASE ~(target \subseteq {Resolved(o)})
    <3>1. to = target
      BY <1>1, <2>2
    <3>2. PICK d \in Directories : target = {d} /\ d \in Tracked(marks)
      BY <1>5, <2>2
    <3>3. d \in WithMarker(marks)
      BY <3>2 DEF Tracked, WithMarker
    <3>4. Resolved({d}) = d
      BY <3>3, DiscoverIs DEF Resolved
    <3> HIDE DEF target, to
    <3> QED BY <3>1, <3>2, <3>4
  <2> QED BY <2>1, <2>2
<1> QED
  <2> HIDE DEF to, after
  <2>1. mode = "desktop" /\ path # NoPath =>
              LET n == Nearest(path, Tracked(marks)) IN n = {} \/ Resolved(to) \in n
    BY <1>8
  <2> HIDE DEF target
  <2> QED BY <1>2, <1>3, <1>4, <1>6, <1>7, <2>1

(* What the properties say of an answer that is given now.                    *)
Rightly(early, path, o, told) ==
  LET r == Resolved(o) IN
  /\ mode = "workspace" /\ ~early =>
       \A tree \in told :
         /\ Open(tree) # {} => \/ r \in Open(tree)
                               \/ Discover(cwd, tree) \in Open(tree) /\ r = Discover(cwd, marks)
         /\ r \in Tracked(tree) \ Open(tree) => r = Discover(cwd, marks)
  /\ mode = "desktop" /\ path # NoPath =>
       LET n == Nearest(path, Tracked(marks)) IN n = {} \/ r \in n
  /\ mode \in {"http", "pinned"} => r = Discover(cwd, marks)

LEMMA RightlyBound ==
  ASSUME BindTypes, NEW o \in SUBSET Directories, NEW told, NEW early \in BOOLEAN,
         o # {} => \E d \in Directories : o = {d},
         mode = "workspace" /\ ~early => \A tree \in told : tree \in Trees /\ BoundTo(tree, o),
         mode = "http" => o = {}, mode = "pinned" => o = {cwd}, mode # "desktop"
  PROVE  \A path : Rightly(early, path, o, told)
<1>1. ASSUME mode = "workspace", ~early, NEW tree \in told
      PROVE  /\ Open(tree) # {} => \/ Resolved(o) \in Open(tree)
                                   \/ Discover(cwd, tree) \in Open(tree) /\ Resolved(o) = Discover(cwd, marks)
             /\ Resolved(o) \in Tracked(tree) \ Open(tree) => Resolved(o) = Discover(cwd, marks)
  <2>1. CASE o = {}
    BY <1>1, <2>1 DEF Resolved, BoundTo
  <2>2. CASE o # {}
    <3>1. PICK w \in Directories : o = {w}
      BY <2>2
    <3>2. w \in WithMarker(marks)
      BY <1>1, <3>1 DEF BoundTo, Tracked, Repos, WithMarker
    <3>3. Resolved(o) = w
      BY <3>1, <3>2, DiscoverIs DEF Resolved
    <3> QED BY <1>1, <3>1, <3>3 DEF BoundTo
  <2> QED BY <2>1, <2>2
<1>2. mode \in {"http", "pinned"} => Resolved(o) = Discover(cwd, marks)
  BY DEF Resolved
<1> QED BY <1>1, <1>2 DEF Rightly

LEMMA AnsweredRightly ==
  ASSUME NEW t \in Tasks, NEW path, NEW early \in BOOLEAN, UNCHANGED <<marks, fixed>>,
         answered' = [task |-> t, path |-> path, root |-> Resolved(override'), tree |-> marks,
                      early |-> early],
         Rightly(early, path, override', heard')
  PROVE  CallsStayHome'
<1>1. answered'.path = path /\ answered'.root = Resolved(override') /\ answered'.tree = marks
      /\ answered'.early = early
  OBVIOUS
<1>2. /\ mode' = mode /\ cwd' = cwd /\ \A tree : Open(tree)' = Open(tree)
      /\ \A d, tree : Discover(d, tree)' = Discover(d, tree)
  BY DEF fixed, Open
<1>3. CallsFollowTheClient'
  BY <1>1, <1>2 DEF CallsFollowTheClient, Rightly
<1>4. PathsDecide'
  BY <1>1, <1>2 DEF PathsDecide, Rightly
<1>5. OthersUnmoved'
  BY <1>1, <1>2 DEF OthersUnmoved, Rightly
<1> QED BY <1>3, <1>4, <1>5 DEF CallsStayHome

(* What no step on the server touches.                                        *)
LEMMA BoundStays ==
  ASSUME NEW tree, NEW o, UNCHANGED <<marks, fixed>>, BoundTo(tree, o)
  PROVE  BoundTo(tree, o)'
<1>1. marks' = marks /\ cwd' = cwd /\ Open(tree)' = Open(tree)
  BY DEF fixed, Open
<1>2. Discover(cwd, tree)' = Discover(cwd, tree)
  BY <1>1
<1> QED BY <1>1, <1>2 DEF BoundTo

LEMMA BindStep == ASSUME BindInv, [BNext]_bvars PROVE BindInv'
<1>0. /\ BindTypes /\ AskedOnce /\ CallsStayHome
      /\ mode = "workspace" => /\ heard = {} => override = {}
                               /\ \A tree \in heard : BoundTo(tree, override)
      /\ (mode = "http" => override = {}) /\ (mode = "pinned" => override = {cwd})
  BY DEF BindInv
(* A task that is answered, by whichever of the steps.                        *)
<1>1. ASSUME NEW t \in Tasks, NEW pin, NEW o \in SUBSET Directories, NEW path \in Paths \cup {NoPath},
             o # {} => \E d \in Directories : o = {d},
             pin.owner # t \/ pin.root = Resolved(o),
             Respond(t, pin, o, path), UNCHANGED <<marks, fixed>>,
             heard' = heard \/ heard' = {marks}, attempted' = TRUE,
             doing[t].at = "idle" \/ (doing[t].at = "asking" /\ Waiting = {t}),
             heard' # {} => Waiting = {} \/ doing[t].at = "asking",
             mode = "workspace" => /\ heard' = {} => o = {}
                                   /\ \A tree \in heard' : BoundTo(tree, o),
             mode = "http" => o = {}, mode = "pinned" => o = {cwd}
      PROVE  BindInv'
  <2> DEFINE early == doing[t].at = "idle" /\ Waiting # {}
  <2>1. /\ answered' = [task |-> t, path |-> path, root |-> Resolved(override'), tree |-> marks,
                        early |-> early]
        /\ doing' = [doing EXCEPT ![t] = AtRest]
        /\ override' \in SUBSET Directories /\ (override' # {} => \E d \in Directories : override' = {d})
        /\ mode # "desktop" => override' = o
        /\ mode = "desktop" /\ path # NoPath =>
             LET n == Nearest(path, Tracked(marks)) IN n = {} \/ Resolved(override') \in n
    BY <1>0, <1>1, RespondIs
  <2>2. Waiting' \subseteq Waiting /\ (doing[t].at = "asking" => Waiting' = {})
    BY <1>0, <1>1, <2>1 DEF Waiting, AtRest, BindTypes
  <2>3. BindTypes'
    BY <1>0, <1>1, <2>1 DEF BindTypes, fixed, AtRest
  <2>4. AskedOnce'
    <3>1. \A x, y \in Waiting' : x = y
      BY <1>0, <2>2 DEF AskedOnce
    <3>2. heard' # {} => Waiting' = {}
      BY <1>1, <2>2
    <3>3. heard' = {} \/ \E tree \in Trees : heard' = {tree}
      BY <1>0, <1>1 DEF AskedOnce, BindTypes
    <3>4. Waiting' # {} => mode' \in {"workspace", "desktop"}
      BY <1>0, <1>1, <2>2 DEF AskedOnce, fixed
    <3> QED BY <1>1, <3>1, <3>2, <3>3, <3>4 DEF AskedOnce
  <2>5. Rightly(early, path, override', heard')
    <3>1. CASE mode = "desktop"
      BY <2>1, <3>1 DEF Rightly
    <3>2. CASE mode # "desktop"
      <4>1. \A tree \in heard' : tree \in Trees
        BY <1>0, <1>1 DEF AskedOnce, BindTypes
      <4>2. early \in BOOLEAN
        OBVIOUS
      <4> HIDE DEF early
      <4> QED BY <1>0, <1>1, <2>1, <3>2, <4>1, <4>2, RightlyBound
    <3> QED BY <3>1, <3>2
  <2>6. CallsStayHome'
    <3>1. early \in BOOLEAN
      OBVIOUS
    <3> HIDE DEF early
    <3> QED BY <1>1, <2>1, <2>5, <3>1, AnsweredRightly
  <2>7. mode = "workspace" => \A tree \in heard' : BoundTo(tree, override')
    BY <1>1, <2>1
  <2>8. mode' = "workspace" => \A tree \in heard' : BoundTo(tree, override)'
    BY <1>1, <2>7, BoundStays DEF fixed
  <2> QED BY <1>1, <2>1, <2>3, <2>4, <2>6, <2>8 DEF BindInv, fixed
<1>2. ASSUME NEW t \in Tasks, NEW path \in Paths \cup {NoPath}, CallTool(t, path) PROVE BindInv'
  <2>1. CASE Respond(t, FromMain, override, path)
    <3>1. FromMain.owner # t
      BY BindingAssumption DEF FromMain
    <3>2. heard' = heard /\ UNCHANGED <<marks, fixed>> /\ attempted' = TRUE /\ doing[t].at = "idle"
      BY <1>2 DEF CallTool
    <3>3. heard' # {} => Waiting = {}
      BY <1>0, <3>2 DEF AskedOnce
    <3>4. override \in SUBSET Directories /\ (override # {} => \E d \in Directories : override = {d})
      BY <1>0 DEF BindTypes
    <3>5. mode = "workspace" => /\ heard' = {} => override = {}
                                /\ \A tree \in heard' : BoundTo(tree, override)
      BY <1>0, <3>2
    <3>6. FromMain.owner # t \/ FromMain.root = Resolved(override)
      BY <3>1
    <3>7. /\ UNCHANGED <<marks, fixed>> /\ attempted' = TRUE
          /\ heard' = heard \/ heard' = {marks}
          /\ doing[t].at = "idle" \/ (doing[t].at = "asking" /\ Waiting = {t})
          /\ heard' # {} => Waiting = {} \/ doing[t].at = "asking"
          /\ (mode = "http" => override = {}) /\ (mode = "pinned" => override = {cwd})
      BY <1>0, <3>2, <3>3
    <3> QED BY <1>1, <2>1, <3>4, <3>5, <3>6, <3>7
  <2>2. CASE /\ ~attempted /\ mode \in {"workspace", "desktop"} /\ override = {}
             /\ doing' = [doing EXCEPT ![t] = [at |-> "asking", path |-> path]]
             /\ UNCHANGED <<override, answered>>
    <3>1. /\ UNCHANGED <<marks, fixed, heard, override, answered>> /\ attempted' = TRUE
          /\ heard = {} /\ Waiting = {}
      BY <1>0, <1>2, <2>2 DEF CallTool, AskedOnce
    <3>2. Waiting' \subseteq {t}
      BY <1>0, <2>2, <3>1 DEF Waiting, BindTypes
    <3>3. BindTypes'
      BY <1>0, <2>2, <3>1 DEF BindTypes, fixed
    <3>4. AskedOnce'
      BY <2>2, <3>1, <3>2 DEF AskedOnce, fixed
    <3>5. CallsStayHome'
      <4>1. CallsFollowTheClient'
        BY <3>1 DEF CallsFollowTheClient
      <4>2. PathsDecide'
        BY <1>0, <3>1 DEF CallsStayHome, PathsDecide, fixed
      <4>3. OthersUnmoved'
        BY <1>0, <3>1 DEF CallsStayHome, OthersUnmoved, fixed
      <4> QED BY <4>1, <4>2, <4>3 DEF CallsStayHome
    <3> QED BY <1>0, <2>2, <3>1, <3>3, <3>4, <3>5 DEF BindInv, fixed
  <2> QED BY <1>2, <2>1, <2>2 DEF CallTool
<1>3. ASSUME NEW t \in Tasks, Answer(t) PROVE BindInv'
  <2> DEFINE here == Root(FromMain, t, override)
             to == Chosen(workspace, here)
  <2>1. FromMain.owner # t /\ Cleared.owner # t
    BY BindingAssumption DEF FromMain, Cleared
  <2>2. here = Resolved(override)
    BY <2>1, RootIs
  <2>3. /\ to = {} \/ \E w \in Directories : to = {w}
        /\ Open(marks) # {} => to # {}
        /\ \A w \in to : /\ w \in Tracked(marks) \cup Repos(marks)
                         /\ Open(marks) # {} => w \in Open(marks)
                         /\ w \in Tracked(marks) => w \in Open(marks)
    BY <1>0, ChosenIs
  <2>4. /\ doing[t].at = "asking" /\ heard' = {marks} /\ UNCHANGED <<marks, fixed, attempted>>
        /\ IF to \subseteq {here} THEN Respond(t, [root |-> here, owner |-> t], override, doing[t].path)
           ELSE Respond(t, Cleared, to, doing[t].path)
    BY <1>3 DEF Answer
  <2>5. Waiting = {t} /\ attempted /\ heard = {} /\ doing[t].path \in Paths \cup {NoPath}
        /\ override \in SUBSET Directories /\ (override # {} => \E d \in Directories : override = {d})
    BY <1>0, <2>4 DEF AskedOnce, Waiting, BindTypes
  <2> HIDE DEF here, to
  <2>6. CASE to \subseteq {here}
    <3>1. Respond(t, [root |-> here, owner |-> t], override, doing[t].path)
      BY <2>4, <2>6
    <3>2. mode = "workspace" => override = {} /\ BoundTo(marks, override)
      <4>1. mode = "workspace" => override = {} /\ here = Discover(cwd, marks)
        BY <1>0, <2>2, <2>5 DEF Resolved
      <4> QED BY <2>3, <2>6, <4>1 DEF BoundTo
    <3>3. [root |-> here, owner |-> t].root = Resolved(override)
      BY <2>2
    <3> QED BY <1>0, <1>1, <2>4, <2>5, <3>1, <3>2, <3>3
  <2>7. CASE ~(to \subseteq {here})
    <3>1. Respond(t, Cleared, to, doing[t].path)
      BY <2>4, <2>7
    <3>2. \E w \in Directories : to = {w}
      BY <2>3, <2>7
    <3>3. BoundTo(marks, to)
      BY <2>3, <3>2 DEF BoundTo
    <3>4. mode \notin {"http", "pinned"}
      BY <1>0, <2>5 DEF AskedOnce
    <3> QED BY <1>0, <1>1, <2>1, <2>4, <2>5, <3>1, <3>2, <3>3, <3>4
  <2> QED BY <2>6, <2>7
<1>4. ASSUME NEW t \in Tasks, TimeOut(t) PROVE BindInv'
  <2> DEFINE pin == [root |-> Root(FromMain, t, override), owner |-> t]
  <2>1. FromMain.owner # t
    BY BindingAssumption DEF FromMain
  <2>2. pin.root = Resolved(override)
    BY <2>1, RootIs
  <2>3. /\ doing[t].at = "asking" /\ UNCHANGED <<marks, fixed, attempted, heard>>
        /\ Respond(t, pin, override, doing[t].path)
    BY <1>4 DEF TimeOut
  <2>4. Waiting = {t} /\ attempted /\ doing[t].path \in Paths \cup {NoPath}
        /\ override \in SUBSET Directories /\ (override # {} => \E d \in Directories : override = {d})
    BY <1>0, <2>3 DEF AskedOnce, Waiting, BindTypes
  <2>5. mode = "workspace" => /\ heard' = {} => override = {}
                              /\ \A tree \in heard' : BoundTo(tree, override)
    BY <1>0, <2>3
  <2> HIDE DEF pin
  <2> QED BY <1>0, <1>1, <2>2, <2>3, <2>4, <2>5
<1>5. ASSUME NEW t \in Tasks, ReadResource(t) PROVE BindInv'
  <2> DEFINE early == heard = {}
  <2>1. FromMain.owner # t
    BY BindingAssumption DEF FromMain
  <2>2. /\ UNCHANGED <<marks, fixed, override, attempted, doing, heard>>
        /\ answered' = [task |-> t, path |-> NoPath, root |-> Resolved(override'), tree |-> marks,
                        early |-> early]
    BY <1>5, <2>1, RootIs DEF ReadResource
  <2>3. Rightly(early, NoPath, override', heard')
    <3>1. CASE mode = "desktop"
      BY <3>1 DEF Rightly
    <3>2. CASE mode # "desktop"
      <4>1. \A tree \in heard : tree \in Trees
        BY <1>0 DEF AskedOnce
      <4>2. early \in BOOLEAN /\ override \in SUBSET Directories
            /\ (override # {} => \E d \in Directories : override = {d})
        BY <1>0 DEF BindTypes
      <4> HIDE DEF early
      <4> QED BY <1>0, <2>2, <3>2, <4>1, <4>2, RightlyBound
    <3> QED BY <3>1, <3>2
  <2>4. CallsStayHome'
    <3>1. early \in BOOLEAN /\ UNCHANGED <<marks, fixed>>
      BY <2>2
    <3> HIDE DEF early
    <3> QED BY <2>2, <2>3, <3>1, AnsweredRightly
  <2>5. BindTypes' /\ AskedOnce'
    BY <1>0, <2>2 DEF BindTypes, AskedOnce, Waiting, fixed
  <2>6. mode' = "workspace" => \A tree \in heard' : BoundTo(tree, override)'
    BY <1>0, <2>2, BoundStays DEF fixed
  <2> QED BY <1>0, <2>2, <2>4, <2>5, <2>6 DEF BindInv, fixed
(* More is marked, which no property looks at.                                *)
<1>6. ASSUME NEW d \in Directories, InitFolder(d) PROVE BindInv'
  <2>1. /\ UNCHANGED <<fixed, override, attempted, doing, answered, heard>>
        /\ marks' = [marks EXCEPT ![d] = @ \cup {"codevira"}]
    BY <1>6 DEF InitFolder
  <2>2. BindTypes'
    BY <1>0, <2>1 DEF BindTypes, Trees, Markers, fixed
  <2>3. AskedOnce'
    BY <1>0, <2>1 DEF AskedOnce, Waiting, fixed
  <2>4. ASSUME NEW tree, BoundTo(tree, override) PROVE BoundTo(tree, override)'
    <3>1. cwd' = cwd /\ Open(tree)' = Open(tree) /\ override' = override
      BY <2>1 DEF fixed, Open
    <3>2. Discover(cwd, tree)' = Discover(cwd, tree)
      BY <3>1
    <3>3. \A e \in Directories : marks[e] \subseteq marks'[e]
      BY <1>0, <2>1 DEF BindTypes, Trees
    <3> QED BY <2>4, <3>1, <3>2, <3>3 DEF BoundTo
  <2>5. CallsStayHome'
    <3>1. /\ mode' = mode /\ cwd' = cwd /\ \A tree : Open(tree)' = Open(tree)
          /\ \A x, tree : Discover(x, tree)' = Discover(x, tree)
      BY <2>1 DEF fixed, Open
    <3>2. CallsFollowTheClient'
      BY <1>0, <2>1, <3>1 DEF CallsStayHome, CallsFollowTheClient
    <3>3. PathsDecide' /\ OthersUnmoved'
      BY <1>0, <2>1, <3>1 DEF CallsStayHome, PathsDecide, OthersUnmoved
    <3> QED BY <3>2, <3>3 DEF CallsStayHome
  <2> QED BY <1>0, <2>1, <2>2, <2>3, <2>4, <2>5 DEF BindInv, fixed
<1>7. CASE UNCHANGED bvars
  <2>1. UNCHANGED <<marks, fixed, override, attempted, doing, answered, heard>>
    BY <1>7 DEF bvars, fixed
  <2>2. BindTypes' /\ AskedOnce'
    BY <1>0, <2>1 DEF BindTypes, AskedOnce, Waiting, fixed
  <2>3. CallsStayHome'
    <3>1. CallsFollowTheClient' /\ PathsDecide' /\ OthersUnmoved'
      BY <1>0, <2>1 DEF CallsStayHome, CallsFollowTheClient, PathsDecide, OthersUnmoved, Open, fixed
    <3> QED BY <3>1 DEF CallsStayHome
  <2>4. mode' = "workspace" => \A tree \in heard' : BoundTo(tree, override)'
    BY <1>0, <2>1, BoundStays DEF fixed
  <2> QED BY <1>0, <2>1, <2>2, <2>3, <2>4 DEF BindInv, fixed
<1> QED BY <1>2, <1>3, <1>4, <1>5, <1>6, <1>7 DEF BNext

(* Whatever the file system, the clients and the order of calls and replies, and  *)
(* for any number of tasks: a call is answered for the project of the client    *)
(* or of the path it came with, and a server that is shared or was told which   *)
(* project to serve stays with it.                                           *)
THEOREM HomeIsKept == BSpec => []CallsStayHome
<1>1. BInit => BindInv
  <2> SUFFICES ASSUME BInit PROVE BindInv
    OBVIOUS
  <2>1. BindTypes
    BY BindingAssumption DEF BInit, BindTypes, AtRest, Trees
  <2>2. AskedOnce /\ Waiting = {}
    BY DEF BInit, AskedOnce, Waiting, AtRest
  <2>3. answered.root = Discover(cwd, marks) /\ answered.tree = marks /\ answered.path = NoPath
    BY DEF BInit
  <2>4. CallsStayHome
    BY <2>3 DEF BInit, CallsStayHome, CallsFollowTheClient, PathsDecide, OthersUnmoved
  <2> QED BY <2>1, <2>2, <2>4 DEF BInit, BindInv
<1>2. BindInv => CallsStayHome
  BY DEF BindInv
<1> QED BY <1>1, <1>2, BindStep, PTL DEF BSpec

-----------------------------------------------------------------------------
(* Managed files (AgentsMd).                                                  *)

Pieces == UserPieces \cup {BeginMarker, EndMarker} \cup {<<"block", k>> : k \in Nat}
Free(s) == \A i \in 1 .. Len(s) : s[i] # BeginMarker /\ s[i] # EndMarker

(* A managed file that is not old: the user's pieces on both sides of a block.  *)
Framed(d, r) ==
  \E p \in Seq(Pieces), q \in Seq(Pieces) : Free(p) /\ d = p \o Block(r) \o q

AgentsInv ==
  /\ rev \in Nat /\ stale \subseteq ManagedFiles /\ todo \subseteq ManagedFiles
  /\ doc \in [ManagedFiles -> Seq(Pieces)]
  /\ own \in [Shared -> Seq(Pieces)]
  /\ locked \in Seq(Nat) /\ open \in Seq(Nat)
  /\ UserTextKept
  /\ \A f \in ManagedFiles \ stale :
       IF f \in Shared THEN Framed(doc[f], rev) ELSE doc[f] = Block(rev)

LEMMA MarkersDiffer ==
  /\ BeginMarker # EndMarker
  /\ \A k : <<"block", k>> # BeginMarker /\ <<"block", k>> # EndMarker
<1>1. Len(<<"begin">>) = 1 /\ Len(<<"end">>) = 1 /\ \A k : Len(<<"block", k>>) = 2
  OBVIOUS
<1>2. <<"begin">>[1] = "begin" /\ <<"end">>[1] = "end"
  OBVIOUS
<1> QED BY <1>1, <1>2 DEF BeginMarker, EndMarker

LEMMA FirstAtIs ==
  ASSUME NEW s \in Seq(Pieces), NEW x
  PROVE  /\ FirstAt(s, x) \in 0 .. Len(s)
         /\ FirstAt(s, x) # 0 => s[FirstAt(s, x)] = x
         /\ \A j \in 1 .. Len(s) : s[j] = x => FirstAt(s, x) # 0 /\ FirstAt(s, x) <= j
<1> DEFINE S == {i \in DOMAIN s : s[i] = x}
<1>1. Len(s) \in Nat /\ DOMAIN s = 1 .. Len(s) /\ S \subseteq 1 .. Len(s)
  BY LenProperties
<1>2. CASE S = {}
  <2>1. FirstAt(s, x) = 0
    BY <1>2 DEF FirstAt
  <2> QED BY <1>1, <1>2, <2>1
<1>3. CASE S # {}
  <2>1. S \in SUBSET Nat
    BY <1>1
  <2>2. \E m \in S : \A y \in S : m <= y
    BY <1>3, <2>1, LeastOf
  <2>3. Min(S) \in S /\ \A y \in S : Min(S) <= y
    BY <2>2 DEF Min
  <2>4. FirstAt(s, x) = Min(S)
    BY <1>3 DEF FirstAt
  <2>5. Min(S) \in 1 .. Len(s) /\ s[Min(S)] = x
    BY <1>1, <2>3
  <2>6. \A j \in 1 .. Len(s) : s[j] = x => j \in S
    BY <1>1
  <2> HIDE DEF S
  <2> QED BY <1>1, <2>3, <2>4, <2>5, <2>6
<1> QED BY <1>2, <1>3

LEMMA FirstAtMeets ==
  ASSUME NEW s \in Seq(Pieces), NEW x, NEW n \in 1 .. Len(s), s[n] = x,
         \A j \in 1 .. n - 1 : s[j] # x
  PROVE  FirstAt(s, x) = n
<1>1. Len(s) \in Nat
  BY LenProperties
<1>2. FirstAt(s, x) \in 1 .. n /\ s[FirstAt(s, x)] = x
  BY <1>1, FirstAtIs
<1> QED BY <1>1, <1>2

LEMMA BlockIsThree ==
  ASSUME NEW r \in Nat
  PROVE  /\ Block(r) \in Seq(Pieces) /\ Len(Block(r)) = 3
         /\ Block(r)[1] = BeginMarker /\ Block(r)[2] = <<"block", r>> /\ Block(r)[3] = EndMarker
<1>1. BeginMarker \in Pieces /\ EndMarker \in Pieces /\ <<"block", r>> \in Pieces
  BY DEF Pieces
<1> HIDE DEF Pieces
<1> QED BY <1>1 DEF Block

LEMMA JoinedAt ==
  ASSUME NEW S, NEW s \in Seq(S), NEW t \in Seq(S)
  PROVE  /\ s \o t \in Seq(S) /\ Len(s \o t) = Len(s) + Len(t)
         /\ \A i \in 1 .. Len(s) : (s \o t)[i] = s[i]
         /\ \A i \in 1 .. Len(t) : (s \o t)[Len(s) + i] = t[i]
<1> DEFINE u == s \o t
<1>1. Len(s) \in Nat /\ Len(t) \in Nat
  BY LenProperties
<1>2. /\ u \in Seq(S) /\ Len(u) = Len(s) + Len(t)
      /\ \A i \in 1 .. Len(s) + Len(t) : u[i] = IF i <= Len(s) THEN s[i] ELSE t[i - Len(s)]
  BY ConcatProperties
<1> HIDE DEF u
<1>3. ASSUME NEW i \in 1 .. Len(s) PROVE u[i] = s[i]
  BY <1>1, <1>2
<1>4. ASSUME NEW i \in 1 .. Len(t) PROVE u[Len(s) + i] = t[i]
  <2>1. Len(s) + i \in 1 .. Len(s) + Len(t) /\ ~(Len(s) + i <= Len(s)) /\ Len(s) + i - Len(s) = i
    BY <1>1
  <2> QED BY <1>2, <2>1
<1> QED BY <1>2, <1>3, <1>4 DEF u

(* What a file with a block in it shows.                                      *)
LEMMA FramedShows ==
  ASSUME NEW r \in Nat, NEW p \in Seq(Pieces), NEW q \in Seq(Pieces), Free(p)
  PROVE  LET t == p \o Block(r) \o q IN
         /\ t \in Seq(Pieces) /\ HasBlock(t)
         /\ Above(t) = p /\ Below(t) = q
         /\ t[Len(p) + 2] = <<"block", r>> /\ Len(p) + 2 \in 1 .. Len(t)
<1> DEFINE b == Block(r)
           u == p \o b
           t == u \o q
           n == Len(p)
<1>1. b \in Seq(Pieces) /\ Len(b) = 3 /\ b[1] = BeginMarker /\ b[2] = <<"block", r>> /\ b[3] = EndMarker
  BY BlockIsThree
<1>2. n \in Nat /\ Len(q) \in Nat
  BY LenProperties
<1> HIDE DEF b
<1>3. /\ u \in Seq(Pieces) /\ Len(u) = n + 3
      /\ \A i \in 1 .. n : u[i] = p[i]
      /\ \A i \in 1 .. 3 : u[n + i] = b[i]
  <2>1. /\ p \o b \in Seq(Pieces) /\ Len(p \o b) = Len(p) + Len(b)
        /\ \A i \in 1 .. Len(p) : (p \o b)[i] = p[i]
        /\ \A i \in 1 .. Len(b) : (p \o b)[Len(p) + i] = b[i]
    <3> HIDE DEF u, t, n
    <3>1. b \in Seq(Pieces)
      BY <1>1
    <3> QED BY <3>1, JoinedAt
  <2>2. u = p \o b
    OBVIOUS
  <2> HIDE DEF u
  <2> QED BY <1>1, <2>1, <2>2
<1> HIDE DEF u
<1>4. /\ t \in Seq(Pieces) /\ Len(t) = n + 3 + Len(q)
      /\ \A i \in 1 .. n + 3 : t[i] = u[i]
      /\ \A i \in 1 .. Len(q) : t[n + 3 + i] = q[i]
  <2>1. /\ u \o q \in Seq(Pieces) /\ Len(u \o q) = Len(u) + Len(q)
        /\ \A i \in 1 .. Len(u) : (u \o q)[i] = u[i]
        /\ \A i \in 1 .. Len(q) : (u \o q)[Len(u) + i] = q[i]
    <3> HIDE DEF t, n
    <3>1. u \in Seq(Pieces)
      BY <1>3
    <3> QED BY <3>1, JoinedAt
  <2>2. t = u \o q /\ Len(u) = n + 3
    BY <1>3
  <2> HIDE DEF t, n
  <2> QED BY <2>1, <2>2
<1> HIDE DEF t
<1>5. t[n + 1] = BeginMarker /\ t[n + 2] = <<"block", r>> /\ t[n + 3] = EndMarker
      /\ \A i \in 1 .. n : t[i] = p[i]
  <2>1. u[n + 1] = b[1] /\ u[n + 2] = b[2] /\ u[n + 3] = b[3]
    BY <1>3
  <2>2. n + 1 \in 1 .. n + 3 /\ n + 2 \in 1 .. n + 3 /\ n + 3 \in 1 .. n + 3
        /\ \A i \in 1 .. n : i \in 1 .. n + 3
    BY <1>2
  <2> HIDE DEF n
  <2> QED BY <1>1, <1>3, <1>4, <2>1, <2>2
<1>6. FirstAt(t, BeginMarker) = n + 1
  <2>1. \A j \in 1 .. n : t[j] # BeginMarker
    BY <1>5 DEF Free
  <2> HIDE DEF n
  <2>2. n + 1 \in 1 .. Len(t) /\ n + 1 - 1 = n
    BY <1>2, <1>4
  <2>3. PICK k : k = n + 1
    OBVIOUS
  <2>4. k \in 1 .. Len(t) /\ t[k] = BeginMarker /\ \A j \in 1 .. k - 1 : t[j] # BeginMarker
    BY <1>2, <1>5, <2>1, <2>2, <2>3
  <2>5. FirstAt(t, BeginMarker) = k
    BY <1>4, <2>4, FirstAtMeets
  <2> QED BY <2>3, <2>5
<1>7. FirstAt(t, EndMarker) = n + 3
  <2>1. n + 3 \in 1 .. Len(t)
    BY <1>2, <1>4
  <2>2. \A j \in 1 .. n + 3 - 1 : t[j] # EndMarker
    <3>1. \A j \in 1 .. n + 3 - 1 : j \in 1 .. n \/ j = n + 1 \/ j = n + 2
      BY <1>2
    <3>2. \A j \in 1 .. n : t[j] # EndMarker
      BY <1>5 DEF Free
    <3> QED BY <1>5, <3>1, <3>2, MarkersDiffer
  <2>3. PICK k : k = n + 3
    OBVIOUS
  <2> HIDE DEF n
  <2>4. k \in 1 .. Len(t) /\ t[k] = EndMarker /\ \A j \in 1 .. k - 1 : t[j] # EndMarker
    BY <1>2, <1>5, <2>1, <2>2, <2>3
  <2>5. FirstAt(t, EndMarker) = k
    BY <1>4, <2>4, FirstAtMeets
  <2> QED BY <2>3, <2>5
<1>8. Above(t) = p
  <2>1. Above(t) = SubSeq(t, 1, n)
    BY <1>2, <1>6 DEF Above
  <2>2. \A i \in 1 .. n : t[i] \in Pieces
    BY <1>5, ElementOfSeq
  <2>3. SubSeq(t, 1, n) \in Seq(Pieces) /\ Len(SubSeq(t, 1, n)) = n
        /\ \A i \in 1 .. n : SubSeq(t, 1, n)[i] = t[i]
    <3>1. /\ SubSeq(t, 1, n) \in Seq(Pieces)
          /\ Len(SubSeq(t, 1, n)) = IF 1 <= n THEN n - 1 + 1 ELSE 0
          /\ \A i \in 1 .. n - 1 + 1 : SubSeq(t, 1, n)[i] = t[1 + i - 1]
      BY <1>2, <2>2, SubSeqProperties
    <3>2. n - 1 + 1 = n /\ (~(1 <= n) => n = 0) /\ \A i \in 1 .. n : 1 + i - 1 = i
      BY <1>2
    <3> HIDE DEF n
    <3> QED BY <3>1, <3>2
  <2> QED BY <1>5, <2>1, <2>3, SeqEqual
<1>9. Below(t) = q
  <2> DEFINE a == n + 4
             z == n + 3 + Len(q)
             d == SubSeq(t, a, z)
  <2>1. Below(t) = d
    BY <1>2, <1>4, <1>7 DEF Below
  <2>2. a \in Int /\ z \in Int /\ z - a + 1 = Len(q) /\ (~(a <= z) => Len(q) = 0)
        /\ \A i \in 1 .. Len(q) : a + i - 1 = n + 3 + i
    BY <1>2
  <2>3. \A i \in a .. z : t[i] \in Pieces
    <3>1. \A i \in a .. z : i \in 1 .. Len(t)
      BY <1>2, <1>4
    <3> QED BY <1>4, <3>1, ElementOfSeq
  <2>4. d \in Seq(Pieces) /\ Len(d) = (IF a <= z THEN z - a + 1 ELSE 0)
        /\ \A i \in 1 .. z - a + 1 : d[i] = t[a + i - 1]
    BY <2>2, <2>3, SubSeqProperties
  <2> HIDE DEF a, z, d, n
  <2>5. Len(d) = Len(q)
    BY <2>2, <2>4
  <2>6. ASSUME NEW i \in 1 .. Len(q) PROVE d[i] = q[i]
    <3>1. i \in 1 .. z - a + 1 /\ a + i - 1 = n + 3 + i
      BY <2>2
    <3> QED BY <1>4, <2>4, <3>1
  <2> QED BY <2>1, <2>4, <2>5, <2>6, SeqEqual
<1>10. HasBlock(t)
  BY <1>2, <1>6, <1>7 DEF HasBlock
<1>11. n + 2 \in 1 .. Len(t)
  BY <1>2, <1>4
<1> QED BY <1>4, <1>5, <1>8, <1>9, <1>10, <1>11 DEF t, u, b

(* The parts of any file.                                                     *)
LEMMA PartsOfFile ==
  ASSUME NEW s \in Seq(Pieces), HasBlock(s)
  PROVE  Above(s) \in Seq(Pieces) /\ Free(Above(s)) /\ Below(s) \in Seq(Pieces)
<1> DEFINE n == FirstAt(s, BeginMarker)
           m == FirstAt(s, EndMarker)
<1>1. /\ Len(s) \in Nat /\ n \in 1 .. Len(s) /\ m \in 1 .. Len(s) /\ n < m
      /\ \A j \in 1 .. Len(s) : s[j] = BeginMarker => n <= j
      /\ \A j \in 1 .. Len(s) : s[j] = EndMarker => m <= j
  <2>1. Len(s) \in Nat
    BY LenProperties
  <2> QED BY <2>1, FirstAtIs DEF HasBlock
<1>2. Above(s) = SubSeq(s, 1, n - 1) /\ Below(s) = SubSeq(s, m + 1, Len(s))
  BY DEF Above, Below
<1> HIDE DEF n, m
<1>3. \A i \in 1 .. Len(s) : s[i] \in Pieces
  BY ElementOfSeq
<1>4. /\ SubSeq(s, 1, n - 1) \in Seq(Pieces)
      /\ Len(SubSeq(s, 1, n - 1)) = n - 1
      /\ \A i \in 1 .. n - 1 : SubSeq(s, 1, n - 1)[i] = s[i]
  <2> DEFINE k == n - 1
  <2>1. k \in Int /\ \A i \in 1 .. k : s[i] \in Pieces
    BY <1>1, <1>3
  <2>2. /\ SubSeq(s, 1, k) \in Seq(Pieces)
        /\ Len(SubSeq(s, 1, k)) = IF 1 <= k THEN k - 1 + 1 ELSE 0
        /\ \A i \in 1 .. k - 1 + 1 : SubSeq(s, 1, k)[i] = s[1 + i - 1]
    BY <2>1, SubSeqProperties
  <2>3. k - 1 + 1 = k /\ (~(1 <= k) => k = 0) /\ \A i \in 1 .. k : 1 + i - 1 = i
    BY <1>1
  <2>4. k = n - 1
    OBVIOUS
  <2> HIDE DEF k
  <2> QED BY <2>2, <2>3, <2>4
<1>5. SubSeq(s, m + 1, Len(s)) \in Seq(Pieces)
  <2>1. \A i \in m + 1 .. Len(s) : s[i] \in Pieces
    BY <1>1, <1>3
  <2> QED BY <1>1, <2>1, SubSeqProperties
<1>6. Free(SubSeq(s, 1, n - 1))
  <2>1. \A i \in 1 .. n - 1 : i \in 1 .. Len(s) /\ ~(n <= i) /\ ~(m <= i)
    BY <1>1
  <2>2. \A i \in 1 .. n - 1 : s[i] # BeginMarker /\ s[i] # EndMarker
    BY <1>1, <2>1
  <2> QED BY <1>4, <2>2 DEF Free
<1> QED BY <1>2, <1>4, <1>5, <1>6

(* A merge leaves the user's pieces as they are, around the block.              *)
LEMMA MergeFrames ==
  ASSUME NEW s \in Seq(Pieces), NEW r \in Nat
  PROVE  /\ MergeBlock(s, r) \in Seq(Pieces) /\ Framed(MergeBlock(s, r), r)
         /\ Outside(MergeBlock(s, r)) = Outside(s)
<1>1. PICK p \in Seq(Pieces), q \in Seq(Pieces) :
        Free(p) /\ Outside(s) = p \o q /\ MergeBlock(s, r) = p \o Block(r) \o q
  <2>1. CASE HasBlock(s)
    BY <2>1, PartsOfFile DEF Outside, MergeBlock
  <2>2. CASE ~HasBlock(s)
    <3>1. << >> \in Seq(Pieces) /\ Free(<< >>)
      BY EmptySeq DEF Free
    <3>2. << >> \o s = s /\ << >> \o Block(r) = Block(r)
      BY BlockIsThree, ConcatEmptySeq
    <3> QED BY <2>2, <3>1, <3>2 DEF Outside, MergeBlock
  <2> QED BY <2>1, <2>2
<1> DEFINE t == p \o Block(r) \o q
<1>2. t \in Seq(Pieces) /\ HasBlock(t) /\ Above(t) = p /\ Below(t) = q
  BY <1>1, FramedShows
<1>3. Outside(t) = p \o q
  BY <1>2 DEF Outside
<1>4. Framed(t, r)
  BY <1>1 DEF Framed
<1> HIDE DEF t
<1>5. MergeBlock(s, r) = t
  BY <1>1 DEF t
<1> QED BY <1>1, <1>2, <1>3, <1>4, <1>5

LEMMA OutsideType ==
  ASSUME NEW s \in Seq(Pieces)
  PROVE  Outside(s) \in Seq(Pieces)
<1>1. CASE HasBlock(s)
  BY <1>1, PartsOfFile, ConcatProperties DEF Outside
<1>2. CASE ~HasBlock(s)
  BY <1>2 DEF Outside
<1> QED BY <1>1, <1>2

(* A merge into a file that already shows the block changes nothing.            *)
LEMMA FramedStays ==
  ASSUME NEW r \in Nat, NEW d, Framed(d, r)
  PROVE  MergeBlock(d, r) = d /\ Contains(d, <<"block", r>>)
<1>1. PICK p \in Seq(Pieces), q \in Seq(Pieces) : Free(p) /\ d = p \o Block(r) \o q
  BY DEF Framed
<1>2. HasBlock(d) /\ Above(d) = p /\ Below(d) = q
      /\ \E i \in 1 .. Len(d) : d[i] = <<"block", r>>
  BY <1>1, FramedShows
<1> QED BY <1>1, <1>2 DEF MergeBlock, Contains

(* What the user makes of a file.                                             *)
LEMMA EditsType ==
  ASSUME NEW s \in Seq(Pieces)
  PROVE  EditsOf(s) \subseteq Seq(Pieces)
<1>1. Len(s) \in Nat /\ DOMAIN s = 1 .. Len(s) /\ \A i \in 1 .. Len(s) : s[i] \in Pieces
  BY LenProperties, ElementOfSeq
<1>2. \A a \in Nat, b \in Int : a >= 1 /\ b <= Len(s) => SubSeq(s, a, b) \in Seq(Pieces)
  <2> SUFFICES ASSUME NEW a \in Nat, NEW b \in Int, a >= 1, b <= Len(s)
               PROVE  SubSeq(s, a, b) \in Seq(Pieces)
    OBVIOUS
  <2>1. \A i \in a .. b : s[i] \in Pieces
    BY <1>1
  <2> QED BY <2>1, SubSeqProperties
<1>3. ASSUME NEW i \in DOMAIN s PROVE RemoveAt(s, i) \in Seq(Pieces)
  <2>1. SubSeq(s, 1, i - 1) \in Seq(Pieces) /\ SubSeq(s, i + 1, Len(s)) \in Seq(Pieces)
    BY <1>1, <1>2
  <2> QED BY <2>1, ConcatProperties DEF RemoveAt
<1>4. ASSUME NEW i \in 1 .. Len(s) + 1, NEW x \in Pieces PROVE InsertAt(s, i, x) \in Seq(Pieces)
  <2>1. SubSeq(s, 1, i - 1) \in Seq(Pieces) /\ SubSeq(s, i, Len(s)) \in Seq(Pieces)
    BY <1>1, <1>2
  <2>2. <<x>> \in Seq(Pieces)
    OBVIOUS
  <2>3. SubSeq(s, 1, i - 1) \o <<x>> \in Seq(Pieces)
    BY <2>1, <2>2, ConcatProperties
  <2> QED BY <2>1, <2>3, ConcatProperties DEF InsertAt
<1>5. UserPieces \cup {BeginMarker, EndMarker} \subseteq Pieces
  BY DEF Pieces
<1> QED BY <1>3, <1>4, <1>5 DEF EditsOf

(* The size of the block.                                                     *)
LEMMA BytesType ==
  ASSUME NEW s \in Seq(Nat), NEW k \in 0 .. Len(s)
  PROVE  BytesOf(s, k) \in Nat
<1>1. k # 0 => k \in 1 .. Len(s)
  BY LenProperties
<1> QED BY <1>1, ElementOfSeq DEF BytesOf

LEMMA LinesType ==
  ASSUME NEW s \in Seq(Nat), NEW n \in Nat
  PROVE  AddLine(s, n) \in Seq(Nat)
<1>1. Len(s) \in 0 .. Len(s)
  BY LenProperties
<1>2. BytesOf(s, Len(s)) + n + 1 \in Nat
  BY <1>1, BytesType
<1> QED BY <1>2, AppendProperties DEF AddLine

LEMMA FittedFits ==
  ASSUME open \in Seq(Nat)
  PROVE  Fitted \in 0 .. Len(open) /\ (Fitted # 0 => LinesFit(Fitted))
<1>1. Len(open) \in Nat
  BY LenProperties
<1> DEFINE S == {k \in 1 .. Len(open) : LinesFit(k)}
<1>2. CASE open # << >> /\ LinesFit(1)
  <2>1. S \in SUBSET Nat /\ IsFiniteSet(S)
    <3>1. IsFiniteSet(1 .. Len(open)) /\ S \subseteq 1 .. Len(open)
      BY <1>1, FS_Interval
    <3>2. IsFiniteSet(S)
      BY <3>1, FS_Subset
    <3> QED BY <1>1, <3>1, <3>2
  <2>2. 1 \in S
    BY <1>1, <1>2, EmptySeq
  <2>3. Max(S) \in S
    BY <2>1, <2>2, MaxOfFinite
  <2>4. Fitted = Max(S)
    BY <1>2 DEF Fitted
  <2> QED BY <1>1, <2>3, <2>4
<1>3. CASE ~(open # << >> /\ LinesFit(1))
  <2>1. Fitted = 0
    BY <1>3 DEF Fitted
  <2> QED BY <1>1, <2>1
<1> QED BY <1>2, <1>3

LEMMA CapHolds ==
  ASSUME locked \in Seq(Nat), open \in Seq(Nat)
  PROVE  CapIsHard
<1> SUFFICES ASSUME Base + Margin <= Cap
             PROVE  BlockBytes <= Cap
  BY DEF CapIsHard
<1>1. Cap \in Nat /\ Margin \in Nat /\ FixedBytes \in Nat /\ Margin >= 93
  BY AgentsMdAssumption DEF TitleBytes, DroppedBytes
<1>2. Base \in Nat
  <2>1. Len(locked) \in 0 .. Len(locked)
    BY LenProperties
  <2>2. BytesOf(locked, Len(locked)) \in Nat
    BY <2>1, BytesType
  <2> QED BY <1>1, <2>2 DEF Base
<1>3. CASE open = << >>
  <2>1. BlockBytes = Base + 24 + 13
    BY <1>3 DEF BlockBytes, TitleBytes, NoneBytes
  <2> QED BY <1>1, <1>2, <2>1
<1>4. CASE open # << >>
  <2>1. Fitted \in 0 .. Len(open) /\ (Fitted # 0 => LinesFit(Fitted)) /\ Len(open) \in Nat
    BY FittedFits, LenProperties
  <2>2. PICK n : n = BytesOf(open, Fitted)
    OBVIOUS
  <2>3. n \in Nat /\ (Fitted = 0 => n = 0)
    BY <2>1, <2>2, BytesType DEF BytesOf
  <2>4. Fitted # 0 => 24 + 1 + n <= Cap - Base - Margin
    BY <2>1, <2>2 DEF LinesFit, TitleBytes, Remaining
  <2>5. BlockBytes = Base + 24 + n + (IF Fitted > 0 THEN 1 ELSE 0)
                     + (IF Fitted < Len(open) THEN 69 ELSE 0)
    BY <1>4, <2>2 DEF BlockBytes, TitleBytes, DroppedBytes
  <2>6. CASE Fitted = 0
    BY <1>1, <1>2, <2>1, <2>3, <2>5, <2>6
  <2>7. CASE Fitted # 0
    BY <1>1, <1>2, <2>1, <2>3, <2>4, <2>5, <2>7
  <2> QED BY <2>6, <2>7
<1> QED BY <1>3, <1>4

LEMMA AgentsBegin == AInit => AgentsInv
<1> SUFFICES ASSUME AInit PROVE AgentsInv
  OBVIOUS
<1>1. doc \in [ManagedFiles -> Seq(Pieces)]
  <2> DEFINE P == UserPieces \cup {BeginMarker, EndMarker}
  <2>1. P \subseteq Pieces
    BY DEF Pieces
  <2>2. doc \in [ManagedFiles -> SeqOf(P, MaxPieces)]
    BY DEF AInit
  <2> HIDE DEF P
  <2>3. ASSUME NEW f \in ManagedFiles PROVE doc[f] \in Seq(Pieces)
    <3>1. PICK n \in 0 .. MaxPieces : doc[f] \in [1 .. n -> P]
      BY <2>2 DEF SeqOf
    <3>2. n \in Nat /\ doc[f] \in [1 .. n -> Pieces]
      BY <2>1, <3>1
    <3> QED BY <3>2, SeqDef
  <2> QED BY <2>2, <2>3
<1>2. own = [f \in Shared |-> Outside(doc[f])] /\ Shared \subseteq ManagedFiles
  BY DEF AInit, ManagedFiles
<1>3. own \in [Shared -> Seq(Pieces)] /\ UserTextKept
  BY <1>1, <1>2, OutsideType DEF UserTextKept
<1> QED BY <1>1, <1>3, EmptySeq DEF AInit, AgentsInv

LEMMA WriteKeeps == ASSUME AgentsInv, Write PROVE AgentsInv'
<1>1. PICK n \in LineSizes :
        \/ locked' = AddLine(locked, n) /\ UNCHANGED open
        \/ open' = AddLine(open, n) /\ UNCHANGED locked
  BY DEF Write
<1>2. n \in Nat
  BY AgentsMdAssumption
<1>3. locked' \in Seq(Nat) /\ open' \in Seq(Nat)
  BY <1>1, <1>2, LinesType DEF AgentsInv
<1>4. rev' \in Nat /\ stale' = ManagedFiles /\ todo' = ManagedFiles /\ UNCHANGED <<doc, own>>
  BY DEF Write, AgentsInv
<1>5. UserTextKept'
  BY <1>4 DEF UserTextKept, AgentsInv
<1> QED BY <1>3, <1>4, <1>5 DEF AgentsInv

LEMMA RegenerateKeeps ==
  ASSUME AgentsInv, NEW f \in ManagedFiles, Regenerate(f)
  PROVE  AgentsInv'
<1> USE DEF AgentsInv
<1>1. PICK new : new = IF f \in Shared THEN MergeBlock(doc[f], rev) ELSE Block(rev)
  OBVIOUS
<1>2. doc' = [doc EXCEPT ![f] = new]
  BY <1>1 DEF Regenerate
<1>3. UNCHANGED <<rev, locked, open, own>> /\ todo' \subseteq ManagedFiles /\ stale' = stale \ {f}
  BY DEF Regenerate
<1>4. new \in Seq(Pieces)
  BY <1>1, MergeFrames, BlockIsThree
<1>5. f \in Shared => Outside(new) = own[f] /\ Framed(new, rev)
  BY <1>1, MergeFrames DEF UserTextKept
<1>6. doc' \in [ManagedFiles -> Seq(Pieces)]
  BY <1>2, <1>4
<1>7. doc'[f] = new /\ \A g \in ManagedFiles \ {f} : doc'[g] = doc[g]
  BY <1>2
<1>8. UserTextKept'
  BY <1>3, <1>5, <1>7 DEF UserTextKept, ManagedFiles
<1>9. ASSUME NEW g \in ManagedFiles \ stale'
      PROVE  IF g \in Shared THEN Framed(doc'[g], rev) ELSE doc'[g] = Block(rev)
  <2>1. CASE g = f
    BY <1>1, <1>5, <1>7, <2>1
  <2>2. CASE g # f
    BY <1>3, <1>7, <1>9, <2>2
  <2> QED BY <2>1, <2>2
<1> QED BY <1>3, <1>6, <1>8, <1>9

LEMMA UserEditsKeeps ==
  ASSUME AgentsInv, NEW f \in ManagedFiles, UserEdits(f)
  PROVE  AgentsInv'
<1> USE DEF AgentsInv
<1>1. PICK s \in EditsOf(doc[f]) : /\ doc' = [doc EXCEPT ![f] = s]
                                   /\ own' = [own EXCEPT ![f] = Outside(s)]
                                   /\ stale' = stale \cup {f}
  BY DEF UserEdits
<1>2. UNCHANGED <<rev, locked, open, todo>> /\ f \in Shared
  BY DEF UserEdits
<1>3. s \in Seq(Pieces)
  BY <1>1, EditsType
<1>4. Outside(s) \in Seq(Pieces)
  BY <1>3, OutsideType
<1>5. doc' \in [ManagedFiles -> Seq(Pieces)] /\ own' \in [Shared -> Seq(Pieces)]
      /\ stale' \subseteq ManagedFiles
  BY <1>1, <1>3, <1>4
<1>6. doc'[f] = s /\ own'[f] = Outside(s)
      /\ (\A g \in ManagedFiles \ {f} : doc'[g] = doc[g]) /\ \A g \in Shared \ {f} : own'[g] = own[g]
  BY <1>1, <1>2
<1>7. UserTextKept'
  BY <1>6 DEF UserTextKept, ManagedFiles
<1>8. \A g \in ManagedFiles \ stale' : g # f /\ g \in ManagedFiles \ stale
  BY <1>1
<1> QED BY <1>2, <1>5, <1>6, <1>7, <1>8

(* agents_md_generator: for any user's text, any number of managed files,      *)
(* decisions and writes, and any cap, a managed file keeps what its user      *)
(* wrote around it; once regenerated it shows one block, of the last revision; *)
(* and the block stays within the cap.                                        *)
THEOREM OneBlockStays == ASpec => []OneBlockAmongTheirs
<1>1. AInit => AgentsInv
  BY AgentsBegin
<1>2. AgentsInv /\ [ANext]_avars => AgentsInv'
  <2> SUFFICES ASSUME AgentsInv, [ANext]_avars PROVE AgentsInv'
    OBVIOUS
  <2>1. CASE Write
    BY <2>1, WriteKeeps
  <2>2. ASSUME NEW f \in ManagedFiles, Regenerate(f) PROVE AgentsInv'
    BY <2>2, RegenerateKeeps
  <2>3. ASSUME NEW f \in ManagedFiles, RegenerateFails(f) PROVE AgentsInv'
    <3>1. UNCHANGED <<rev, locked, open, doc, own, stale>> /\ todo' \subseteq todo
      BY <2>3 DEF RegenerateFails
    <3> QED BY <3>1 DEF AgentsInv, UserTextKept
  <2>4. ASSUME NEW f \in ManagedFiles, UserEdits(f) PROVE AgentsInv'
    BY <2>4, UserEditsKeeps
  <2>5. CASE UNCHANGED avars
    BY <2>5 DEF AgentsInv, UserTextKept, avars
  <2> QED BY <2>1, <2>2, <2>3, <2>4, <2>5 DEF ANext
<1>3. AgentsInv => OneBlockAmongTheirs
  <2> SUFFICES ASSUME AgentsInv PROVE OneBlockAmongTheirs
    OBVIOUS
  <2>1. UserTextKept /\ CapIsHard
    BY CapHolds DEF AgentsInv
  <2>2. ASSUME NEW f \in ManagedFiles \ stale
        PROVE  Contains(doc[f], <<"block", rev>>) /\ (f \in Shared => MergeBlock(doc[f], rev) = doc[f])
    <3>1. CASE f \in Shared
      BY <2>2, <3>1, FramedStays DEF AgentsInv
    <3>2. CASE f \notin Shared
      <4>1. doc[f] = Block(rev) /\ rev \in Nat
        BY <2>2, <3>2 DEF AgentsInv
      <4>2. Contains(Block(rev), <<"block", rev>>)
        BY <4>1, BlockIsThree DEF Contains
      <4> QED BY <3>2, <4>1, <4>2
    <3> QED BY <3>1, <3>2
  <2> QED BY <2>1, <2>2 DEF OneBlockAmongTheirs, OneFreshBlock
<1> QED BY <1>1, <1>2, <1>3, PTL DEF ASpec
=============================================================================

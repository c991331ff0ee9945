------------------------ MODULE DecisionStoreProofs ------------------------
(***************************************************************************)
(* What holds of DecisionStore for any number of clients, processes, calls *)
(* and crashes, by one induction over what its log says of itself and what *)
(* a call in progress knows of the log.                                    *)
(***************************************************************************)
EXTENDS DecisionStore, SequenceTheorems, SetLemmas

-----------------------------------------------------------------------------
(* Logs and their prefixes.                                                  *)

LEMMA AppendedRows ==
  ASSUME NEW l \in Seq(Row), NEW r \in Row
  PROVE  /\ Append(l, r) \in Seq(Row)
         /\ Len(Append(l, r)) = Len(l) + 1
         /\ DOMAIN Append(l, r) = 1 .. Len(l) + 1
         /\ \A i \in 1 .. Len(l) : Append(l, r)[i] = l[i]
         /\ Append(l, r)[Len(l) + 1] = r
OBVIOUS

LEMMA PrefixType ==
  ASSUME NEW l \in Seq(Row), NEW k \in 0 .. Len(l)
  PROVE  /\ SubSeq(l, 1, k) \in Seq(Row)
         /\ Len(SubSeq(l, 1, k)) = k
         /\ DOMAIN SubSeq(l, 1, k) = 1 .. k
         /\ \A i \in 1 .. k : SubSeq(l, 1, k)[i] = l[i]
<1>1. \A i \in 1 .. k : l[i] \in Row
  OBVIOUS
<1>2. /\ SubSeq(l, 1, k) \in Seq(Row)
      /\ Len(SubSeq(l, 1, k)) = IF 1 <= k THEN k - 1 + 1 ELSE 0
      /\ \A i \in 1 .. k - 1 + 1 : SubSeq(l, 1, k)[i] = l[1 + i - 1]
  BY <1>1, SubSeqProperties
<1> QED BY <1>2

LEMMA PrefixOfAppended ==
  ASSUME NEW l \in Seq(Row), NEW r \in Row, NEW k \in 0 .. Len(l)
  PROVE  SubSeq(Append(l, r), 1, k) = SubSeq(l, 1, k)
<1>1. Append(l, r) \in Seq(Row) /\ k \in 0 .. Len(Append(l, r))
  BY AppendedRows
<1>2. \A i \in 1 .. k : SubSeq(Append(l, r), 1, k)[i] = SubSeq(l, 1, k)[i]
  BY <1>1, PrefixType, AppendedRows
<1> QED BY <1>1, <1>2, PrefixType, SeqEqual

LEMMA IdsOfAppended ==
  ASSUME NEW l \in Seq(Row), NEW r \in Row
  PROVE  Ids(Append(l, r)) = IF r.base THEN Ids(l) \cup {r.id} ELSE Ids(l)
<1> DEFINE m == Append(l, r)
<1>1. /\ DOMAIN m = 1 .. Len(l) + 1 /\ DOMAIN l = 1 .. Len(l)
      /\ \A i \in 1 .. Len(l) : m[i] = l[i]
      /\ m[Len(l) + 1] = r
      /\ Len(l) \in Nat
  BY AppendedRows
<1> HIDE DEF m
<1>2. {j \in DOMAIN m : m[j].base} =
        {j \in DOMAIN l : l[j].base} \cup (IF r.base THEN {Len(l) + 1} ELSE {})
  BY <1>1
<1>3. Ids(m) = {m[i].id : i \in {j \in DOMAIN m : m[j].base}}
  BY DEF Ids
<1>4. \A i \in {j \in DOMAIN l : l[j].base} : m[i].id = l[i].id
  BY <1>1
<1> QED BY <1>1, <1>2, <1>3, <1>4 DEF Ids, m

(* A longer prefix knows more decisions and more supersessions.              *)
LEMMA PrefixGrows ==
  ASSUME NEW l \in Seq(Row), NEW a \in 0 .. Len(l), NEW b \in a .. Len(l)
  PROVE  /\ Ids(SubSeq(l, 1, a)) \subseteq Ids(SubSeq(l, 1, b))
         /\ Superseded(SubSeq(l, 1, a)) \subseteq Superseded(SubSeq(l, 1, b))
<1> DEFINE s == SubSeq(l, 1, a)
           t == SubSeq(l, 1, b)
<1>1. b \in 0 .. Len(l)
  OBVIOUS
<1>2. /\ DOMAIN s = 1 .. a /\ DOMAIN t = 1 .. b
      /\ \A i \in 1 .. a : i \in 1 .. b /\ s[i] = t[i]
  BY <1>1, PrefixType
<1> HIDE DEF s, t
<1>3. Ids(s) \subseteq Ids(t)
  BY <1>2 DEF Ids
<1>4. \A id : Links(s, id) \subseteq Links(t, id)
  BY <1>2 DEF Links
<1> QED BY <1>3, <1>4 DEF Superseded, s, t

(* record() mints above every id of the log.                                 *)
LEMMA NextIdFresh ==
  ASSUME NEW l \in Seq(Row)
  PROVE  /\ Ids(l) \subseteq Nat
         /\ NextId(l) \in Nat \ {0}
         /\ \A id \in Ids(l) : id < NextId(l)
<1> DEFINE B == {j \in DOMAIN l : l[j].base}
           S == Ids(l) \cup {0}
<1>1. Ids(l) \subseteq Nat
  <2>1. \A i \in DOMAIN l : l[i] \in Row
    OBVIOUS
  <2>2. \A i \in DOMAIN l : l[i].id \in Nat
    BY <2>1 DEF Row
  <2> QED BY <2>2 DEF Ids
<1>2. IsFiniteSet(Ids(l))
  <2>1. IsFiniteSet(DOMAIN l)
    BY FS_Interval, LenProperties
  <2>2. IsFiniteSet(B)
    BY <2>1, FS_Subset
  <2> DEFINE g == [i \in B |-> l[i].id]
  <2>3. g \in Surjection(B, Ids(l))
    BY DEF Surjection, Ids
  <2> HIDE DEF g, B
  <2> QED BY <2>2, <2>3, FS_Surjection
<1>3. S \in SUBSET Nat /\ S # {} /\ IsFiniteSet(S)
  BY <1>1, <1>2, FS_AddElement
<1>4. Max(S) \in S /\ \A x \in S : x <= Max(S)
  BY <1>3, MaxOfFinite
<1>5. NextId(l) = 1 + Max(S)
  BY DEF NextId
<1>6. Ids(l) \subseteq S
  OBVIOUS
<1>7. S \subseteq Nat /\ Max(S) \in Nat
  BY <1>3, <1>4
<1> HIDE DEF S
<1>8. \A id \in Ids(l) : id \in Nat /\ id <= Max(S)
  BY <1>1, <1>4, <1>6
<1> QED BY <1>1, <1>5, <1>7, <1>8
-----------------------------------------------------------------------------
(* What a log says of its row i: the row has a base record, written no later; *)
(* a supersession leads on, and was not known when its call began; whoever    *)
(* retired without force had met the decision unprotected.                    *)
Met(l, id, from, to) == \E k \in from .. to : id \notin Protected(SubSeq(l, 1, k))

RowInv(l, i) ==
  /\ \E j \in 1 .. i : l[j].base /\ l[j].id = l[i].id
  /\ l[i].begin \in 0 .. i - 1
  /\ l[i].next # 0 => /\ l[i].next \in Ids(l) /\ l[i].next > l[i].id
                      /\ l[i].id \notin Superseded(SubSeq(l, 1, l[i].begin))
  /\ Retires(l[i]) /\ ~l[i].forced => Met(l, l[i].id, l[i].begin, i - 1)

UniqueBases(l) ==
  \A i, j \in DOMAIN l : l[i].base /\ l[j].base /\ l[i].id = l[j].id => i = j

SoundLog(l) ==
  /\ l \in Seq(Row)
  /\ \A i \in DOMAIN l : RowInv(l, i)
  /\ UniqueBases(l)

(* What a client at a label with locals r knows of the log.                  *)
CallInv(l, at, r) ==
  /\ at \in Labels /\ r \in Call
  /\ {r.begin, r.stamp, r.seen} \subseteq 0 .. Len(l)
  /\ at \in {"stat", "read", "fill", "amend"} => r.op \in {"supersede", "flag"}
  /\ at = "record" => r.op \in {"record", "supersede"}
  /\ at # "idle" /\ r.op # "flag" => r.set \in [{"dnr"} -> BOOLEAN]
  /\ at # "idle" /\ r.op # "record" => r.id \in Ids(l)
  /\ at \in {"read", "fill"} => r.begin <= r.stamp
  /\ at = "fill" => r.stamp <= r.seen
  /\ at \in {"record", "amend"} /\ r.op = "supersede"
       => r.id \notin Superseded(SubSeq(l, 1, r.begin))
  /\ at = "amend" /\ r.op = "supersede" => r.new \in Ids(l) /\ r.new > r.id
  /\ at = "amend" /\ r.op = "flag" /\ Retiring(r.set) /\ ~r.force
       => Met(l, r.id, r.begin, Len(l))

ViewInv(l, v) ==
  /\ v \in [stamp : 0 .. Len(l), rows : 0 .. Len(l)]
  /\ v.rows >= v.stamp

IInv ==
  /\ SoundLog(log)
  /\ pc \in [Clients -> Labels] /\ call \in [Clients -> Call]
  /\ \A c \in Clients : CallInv(log, pc[c], call[c])
  /\ cache \in [Procs -> [stamp : Nat, rows : Nat]]
  /\ \A p \in Procs : ViewInv(log, cache[p])
  /\ calls \in 0 .. MaxCalls /\ crashes \in 0 .. MaxCrashes

LEMMA UpdateTypes ==
  /\ Nothing \in Updates
  /\ \A f \in [{"dnr"} -> BOOLEAN] : f \in Updates
  /\ \A f \in [Flags -> BOOLEAN] : f \in Updates
  /\ ~Retiring(Nothing)
<1>1. Nothing \in [{} -> BOOLEAN]
  BY DEF Nothing
<1>2. {} \in SUBSET Flags /\ {"dnr"} \in SUBSET Flags /\ Flags \in SUBSET Flags
  BY DEF Flags
<1>3. ~Retiring(Nothing)
  BY DEF Retiring, Nothing
<1> QED BY <1>1, <1>2, <1>3 DEF Updates

LEMMA NoCallSound ==
  ASSUME NEW l \in Seq(Row)
  PROVE  NoCall \in Call /\ CallInv(l, "idle", NoCall)
<1>1. NoCall \in Call
  BY UpdateTypes DEF NoCall, Request, Call
<1> QED BY <1>1 DEF CallInv, NoCall, Request, Labels

(* What was met, or known, stays so in a longer log.                         *)
LEMMA MetStays ==
  ASSUME NEW l \in Seq(Row), NEW r \in Row, NEW id,
         NEW from \in Nat, NEW to \in 0 .. Len(l), Met(l, id, from, to)
  PROVE  Met(Append(l, r), id, from, to)
<1>1. PICK k \in from .. to : id \notin Protected(SubSeq(l, 1, k))
  BY DEF Met
<1>2. k \in 0 .. Len(l)
  OBVIOUS
<1>3. SubSeq(Append(l, r), 1, k) = SubSeq(l, 1, k)
  BY <1>2, PrefixOfAppended
<1> QED BY <1>1, <1>3 DEF Met

LEMMA MetLonger ==
  ASSUME NEW l, NEW id, NEW from \in Nat, NEW to \in Nat, NEW later \in Nat,
         to <= later, Met(l, id, from, to)
  PROVE  Met(l, id, from, later)
BY DEF Met

LEMMA CallStays ==
  ASSUME NEW l \in Seq(Row), NEW r \in Row, NEW at, NEW q, CallInv(l, at, q)
  PROVE  CallInv(Append(l, r), at, q)
<1> DEFINE m == Append(l, r)
<1>1. Len(m) = Len(l) + 1 /\ Len(l) \in Nat
  BY AppendedRows
<1>2. Ids(l) \subseteq Ids(m)
  BY IdsOfAppended
<1>3. q.begin \in 0 .. Len(l)
  BY DEF CallInv
<1>4. SubSeq(m, 1, q.begin) = SubSeq(l, 1, q.begin)
  BY <1>3, PrefixOfAppended
<1>5. Met(l, q.id, q.begin, Len(l)) => Met(m, q.id, q.begin, Len(m))
  <2>1. Met(l, q.id, q.begin, Len(l)) => Met(m, q.id, q.begin, Len(l))
    BY <1>1, <1>3, MetStays
  <2> QED BY <1>1, <1>3, <2>1, MetLonger
<1> HIDE DEF m
<1>6. {q.begin, q.stamp, q.seen} \subseteq 0 .. Len(m)
  BY <1>1 DEF CallInv
<1> QED BY <1>2, <1>4, <1>5, <1>6 DEF CallInv, m

LEMMA ViewStays ==
  ASSUME NEW l \in Seq(Row), NEW r \in Row, NEW v, ViewInv(l, v)
  PROVE  ViewInv(Append(l, r), v)
BY AppendedRows DEF ViewInv

(* A log stays sound when a sound row is appended, and a base record under a  *)
(* new id.                                                                    *)
LEMMA Grown ==
  ASSUME NEW l, SoundLog(l), NEW r \in Row, RowInv(Append(l, r), Len(l) + 1),
         r.base => r.id \notin Ids(l)
  PROVE  SoundLog(Append(l, r))
<1> DEFINE m == Append(l, r)
<1>1. /\ m \in Seq(Row) /\ l \in Seq(Row) /\ Len(l) \in Nat
      /\ DOMAIN m = 1 .. Len(l) + 1 /\ DOMAIN l = 1 .. Len(l)
      /\ \A i \in 1 .. Len(l) : m[i] = l[i]
      /\ m[Len(l) + 1] = r
  BY AppendedRows DEF SoundLog
<1>2. Ids(l) \subseteq Ids(m)
  BY <1>1, IdsOfAppended
<1>3. ASSUME NEW i \in 1 .. Len(l) PROVE RowInv(m, i)
  <2>1. RowInv(l, i) /\ m[i] = l[i] /\ l[i] \in Row
    BY <1>1 DEF SoundLog
  <2>2. \E j \in 1 .. i : m[j].base /\ m[j].id = m[i].id
    BY <1>1, <2>1 DEF RowInv
  <2>3. l[i].begin \in 0 .. Len(l) /\ i - 1 \in 0 .. Len(l)
    BY <1>1, <2>1 DEF RowInv
  <2>4. SubSeq(m, 1, l[i].begin) = SubSeq(l, 1, l[i].begin)
    BY <1>1, <2>3, PrefixOfAppended
  <2>5. Met(l, l[i].id, l[i].begin, i - 1) => Met(m, l[i].id, l[i].begin, i - 1)
    BY <1>1, <2>3, MetStays
  <2> HIDE DEF m
  <2> QED BY <1>2, <2>1, <2>2, <2>4, <2>5 DEF RowInv
<1>4. \A i \in DOMAIN m : RowInv(m, i)
  BY <1>1, <1>3
<1>5. UniqueBases(m)
  <2>1. \A i \in 1 .. Len(l) : l[i].base => l[i].id \in Ids(l)
    BY <1>1 DEF Ids
  <2>2. UniqueBases(l)
    BY DEF SoundLog
  <2> HIDE DEF m
  <2>3. ASSUME NEW i \in DOMAIN m, NEW j \in DOMAIN m, m[i].base, m[j].base, m[i].id = m[j].id
        PROVE  i = j
    <3>1. CASE i \in 1 .. Len(l) /\ j \in 1 .. Len(l)
      BY <1>1, <2>2, <2>3, <3>1 DEF UniqueBases
    <3>2. CASE i \in 1 .. Len(l) /\ j = Len(l) + 1
      BY <1>1, <2>1, <2>3, <3>2
    <3>3. CASE i = Len(l) + 1 /\ j \in 1 .. Len(l)
      BY <1>1, <2>1, <2>3, <3>3
    <3>4. CASE i = Len(l) + 1 /\ j = Len(l) + 1
      BY <3>4
    <3> QED BY <1>1, <3>1, <3>2, <3>3, <3>4
  <2> QED BY <2>3 DEF UniqueBases
<1> QED BY <1>1, <1>4, <1>5 DEF SoundLog
-----------------------------------------------------------------------------
(* A step of client c that appends at most one row, and changes at most the   *)
(* view of c's process, has only c's own state to answer for.                *)
LEMMA OneClient ==
  ASSUME IInv, NEW c \in Clients, NEW at, NEW q,
         pc' = [pc EXCEPT ![c] = at],
         call' = [call EXCEPT ![c] = q],
         log' = log \/ \E r \in Row : log' = Append(log, r),
         SoundLog(log'),
         CallInv(log', at, q),
         \/ cache' = cache
         \/ \E v : cache' = [cache EXCEPT ![ProcOf[c]] = v] /\ ViewInv(log', v),
         calls' \in 0 .. MaxCalls, crashes' \in 0 .. MaxCrashes
  PROVE  IInv'
<1>1. log \in Seq(Row) /\ log' \in Seq(Row)
  BY DEF IInv, SoundLog
<1>2. ASSUME NEW d \in Clients PROVE CallInv(log', pc[d], call[d])
  <2>1. CallInv(log, pc[d], call[d])
    BY DEF IInv
  <2>2. CASE log' = log
    BY <2>1, <2>2
  <2>3. CASE \E r \in Row : log' = Append(log, r)
    BY <1>1, <2>1, <2>3, CallStays
  <2> QED BY <2>2, <2>3
<1>3. ASSUME NEW p \in Procs PROVE ViewInv(log', cache[p])
  <2>1. ViewInv(log, cache[p])
    BY DEF IInv
  <2>2. log' = log \/ \E r \in Row : log' = Append(log, r)
    OBVIOUS
  <2>3. CASE log' = log
    BY <2>1, <2>3
  <2>4. CASE \E r \in Row : log' = Append(log, r)
    BY <1>1, <2>1, <2>4, ViewStays
  <2> QED BY <2>2, <2>3, <2>4
<1>4. at \in Labels /\ q \in Call
  BY DEF CallInv
<1>5. /\ pc' \in [Clients -> Labels] /\ call' \in [Clients -> Call]
      /\ \A d \in Clients : CallInv(log', pc'[d], call'[d])
  <2>1. pc \in [Clients -> Labels] /\ call \in [Clients -> Call]
    BY DEF IInv
  <2> QED BY <1>2, <1>4, <2>1
<1>6. /\ cache' \in [Procs -> [stamp : Nat, rows : Nat]]
      /\ \A p \in Procs : ViewInv(log', cache'[p])
  <2>1. cache \in [Procs -> [stamp : Nat, rows : Nat]] /\ Len(log') \in Nat
    BY <1>1 DEF IInv
  <2>2. \A v : ViewInv(log', v) => v \in [stamp : Nat, rows : Nat]
    BY <2>1 DEF ViewInv
  <2> QED BY <1>3, <2>1, <2>2
<1> QED BY <1>5, <1>6 DEF IInv

(* What IInv says of client c.                                               *)
LEMMA Known ==
  ASSUME IInv, NEW c \in Clients
  PROVE  /\ log \in Seq(Row) /\ SoundLog(log) /\ Len(log) \in Nat
         /\ call[c] \in Call /\ CallInv(log, pc[c], call[c])
         /\ ProcOf[c] \in Procs /\ ViewInv(log, cache[ProcOf[c]])
         /\ call \in [Clients -> Call] /\ pc \in [Clients -> Labels]
         /\ calls \in 0 .. MaxCalls /\ crashes \in 0 .. MaxCrashes
BY StoreAssumption DEF IInv, SoundLog

LEMMA UncachedSound == ASSUME NEW l \in Seq(Row) PROVE ViewInv(l, Uncached)
BY DEF ViewInv, Uncached

LEMMA InitInv == Init => IInv
<1> SUFFICES ASSUME Init PROVE IInv
  OBVIOUS
<1>1. PICK n \in 0 .. MaxSeed : \E dnr \in [1 .. n -> BOOLEAN] :
               log = [i \in 1 .. n |-> NewDecision(i, dnr[i], 0)]
  BY DEF Init
<1>2. PICK dnr \in [1 .. n -> BOOLEAN] : log = [i \in 1 .. n |-> NewDecision(i, dnr[i], 0)]
  BY <1>1
<1>3. n \in Nat
  BY StoreAssumption
<1>4. ASSUME NEW i \in 1 .. n
      PROVE  /\ log[i] = NewDecision(i, dnr[i], 0) /\ log[i] \in Row
             /\ log[i].base /\ log[i].id = i /\ log[i].next = 0 /\ log[i].begin = 0
             /\ RowInv(log, i)
  <2>1. log[i] = NewDecision(i, dnr[i], 0) /\ dnr[i] \in BOOLEAN /\ i \in Nat
    BY <1>2, <1>3
  <2>2. [f \in Flags |-> f = "dnr" /\ dnr[i]] \in [Flags -> BOOLEAN]
    BY <2>1
  <2>3. [f \in Flags |-> f = "dnr" /\ dnr[i]] \in Updates
    BY <2>2, UpdateTypes
  <2>4. /\ log[i] \in Row /\ log[i].base /\ log[i].id = i
        /\ log[i].next = 0 /\ log[i].begin = 0
    BY <2>1, <2>3 DEF NewDecision, Row
  <2>5. RowInv(log, i)
    BY <1>3, <2>4 DEF RowInv, Retires
  <2> QED BY <2>1, <2>4, <2>5
<1>5. log \in Seq(Row) /\ DOMAIN log = 1 .. n
  BY <1>2, <1>3, <1>4
<1>6. SoundLog(log)
  BY <1>4, <1>5 DEF SoundLog, UniqueBases
<1>7. NoCall \in Call /\ CallInv(log, "idle", NoCall)
  BY <1>5, NoCallSound
<1>8. ViewInv(log, Uncached)
  BY <1>5, UncachedSound
<1> QED BY <1>6, <1>7, <1>8, StoreAssumption DEF Init, IInv, Labels, Uncached

LEMMA BeginInv == ASSUME IInv, NEW c \in Clients, Begin(c) PROVE IInv'
<1>1. /\ calls' = calls + 1 /\ calls < MaxCalls /\ calls' \in 0 .. MaxCalls
      /\ log' = log /\ cache' = cache /\ crashes' = crashes
  BY Known, StoreAssumption DEF Begin
<1>2. /\ log \in Seq(Row) /\ SoundLog(log) /\ Len(log) \in Nat
      /\ crashes \in 0 .. MaxCrashes
  BY Known
<1>3. CASE \E dnr \in NewFlags : /\ Asked(c, "record", 0, [f \in {"dnr"} |-> dnr], FALSE)
                                 /\ Goto(c, "record")
  <2>1. PICK dnr \in NewFlags : /\ Asked(c, "record", 0, [f \in {"dnr"} |-> dnr], FALSE)
                                /\ Goto(c, "record")
    BY <1>3
  <2> DEFINE set == [f \in {"dnr"} |-> dnr]
             r == Request("record", 0, set, FALSE, Len(log))
  <2>2. set \in [{"dnr"} -> BOOLEAN]
    BY StoreAssumption
  <2>5. Asked(c, "record", 0, set, FALSE)
    BY <2>1
  <2> HIDE DEF set
  <2>3. CallInv(log, "record", r)
    BY <1>2, <2>2, UpdateTypes DEF CallInv, Call, Labels, Request
  <2>4. call' = [call EXCEPT ![c] = r] /\ pc' = [pc EXCEPT ![c] = "record"]
    BY <2>1, <2>5 DEF Asked, Goto
  <2> HIDE DEF r
  <2> QED BY <1>1, <1>2, <2>3, <2>4, OneClient
<1>4. CASE \E id \in Ids(log), dnr \in NewFlags :
             Asked(c, "supersede", id, [f \in {"dnr"} |-> dnr], FALSE) /\ Goto(c, "stat")
  <2>1. PICK id \in Ids(log), dnr \in NewFlags :
               Asked(c, "supersede", id, [f \in {"dnr"} |-> dnr], FALSE) /\ Goto(c, "stat")
    BY <1>4
  <2> DEFINE set == [f \in {"dnr"} |-> dnr]
             r == Request("supersede", id, set, FALSE, Len(log))
  <2>2. set \in [{"dnr"} -> BOOLEAN] /\ id \in Nat
    BY <1>2, NextIdFresh, StoreAssumption
  <2>5. Asked(c, "supersede", id, set, FALSE)
    BY <2>1
  <2> HIDE DEF set
  <2>3. CallInv(log, "stat", r)
    BY <1>2, <2>2, UpdateTypes DEF CallInv, Call, Labels, Request
  <2>4. call' = [call EXCEPT ![c] = r] /\ pc' = [pc EXCEPT ![c] = "stat"]
    BY <2>1, <2>5 DEF Asked, Goto
  <2> HIDE DEF r
  <2> QED BY <1>1, <1>2, <2>3, <2>4, OneClient
<1>5. CASE \E id \in Ids(log), set \in FlagSets, force \in BOOLEAN :
             Asked(c, "flag", id, set, force) /\ Goto(c, "stat")
  <2>1. PICK id \in Ids(log), set \in FlagSets, force \in BOOLEAN :
               Asked(c, "flag", id, set, force) /\ Goto(c, "stat")
    BY <1>5
  <2> DEFINE r == Request("flag", id, set, force, Len(log))
  <2>2. set \in Updates /\ id \in Nat
    BY <1>2, NextIdFresh, StoreAssumption
  <2>3. CallInv(log, "stat", r)
    BY <1>2, <2>2 DEF CallInv, Call, Labels, Request
  <2>4. call' = [call EXCEPT ![c] = r] /\ pc' = [pc EXCEPT ![c] = "stat"]
    BY <2>1 DEF Asked, Goto
  <2> HIDE DEF r
  <2> QED BY <1>1, <1>2, <2>3, <2>4, OneClient
<1> QED BY <1>3, <1>4, <1>5 DEF Begin

LEMMA StatInv == ASSUME IInv, NEW c \in Clients, Stat(c) PROVE IInv'
<1> DEFINE r == [call[c] EXCEPT !.stamp = Len(log)]
<1>1. /\ log \in Seq(Row) /\ SoundLog(log) /\ Len(log) \in Nat
      /\ call[c] \in Call /\ CallInv(log, "stat", call[c])
      /\ calls \in 0 .. MaxCalls /\ crashes \in 0 .. MaxCrashes
  BY Known DEF Stat
<1>2. CallInv(log, "read", r)
  <2>1. /\ r \in Call
        /\ \A f \in {"op", "id", "set", "force", "begin", "seen", "new"} : r[f] = call[c][f]
        /\ r.stamp = Len(log)
    BY <1>1 DEF Call
  <2> HIDE DEF r
  <2> QED
    BY <1>1, <2>1 DEF CallInv, Labels
<1>3. call' = [call EXCEPT ![c] = r] /\ pc' = [pc EXCEPT ![c] = "read"]
  BY Known DEF Stat, Goto
<1>4. UNCHANGED <<log, cache, calls, crashes>>
  BY DEF Stat
<1> HIDE DEF r
<1> QED BY <1>1, <1>2, <1>3, <1>4, OneClient

(* A call that looked at a prefix no shorter than the log it began with knows *)
(* afterwards what CallInv asks.                                             *)
LEMMA DecidedInv ==
  ASSUME NEW l \in Seq(Row), NEW q \in Call, NEW at \in {"read", "fill"}, CallInv(l, at, q),
         NEW n \in 0 .. Len(l), q.begin <= n, ~Refused(q, SubSeq(l, 1, n))
  PROVE  CallInv(l, IF q.op = "supersede" THEN "record" ELSE "amend",
                 [q EXCEPT !.stamp = 0, !.seen = 0])
<1> DEFINE r == [q EXCEPT !.stamp = 0, !.seen = 0]
           s == SubSeq(l, 1, n)
<1>1. q.begin \in 0 .. Len(l) /\ n \in q.begin .. Len(l) /\ Len(l) \in Nat
  BY DEF CallInv
<1>2. q.id \notin Superseded(s) => q.id \notin Superseded(SubSeq(l, 1, q.begin))
  BY <1>1, PrefixGrows
<1>3. q.op = "supersede" => q.id \notin Superseded(SubSeq(l, 1, q.begin))
  BY <1>2 DEF Refused
<1>4. q.op = "flag" /\ Retiring(q.set) /\ ~q.force => Met(l, q.id, q.begin, Len(l))
  <2>1. q.op = "flag" /\ Retiring(q.set) /\ ~q.force => q.id \notin Protected(s)
    BY DEF Refused
  <2> QED BY <1>1, <2>1 DEF Met
<1>5. /\ r.op = q.op /\ r.id = q.id /\ r.set = q.set /\ r.force = q.force
      /\ r.begin = q.begin /\ r.stamp = 0 /\ r.seen = 0 /\ r \in Call
  BY DEF Call
<1>6. q.op \in {"supersede", "flag"}
  BY DEF CallInv
<1> HIDE DEF r
<1>7. CASE q.op = "supersede"
  <2>1. /\ q.set \in [{"dnr"} -> BOOLEAN]
        /\ q.id \in Ids(l)
    BY <1>7 DEF CallInv
  <2> QED BY <1>1, <1>3, <1>5, <1>7, <2>1 DEF CallInv, Labels, r
<1>8. CASE q.op = "flag"
  <2>1. q.id \in Ids(l)
    BY <1>8 DEF CallInv
  <2> QED BY <1>1, <1>4, <1>5, <1>8, <2>1 DEF CallInv, Labels, r
<1> QED BY <1>6, <1>7, <1>8
LEMMA ReturnInv ==
  ASSUME IInv, NEW c \in Clients, Return(c), log' = log,
         \/ cache' = cache
         \/ \E v : cache' = [cache EXCEPT ![ProcOf[c]] = v] /\ ViewInv(log', v),
         UNCHANGED <<calls, crashes>>
  PROVE  IInv'
<1>1. /\ log \in Seq(Row) /\ SoundLog(log)
      /\ calls \in 0 .. MaxCalls /\ crashes \in 0 .. MaxCrashes
  BY Known
<1>2. CallInv(log', "idle", NoCall)
  BY <1>1, NoCallSound
<1>3. call' = [call EXCEPT ![c] = NoCall] /\ pc' = [pc EXCEPT ![c] = "idle"]
  BY DEF Return, Goto
<1> QED BY <1>1, <1>2, <1>3, OneClient

LEMMA GoOnInv ==
  ASSUME IInv, NEW c \in Clients, pc[c] \in {"read", "fill"},
         NEW n \in 0 .. Len(log), call[c].begin <= n, Decided(c, n), log' = log,
         \/ cache' = cache
         \/ \E v : cache' = [cache EXCEPT ![ProcOf[c]] = v] /\ ViewInv(log', v),
         UNCHANGED <<calls, crashes>>
  PROVE  IInv'
<1>1. CASE Return(c)
  BY <1>1, ReturnInv
<1>2. CASE ~Refused(call[c], Prefix(n)) /\ ~Return(c)
  <2> DEFINE r == [call[c] EXCEPT !.stamp = 0, !.seen = 0]
             at == IF call[c].op = "supersede" THEN "record" ELSE "amend"
  <2>1. /\ log \in Seq(Row) /\ SoundLog(log) /\ Len(log) \in Nat
        /\ call[c] \in Call /\ CallInv(log, pc[c], call[c])
        /\ calls \in 0 .. MaxCalls /\ crashes \in 0 .. MaxCrashes
    BY Known
  <2>2. ~Refused(call[c], SubSeq(log, 1, n))
    BY <1>2 DEF Prefix
  <2>3. CallInv(log, at, r)
    BY <2>1, <2>2, DecidedInv
  <2>4. call' = [call EXCEPT ![c] = r] /\ pc' = [pc EXCEPT ![c] = at]
    BY <1>2 DEF Decided, Goto
  <2> HIDE DEF r, at
  <2> QED BY <2>1, <2>3, <2>4, OneClient
<1> QED BY <1>1, <1>2 DEF Decided

LEMMA ReadInv == ASSUME IInv, NEW c \in Clients, Read(c) PROVE IInv'
<1> DEFINE view == cache[ProcOf[c]]
<1>1. /\ log \in Seq(Row) /\ SoundLog(log) /\ Len(log) \in Nat
      /\ call[c] \in Call /\ CallInv(log, "read", call[c]) /\ pc[c] = "read"
      /\ ViewInv(log, view)
      /\ calls \in 0 .. MaxCalls /\ crashes \in 0 .. MaxCrashes
      /\ UNCHANGED <<log, cache, calls, crashes>>
  BY Known DEF Read
<1>2. /\ call[c].begin <= call[c].stamp
      /\ call[c].begin \in 0 .. Len(log) /\ call[c].stamp \in 0 .. Len(log)
  BY <1>1 DEF CallInv
<1>3. CASE view.stamp = call[c].stamp /\ Decided(c, view.rows)
  <2>1. view.rows \in 0 .. Len(log) /\ call[c].begin <= view.rows
    BY <1>1, <1>2, <1>3 DEF ViewInv
  <2> QED BY <1>1, <1>3, <2>1, GoOnInv
<1>4. CASE call' = [call EXCEPT ![c].seen = Len(log)] /\ Goto(c, "fill")
  <2> DEFINE r == [call[c] EXCEPT !.seen = Len(log)]
  <2>1. CallInv(log, "fill", r)
    <3>1. /\ r \in Call
          /\ \A f \in {"op", "id", "set", "force", "begin", "stamp", "new"} : r[f] = call[c][f]
          /\ r.seen = Len(log)
      BY <1>1 DEF Call
    <3> HIDE DEF r
    <3> QED
      BY <1>1, <1>2, <3>1 DEF CallInv, Labels
  <2>2. call' = [call EXCEPT ![c] = r] /\ pc' = [pc EXCEPT ![c] = "fill"]
    BY <1>4 DEF Goto
  <2> HIDE DEF r
  <2> QED BY <1>1, <2>1, <2>2, OneClient
<1> QED BY <1>3, <1>4 DEF Read

LEMMA FillInv == ASSUME IInv, NEW c \in Clients, Fill(c) PROVE IInv'
<1> DEFINE v == [stamp |-> call[c].stamp, rows |-> call[c].seen]
<1>1. /\ log \in Seq(Row) /\ Len(log) \in Nat
      /\ call[c] \in Call /\ CallInv(log, "fill", call[c]) /\ pc[c] = "fill"
      /\ log' = log /\ UNCHANGED <<calls, crashes>>
  BY Known DEF Fill
<1>2. /\ call[c].begin <= call[c].stamp /\ call[c].stamp <= call[c].seen
      /\ {call[c].begin, call[c].stamp, call[c].seen} \subseteq 0 .. Len(log)
  BY <1>1 DEF CallInv
<1>3. call[c].seen \in 0 .. Len(log) /\ call[c].begin <= call[c].seen
  BY <1>1, <1>2
<1>4. ViewInv(log', v)
  BY <1>1, <1>2 DEF ViewInv
<1>5. \E w : cache' = [cache EXCEPT ![ProcOf[c]] = w] /\ ViewInv(log', w)
  BY <1>4 DEF Fill
<1>6. Decided(c, call[c].seen)
  BY DEF Fill
<1> QED BY <1>1, <1>3, <1>5, <1>6, GoOnInv

LEMMA RecordInv == ASSUME IInv, NEW c \in Clients, Record(c) PROVE IInv'
<1> DEFINE r == NewDecision(NextId(log), call[c].set["dnr"], call[c].begin)
           l == Append(log, r)
<1>1. /\ log \in Seq(Row) /\ SoundLog(log) /\ Len(log) \in Nat
      /\ call[c] \in Call /\ CallInv(log, "record", call[c]) /\ pc[c] = "record"
      /\ calls \in 0 .. MaxCalls /\ crashes \in 0 .. MaxCrashes
      /\ log' = l /\ UNCHANGED <<cache, calls, crashes>>
  BY Known DEF Record
<1>2. /\ call[c].op \in {"record", "supersede"}
      /\ call[c].set \in [{"dnr"} -> BOOLEAN]
      /\ call[c].begin \in 0 .. Len(log)
  BY <1>1 DEF CallInv
<1>3. NextId(log) \in Nat \ {0} /\ \A id \in Ids(log) : id < NextId(log) /\ id \in Nat
  BY <1>1, NextIdFresh
<1>4. /\ r \in Row /\ r.base /\ r.id = NextId(log) /\ r.next = 0
      /\ r.begin = call[c].begin
  <2>1. call[c].set["dnr"] \in BOOLEAN
    BY <1>2
  <2> DEFINE set == [f \in Flags |-> f = "dnr" /\ call[c].set["dnr"]]
  <2>2. set \in [Flags -> BOOLEAN]
    BY <2>1
  <2>3. set \in Updates
    BY <2>2, UpdateTypes
  <2>4. r = [id |-> NextId(log), base |-> TRUE, set |-> set, next |-> 0,
             begin |-> call[c].begin, forced |-> FALSE]
    BY DEF NewDecision
  <2> HIDE DEF set, r
  <2> QED BY <1>2, <1>3, <2>3, <2>4 DEF Row
<1> HIDE DEF r
<1>5. /\ l \in Seq(Row) /\ l[Len(log) + 1] = r
      /\ Ids(l) = Ids(log) \cup {r.id}
  BY <1>1, <1>4, AppendedRows, IdsOfAppended
<1>6. RowInv(l, Len(log) + 1)
  BY <1>1, <1>2, <1>4, <1>5 DEF RowInv, Retires
<1>7. r.base => r.id \notin Ids(log)
  BY <1>3, <1>4
<1>8. SoundLog(l)
  BY <1>1, <1>4, <1>6, <1>7, Grown
<1>9. log' = log \/ \E s \in Row : log' = Append(log, s)
  BY <1>1, <1>4
<1> HIDE DEF l
<1>10. CASE Return(c)
  <2>1. CallInv(log', "idle", NoCall)
    BY <1>1, <1>5, NoCallSound
  <2>2. call' = [call EXCEPT ![c] = NoCall] /\ pc' = [pc EXCEPT ![c] = "idle"]
    BY <1>10 DEF Return, Goto
  <2> QED BY <1>1, <1>8, <1>9, <2>1, <2>2, OneClient
<1>11. CASE call[c].op = "supersede" /\ ~Return(c)
  <2> DEFINE q == [call[c] EXCEPT !.new = NextId(log)]
  <2>1. CallInv(l, "record", call[c])
    BY <1>1, <1>4, CallStays DEF l
  <2>2. call[c].id \in Ids(log)
    BY <1>1, <1>11 DEF CallInv
  <2>3. NextId(log) \in Ids(l) /\ NextId(log) > call[c].id
    BY <1>3, <1>4, <1>5, <2>2
  <2>4. CallInv(l, "amend", q)
    BY <1>3, <1>11, <2>1, <2>3 DEF CallInv, Call, Labels
  <2>5. call' = [call EXCEPT ![c] = q] /\ pc' = [pc EXCEPT ![c] = "amend"]
    BY <1>11 DEF Record, Goto
  <2> HIDE DEF q
  <2> QED BY <1>1, <1>8, <1>9, <2>4, <2>5, OneClient
<1> QED BY <1>10, <1>11 DEF Record
LEMMA AmendInv == ASSUME IInv, NEW c \in Clients, Amend(c) PROVE IInv'
<1> DEFINE q == call[c]
           r == [id |-> q.id, base |-> FALSE,
                 set  |-> IF q.op = "flag" THEN q.set ELSE Nothing,
                 next |-> IF q.op = "supersede" THEN q.new ELSE 0,
                 begin |-> q.begin, forced |-> q.force]
           l == Append(log, r)
<1>1. /\ log \in Seq(Row) /\ SoundLog(log) /\ Len(log) \in Nat
      /\ q \in Call /\ CallInv(log, "amend", q) /\ pc[c] = "amend"
      /\ call \in [Clients -> Call]
      /\ calls \in 0 .. MaxCalls /\ crashes \in 0 .. MaxCrashes
      /\ log' = l /\ UNCHANGED <<cache, calls, crashes>>
      /\ call' = call /\ pc' = [pc EXCEPT ![c] = "rebuild"]
  BY Known DEF Amend, Goto
<1>2. /\ q.op \in {"supersede", "flag"} /\ q.id \in Ids(log) /\ q.begin \in 0 .. Len(log)
      /\ q.op = "supersede" => /\ q.id \notin Superseded(SubSeq(log, 1, q.begin))
                              /\ q.new \in Ids(log) /\ q.new > q.id
      /\ q.op = "flag" /\ Retiring(q.set) /\ ~q.force => Met(log, q.id, q.begin, Len(log))
  BY <1>1 DEF CallInv
<1> HIDE DEF q
<1>3. /\ r \in Row /\ ~r.base /\ r.id = q.id /\ r.begin = q.begin /\ r.forced = q.force
      /\ r.next # 0 => q.op = "supersede" /\ r.next = q.new
      /\ Retires(r) => q.op = "flag" /\ Retiring(q.set)
  <2>1. q.op = "flag" => r.set = q.set
    OBVIOUS
  <2>2. q.op # "flag" => r.set = Nothing
    OBVIOUS
  <2>3. r \in Row
    BY <1>1, UpdateTypes DEF Call, Row
  <2>4. Retires(r) => q.op = "flag" /\ Retiring(q.set)
    BY <2>1, <2>2, UpdateTypes DEF Retires
  <2> QED BY <2>3, <2>4
<1> HIDE DEF r
<1>4. /\ l \in Seq(Row) /\ l[Len(log) + 1] = r /\ Ids(l) = Ids(log)
      /\ \A i \in 1 .. Len(log) : l[i] = log[i]
  BY <1>1, <1>3, AppendedRows, IdsOfAppended
<1>5. SubSeq(l, 1, q.begin) = SubSeq(log, 1, q.begin)
  BY <1>1, <1>2, <1>3, PrefixOfAppended
<1>6. \E j \in 1 .. Len(log) : log[j].base /\ log[j].id = q.id
  <2>1. DOMAIN log = 1 .. Len(log)
    BY <1>1
  <2> QED BY <1>2, <2>1 DEF Ids
<1>7. Met(log, q.id, q.begin, Len(log)) => Met(l, q.id, q.begin, Len(log))
  BY <1>1, <1>2, <1>3, MetStays
<1> HIDE DEF l
<1>8. RowInv(l, Len(log) + 1)
  <2>1. \E j \in 1 .. Len(log) + 1 : l[j].base /\ l[j].id = l[Len(log) + 1].id
    BY <1>1, <1>3, <1>4, <1>6
  <2> DEFINE i == Len(log) + 1
  <2>2. i - 1 = Len(log) /\ l[i] = r
    BY <1>1, <1>4
  <2> HIDE DEF i
  <2>3. l[i].begin \in 0 .. i - 1
    BY <1>2, <1>3, <2>2
  <2>4. l[i].next # 0 => /\ l[i].next \in Ids(l) /\ l[i].next > l[i].id
                         /\ l[i].id \notin Superseded(SubSeq(l, 1, l[i].begin))
    BY <1>2, <1>3, <1>4, <1>5, <2>2
  <2>5. Retires(l[i]) /\ ~l[i].forced => Met(l, l[i].id, l[i].begin, i - 1)
    BY <1>2, <1>3, <1>7, <2>2
  <2>6. \E j \in 1 .. i : l[j].base /\ l[j].id = l[i].id
    BY <2>1 DEF i
  <2>7. RowInv(l, i)
    BY <2>3, <2>4, <2>5, <2>6 DEF RowInv
  <2> QED BY <2>7 DEF i
<1>9. SoundLog(l)
  BY <1>1, <1>3, <1>8, Grown DEF l
<1>10. CallInv(l, "rebuild", q)
  <2>1. CallInv(l, "amend", q)
    BY <1>1, <1>3, CallStays DEF l
  <2> QED BY <2>1, <1>2 DEF CallInv, Labels
<1>11. log' = log \/ \E s \in Row : log' = Append(log, s)
  BY <1>1, <1>3 DEF l
<1>12. call' = [call EXCEPT ![c] = q]
  BY <1>1 DEF q
<1> QED BY <1>1, <1>9, <1>10, <1>11, <1>12, OneClient

LEMMA RebuildInv == ASSUME IInv, NEW c \in Clients, Rebuild(c) PROVE IInv'
<1>1. log \in Seq(Row) /\ log' = log /\ UNCHANGED <<calls, crashes>> /\ Return(c)
  BY Known DEF Rebuild
<1>2. ViewInv(log', Uncached)
  BY <1>1, UncachedSound
<1>3. \E v : cache' = [cache EXCEPT ![ProcOf[c]] = v] /\ ViewInv(log', v)
  BY <1>2 DEF Rebuild
<1> QED BY <1>1, <1>3, ReturnInv

LEMMA CrashInv == ASSUME IInv, NEW p \in Procs, Crash(p) PROVE IInv'
<1>1. log \in Seq(Row) /\ log' = log /\ calls' = calls
  BY DEF IInv, SoundLog, Crash
<1>2. NoCall \in Call /\ CallInv(log, "idle", NoCall) /\ ViewInv(log, Uncached)
  BY <1>1, NoCallSound, UncachedSound
<1>3. crashes' \in 0 .. MaxCrashes
  BY StoreAssumption DEF IInv, Crash
<1>4. /\ pc' \in [Clients -> Labels] /\ call' \in [Clients -> Call]
      /\ \A c \in Clients : CallInv(log, pc'[c], call'[c])
  BY <1>2 DEF IInv, Crash, Labels
<1>5. /\ cache' \in [Procs -> [stamp : Nat, rows : Nat]]
      /\ \A s \in Procs : ViewInv(log, cache'[s])
  BY <1>2 DEF IInv, Crash, Uncached
<1> QED BY <1>1, <1>3, <1>4, <1>5 DEF IInv

LEMMA Step == IInv /\ [Next]_vars => IInv'
<1> SUFFICES ASSUME IInv, [Next]_vars PROVE IInv'
  OBVIOUS
<1>1. CASE UNCHANGED vars
  BY <1>1 DEF IInv, vars
<1>2. CASE Exhausted
  BY <1>2 DEF IInv, Exhausted, vars
<1>3. ASSUME NEW c \in Clients,
             \/ Begin(c) \/ Stat(c) \/ Read(c) \/ Fill(c)
             \/ Record(c) \/ Amend(c) \/ Rebuild(c)
      PROVE  IInv'
  BY <1>3, BeginInv, StatInv, ReadInv, FillInv, RecordInv, AmendInv, RebuildInv
<1>4. ASSUME NEW p \in Procs, Crash(p) PROVE IInv'
  BY <1>4, CrashInv
<1> QED BY <1>1, <1>2, <1>3, <1>4 DEF Next

LEMMA Invariance == Spec => []IInv
BY InitInv, Step, PTL DEF Spec

-----------------------------------------------------------------------------
(* Every reachable state is well typed, and no supersession is about to write *)
(* an edge to a decision that is not in the log.                             *)
THEOREM TypeCorrect == Spec => []TypeOK
<1>1. IInv => TypeOK
  <2> SUFFICES ASSUME IInv PROVE TypeOK
    OBVIOUS
  <2>1. \A c \in Clients : CallInv(log, pc[c], call[c])
    BY DEF IInv
  <2>2. \A p \in Procs : cache[p] \in [stamp : 0 .. Len(log), rows : 0 .. Len(log)]
    BY DEF IInv, ViewInv
  <2>3. cache \in [Procs -> [stamp : 0 .. Len(log), rows : 0 .. Len(log)]]
    BY <2>2 DEF IInv
  <2>4. \A c \in Clients : {call[c].begin, call[c].stamp, call[c].seen} \subseteq 0 .. Len(log)
    BY <2>1 DEF CallInv
  <2>5. \A c \in Clients : pc[c] = "amend" /\ call[c].op = "supersede" => call[c].new \in Ids(log)
    BY <2>1 DEF CallInv
  <2> QED BY <2>3, <2>4, <2>5 DEF IInv, SoundLog, TypeInv, TypeOK
<1> QED BY <1>1, Invariance, PTL

(* A cached view holds at least what the file held under its stamp, whichever *)
(* threads fill and clear it in whatever order.                              *)
THEOREM CachesAreNoOlder == Spec => []CacheIsNoOlder
<1>1. IInv => CacheIsNoOlder
  BY DEF IInv, ViewInv, CacheIsNoOlder
<1> QED BY <1>1, Invariance, PTL

(* Whoever retires a decision without force had met it unprotected while the  *)
(* call was under way.                                                       *)
THEOREM ProtectionHolds == Spec => []ProtectionIsSeen
<1>1. IInv => ProtectionIsSeen
  BY DEF IInv, SoundLog, RowInv, Met, ProtectionIsSeen, Prefix
<1> QED BY <1>1, Invariance, PTL

(* A decision that was superseded when a call began is not superseded by it.  *)
THEOREM OnlyOverlapsFork == Spec => []ForksOverlap
<1>1. IInv => ForksOverlap
  BY DEF IInv, SoundLog, RowInv, ForksOverlap, Prefix
<1> QED BY <1>1, Invariance, PTL

(* The successor of a superseded decision is in the log and younger.          *)
THEOREM ChainsDoEnd == Spec => []ChainsEnd
<1>1. IInv => ChainsEnd
  <2> SUFFICES ASSUME IInv, NEW id \in Superseded(log)
               PROVE  Successor(log, id) \in Ids(log) /\ Successor(log, id) > id
    BY DEF ChainsEnd
  <2> DEFINE S == Links(log, id)
  <2>1. S # {} /\ S \subseteq DOMAIN log
    BY DEF Superseded, Links
  <2>2. DOMAIN log = 1 .. Len(log) /\ Len(log) \in Nat
    BY DEF IInv, SoundLog
  <2>3. S \in SUBSET Nat /\ IsFiniteSet(S)
    <3>1. IsFiniteSet(1 .. Len(log))
      BY <2>2, FS_Interval
    <3> HIDE DEF S
    <3> QED BY <2>1, <2>2, <3>1, FS_Subset
  <2>4. Max(S) \in S
    BY <2>1, <2>3, MaxOfFinite
  <2>5. Max(S) \in DOMAIN log /\ log[Max(S)].id = id /\ log[Max(S)].next # 0
    BY <2>4 DEF Links
  <2>6. RowInv(log, Max(S))
    BY <2>5 DEF IInv, SoundLog
  <2> QED BY <2>5, <2>6 DEF RowInv, Successor
<1> QED BY <1>1, Invariance, PTL

(* Every row, amendments included, has exactly one base record before it.     *)
THEOREM OneBaseEach == Spec => []AmendmentsHaveOneBase
<1>1. IInv => AmendmentsHaveOneBase
  <2> SUFFICES ASSUME IInv, NEW i \in DOMAIN log
               PROVE  Cardinality({j \in 1 .. i : log[j].base /\ log[j].id = log[i].id}) = 1
    BY DEF AmendmentsHaveOneBase
  <2> DEFINE B == {j \in 1 .. i : log[j].base /\ log[j].id = log[i].id}
  <2>1. DOMAIN log = 1 .. Len(log) /\ Len(log) \in Nat
    BY DEF IInv, SoundLog
  <2>2. PICK j \in B : TRUE
    BY DEF IInv, SoundLog, RowInv
  <2>3. \A k \in B : k = j
    BY <2>1, <2>2 DEF IInv, SoundLog, UniqueBases
  <2>4. B = {j}
    BY <2>2, <2>3
  <2> HIDE DEF B
  <2>5. Cardinality(B) = 1
    BY <2>4, FS_Singleton
  <2> QED BY <2>5 DEF B
<1> QED BY <1>1, Invariance, PTL
=============================================================================

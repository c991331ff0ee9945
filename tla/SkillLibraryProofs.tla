------------------------- MODULE SkillLibraryProofs -------------------------
(***************************************************************************)
(* OnlyOverlapsRevive and EventsFollowOutcomes for every value of the      *)
(* constants: any number of clients, skills, decisions, calls and moves of *)
(* HEAD.                                                                   *)
(*                                                                         *)
(* A call that marks a skill has seen a row that was the last to give it a *)
(* status when the call began, or a later one (CallInv); and during a      *)
(* round of the observer the outcomes agree with the events of the file    *)
(* and those that the observer has in hand (EventInv).                     *)
(*                                                                         *)
(* And TwinsGiveWay and AnswersStand of DecisionTools, for any number of   *)
(* agents, whatever they ask and whatever store they find: a call goes by  *)
(* a decision that says the same, unless it was touched since it began, and *)
(* a query shows nothing that was gone when it began (ToolsInv).           *)
(*                                                                         *)
(* And ClustersAreChains of Reconcile, for any records: at every pair, who  *)
(* shares a root are the duplicates compared so far, and nobody whom a set  *)
(* that no duplicate pair leaves would keep apart (RecInv).                *)
(***************************************************************************)
EXTENDS SkillLibrary, DecisionTools, Reconcile, SetLemmas, SequenceTheorems

Stati == {"active", "archived", "superseded"}
BaseSet == [status : Stati, consec : Nat, keep : BOOLEAN]
SetType == BaseSet \cup [status : Stati, consec : Nat]
           \cup [status : Stati, next : Nat] \cup [supersedes : Nat]
RowType == [id : Nat, base : BOOLEAN, set : SetType, since : Nat]

(* The rows of l that give skill id the field f.                              *)
Giving(l, id, f) == {i \in DOMAIN l : l[i].id = id /\ f \in DOMAIN l[i].set}

LogInv ==
  /\ slog \in Seq(RowType)
  /\ \A i \in DOMAIN slog : slog[i].base => slog[i].set \in BaseSet
  /\ \A i \in DOMAIN slog : slog[i].id \in Skills(slog)
  /\ \E n \in Nat : Skills(slog) = 1 .. n

Alive == {"active", "archived"}
Says(i) == IF "status" \in DOMAIN slog[i].set THEN slog[i].set.status ELSE "silent"

(* OnlyOverlapsRevive, without a least element.                               *)
OverlapInv ==
  \A k, i \in DOMAIN slog :
    /\ k < i /\ Says(k) = "superseded" /\ slog[i].id = slog[k].id /\ Says(i) \in Alive
    /\ \A m \in k + 1 .. i - 1 : ~(slog[m].id = slog[k].id /\ Says(m) \in Alive)
    => slog[i].since < k

-----------------------------------------------------------------------------
(* Rows and views.                                                            *)

LEMMA RowFields ==
  ASSUME NEW r \in RowType
  PROVE  /\ r.id \in Nat /\ r.base \in BOOLEAN /\ r.since \in Nat /\ r.set \in SetType
         /\ "status" \in DOMAIN r.set => r.set.status \in Stati
         /\ "consec" \in DOMAIN r.set => r.set.consec \in Nat
         /\ "keep" \in DOMAIN r.set => r.set.keep \in BOOLEAN
         /\ r.set \in BaseSet => {"status", "consec", "keep"} \subseteq DOMAIN r.set
<1>1. r.id \in Nat /\ r.base \in BOOLEAN /\ r.since \in Nat /\ r.set \in SetType
  BY DEF RowType
<1> DEFINE s == r.set
<1>2. CASE s \in BaseSet
  BY <1>1, <1>2 DEF BaseSet
<1>3. CASE s \in [status : Stati, consec : Nat]
  BY <1>1, <1>3 DEF BaseSet
<1>4. CASE s \in [status : Stati, next : Nat]
  BY <1>1, <1>4 DEF BaseSet
<1>5. CASE s \in [supersedes : Nat]
  BY <1>1, <1>5 DEF BaseSet
<1> QED
  BY <1>1, <1>2, <1>3, <1>4, <1>5 DEF SetType

(* A field of the merged view is that of the last row that gives it.          *)
LEMMA FieldIsLast ==
  ASSUME LogInv, NEW id \in Skills(slog), NEW f \in {"status", "consec", "keep"}
  PROVE  \E j \in Giving(slog, id, f) :
           /\ Field(slog, id, f) = slog[j].set[f]
           /\ \A k \in Giving(slog, id, f) : k <= j
<1> DEFINE S == Giving(slog, id, f)
<1>1. Len(slog) \in Nat /\ DOMAIN slog = 1 .. Len(slog) /\ \A i \in DOMAIN slog : slog[i] \in RowType
  BY LenProperties, ElementOfSeq DEF LogInv
<1>2. S \in SUBSET Nat /\ S \subseteq 1 .. Len(slog)
  BY <1>1 DEF Giving
<1>3. IsFiniteSet(S)
  <2>1. IsFiniteSet(1 .. Len(slog))
    BY <1>1, FS_Interval
  <2> QED
    BY <1>2, <2>1, FS_Subset
<1>4. S # {}
  <2>1. PICK i \in DOMAIN slog : slog[i].base /\ slog[i].id = id
    BY DEF Skills
  <2>2. f \in DOMAIN slog[i].set
    BY <1>1, <2>1, RowFields DEF LogInv
  <2> QED
    BY <2>1, <2>2 DEF Giving
<1>5. Max(S) \in S /\ \A k \in S : k <= Max(S)
  <2> HIDE DEF S
  <2> QED
    BY <1>2, <1>3, <1>4, MaxOfFinite
<1>6. Field(slog, id, f) = slog[Max(S)].set[f]
  BY DEF Field, Giving
<1> QED
  BY <1>5, <1>6

LEMMA ViewIsTyped ==
  ASSUME LogInv, NEW id \in Skills(slog)
  PROVE  View(slog, id) \in BaseSet
<1>1. \A i \in DOMAIN slog : slog[i] \in RowType
  BY LenProperties, ElementOfSeq DEF LogInv
<1>2. Field(slog, id, "status") \in Stati
  <2>1. PICK j \in Giving(slog, id, "status") : Field(slog, id, "status") = slog[j].set["status"]
    BY FieldIsLast
  <2> QED
    BY <1>1, <2>1, RowFields DEF Giving
<1>3. Field(slog, id, "consec") \in Nat
  <2>1. PICK j \in Giving(slog, id, "consec") : Field(slog, id, "consec") = slog[j].set["consec"]
    BY FieldIsLast
  <2> QED
    BY <1>1, <2>1, RowFields DEF Giving
<1>4. Field(slog, id, "keep") \in BOOLEAN
  <2>1. PICK j \in Giving(slog, id, "keep") : Field(slog, id, "keep") = slog[j].set["keep"]
    BY FieldIsLast
  <2> QED
    BY <1>1, <2>1, RowFields DEF Giving
<1> QED
  BY <1>2, <1>3, <1>4 DEF View, BaseSet

(* What a row that is appended must be.                                       *)
Fits(row) ==
  /\ row \in RowType
  /\ row.base => row.set \in BaseSet /\ row.id = Cardinality(Skills(slog)) + 1
  /\ ~row.base => row.id \in Skills(slog)

LEMMA Grown ==
  ASSUME LogInv, NEW row, Fits(row), slog' = Append(slog, row)
  PROVE  /\ LogInv' /\ Skills(slog) \subseteq Skills(slog')
         /\ Len(slog) \in Nat /\ Len(slog') = Len(slog) + 1
         /\ DOMAIN slog = 1 .. Len(slog) /\ DOMAIN slog' = 1 .. Len(slog) + 1
         /\ \A i \in DOMAIN slog : slog'[i] = slog[i]
         /\ slog'[Len(slog) + 1] = row
         /\ row.id \in Skills(slog')
         /\ row.base => \A i \in DOMAIN slog : slog[i].id # row.id
<1>1. row \in RowType /\ slog \in Seq(RowType)
  BY DEF Fits, LogInv
<1>2. /\ slog' \in Seq(RowType) /\ Len(slog') = Len(slog) + 1 /\ slog'[Len(slog) + 1] = row
      /\ \A i \in 1 .. Len(slog) : slog'[i] = slog[i]
      /\ Len(slog) \in Nat
  BY <1>1, AppendProperties, LenProperties
<1>3. DOMAIN slog = 1 .. Len(slog) /\ DOMAIN slog' = 1 .. Len(slog) + 1
  BY <1>1, <1>2, LenProperties
<1>4. DOMAIN slog' = DOMAIN slog \cup {Len(slog) + 1} /\ Len(slog) + 1 \notin DOMAIN slog
  BY <1>2, <1>3
<1>5. Skills(slog') = Skills(slog) \cup (IF row.base THEN {row.id} ELSE {})
  <2> DEFINE n == Len(slog)
  <2>1. DOMAIN slog' = DOMAIN slog \cup {n + 1} /\ slog'[n + 1] = row
        /\ \A i \in DOMAIN slog : slog'[i] = slog[i]
    BY <1>2, <1>3, <1>4
  <2> HIDE DEF n
  <2> QED
    BY <2>1 DEF Skills
<1>6. PICK n \in Nat : Skills(slog) = 1 .. n
  BY DEF LogInv
<1>7. Cardinality(Skills(slog)) = n
  BY <1>6, FS_Interval
<1>8. \E m \in Nat : Skills(slog') = 1 .. m
  <2>1. CASE row.base
    <3>1. Skills(slog') = 1 .. n + 1
      BY <1>5, <1>6, <1>7, <2>1 DEF Fits
    <3> QED
      BY <3>1
  <2>2. CASE ~row.base
    BY <1>5, <1>6, <2>2
  <2> QED
    BY <2>1, <2>2
<1>9. row.id \in Skills(slog') /\ \A i \in DOMAIN slog : slog[i].id \in Skills(slog)
  BY <1>5 DEF Fits, LogInv
<1>10. LogInv'
  BY <1>2, <1>3, <1>4, <1>5, <1>8, <1>9 DEF LogInv, Fits
<1>11. row.base => row.id \notin Skills(slog)
  BY <1>6, <1>7 DEF Fits
<1> QED
  BY <1>2, <1>3, <1>5, <1>9, <1>10, <1>11

(* A row brings a skill back only if its call had seen it alive, by a row that *)
(* no status followed until the call began.                                  *)
Seen(id, status, since) ==
  \E j \in DOMAIN slog : /\ slog[j].id = id /\ Says(j) = status
                         /\ \A k \in j + 1 .. since : ~(slog[k].id = id /\ Says(k) \in Stati)

LEMMA OverlapsOnly ==
  ASSUME LogInv, OverlapInv, NEW row, Fits(row), slog' = Append(slog, row),
         \/ row.base
         \/ "status" \notin DOMAIN row.set
         \/ row.set.status = "superseded"
         \/ \E s \in Alive : Seen(row.id, s, row.since)
  PROVE  OverlapInv'
<1> SUFFICES ASSUME NEW k \in DOMAIN slog', NEW i \in DOMAIN slog', k < i,
                    Says(k)' = "superseded", slog'[i].id = slog'[k].id, Says(i)' \in Alive,
                    \A m \in k + 1 .. i - 1 : ~(slog'[m].id = slog'[k].id /\ Says(m)' \in Alive)
             PROVE  slog'[i].since < k
  BY DEF OverlapInv
<1>1. /\ Len(slog) \in Nat /\ DOMAIN slog = 1 .. Len(slog) /\ DOMAIN slog' = 1 .. Len(slog) + 1
      /\ \A m \in DOMAIN slog : slog'[m] = slog[m]
      /\ slog'[Len(slog) + 1] = row
      /\ row.base => \A m \in DOMAIN slog : slog[m].id # row.id
  BY Grown
<1>2. \A m \in DOMAIN slog : Says(m)' = Says(m)
  BY <1>1 DEF Says
<1>3. k \in DOMAIN slog
  BY <1>1
<1>4. CASE i \in DOMAIN slog
  BY <1>1, <1>2, <1>3, <1>4 DEF OverlapInv
<1>5. CASE i = Len(slog) + 1
  <2>1. slog'[i] = row /\ slog[k].id = row.id
    BY <1>1, <1>3, <1>5
  <2>2. "status" \in DOMAIN row.set /\ row.set.status \in Alive
    BY <2>1 DEF Says, Alive
  <2>3. PICK s \in Alive : Seen(row.id, s, row.since)
    BY <1>1, <1>3, <2>1, <2>2 DEF Alive
  <2>4. PICK j \in DOMAIN slog : /\ slog[j].id = row.id /\ Says(j) = s
                                 /\ \A m \in j + 1 .. row.since : ~(slog[m].id = row.id /\ Says(m) \in Stati)
    BY <2>3 DEF Seen
  <2>5. ~(j > k)
    BY <1>1, <1>2, <1>3, <1>5, <2>1, <2>4
  <2>6. j # k
    BY <1>2, <1>3, <2>4 DEF Alive
  <2>7. k > row.since
    <3>1. k \notin j + 1 .. row.since
      BY <1>2, <1>3, <2>1, <2>4 DEF Stati
    <3>2. row.since \in Nat
      BY RowFields DEF Fits
    <3> QED
      BY <1>1, <1>3, <2>5, <2>6, <3>1, <3>2
  <2> QED
    BY <1>1, <1>3, <2>1, <2>7, RowFields DEF Fits
<1> QED
  BY <1>1, <1>4, <1>5

-----------------------------------------------------------------------------
(* Calls.                                                                     *)

Labels == {"idle", "read", "mark", "supersede", "retire", "backref", "observe"}
AskType == [op : {"none", "mark", "supersede"}, id : Nat, win : BOOLEAN, since : Nat,
            view : BaseSet \cup {<<>>}, new : Nat]

CallInv ==
  /\ upc \in [Clients -> Labels] /\ ask \in [Clients -> AskType]
  /\ \A u \in Clients :
       /\ upc[u] \in {"read", "mark", "supersede", "retire", "backref"} =>
            ask[u].id \in Skills(slog) /\ ask[u].since <= Len(slog)
       /\ upc[u] = "read" => ask[u].op \in {"mark", "supersede"}
       /\ upc[u] = "mark" => /\ ask[u].view \in BaseSet
                             /\ Seen(ask[u].id, ask[u].view.status, ask[u].since)
       /\ upc[u] \in {"retire", "backref"} => ask[u].new \in Skills(slog)

LEMMA NoAskIsTyped == NoAsk \in AskType
  BY DEF NoAsk, AskType

LEMMA SeenStays ==
  ASSUME LogInv, NEW row, Fits(row), slog' = Append(slog, row),
         NEW id, NEW s, NEW since \in Nat, since <= Len(slog), Seen(id, s, since)
  PROVE  Seen(id, s, since)'
<1>1. /\ Len(slog) \in Nat /\ DOMAIN slog = 1 .. Len(slog) /\ DOMAIN slog' = 1 .. Len(slog) + 1
      /\ \A m \in DOMAIN slog : slog'[m] = slog[m]
  BY Grown
<1>2. \A m \in DOMAIN slog : Says(m)' = Says(m)
  BY <1>1 DEF Says
<1>3. PICK j \in DOMAIN slog : /\ slog[j].id = id /\ Says(j) = s
                               /\ \A k \in j + 1 .. since : ~(slog[k].id = id /\ Says(k) \in Stati)
  BY DEF Seen
<1>4. \A k \in j + 1 .. since : k \in DOMAIN slog
  BY <1>1, <1>3
<1> QED
  BY <1>1, <1>2, <1>3, <1>4 DEF Seen

(* What a call sees is the last status.                                       *)
LEMMA ViewIsSeen ==
  ASSUME LogInv, NEW id \in Skills(slog), NEW since \in Nat, since <= Len(slog)
  PROVE  /\ View(slog, id) \in BaseSet
         /\ Seen(id, View(slog, id).status, since)
<1>1. PICK j \in Giving(slog, id, "status") :
        /\ Field(slog, id, "status") = slog[j].set["status"]
        /\ \A k \in Giving(slog, id, "status") : k <= j
  BY FieldIsLast
<1>2. View(slog, id).status = slog[j].set["status"]
  BY <1>1 DEF View
<1>3. j \in DOMAIN slog /\ slog[j].id = id /\ Says(j) = View(slog, id).status
  BY <1>1, <1>2 DEF Giving, Says
<1>4. DOMAIN slog = 1 .. Len(slog) /\ Len(slog) \in Nat
  BY LenProperties DEF LogInv
<1>5. ASSUME NEW k \in j + 1 .. since, slog[k].id = id, Says(k) \in Stati
      PROVE  FALSE
  <2>1. k \in DOMAIN slog /\ ~(k <= j)
    BY <1>3, <1>4
  <2>2. "status" \in DOMAIN slog[k].set
    BY <1>5 DEF Says, Stati
  <2> QED
    BY <1>1, <1>5, <2>1, <2>2 DEF Giving
<1> QED
  BY <1>3, <1>5, ViewIsTyped DEF Seen

(* The call of one client changes, with or without a row.                     *)
LEMMA OneClient ==
  ASSUME LogInv, CallInv, NEW u \in Clients,
         NEW l \in Labels, upc' = [upc EXCEPT ![u] = l],
         NEW a \in AskType, ask' = [ask EXCEPT ![u] = a],
         \/ slog' = slog
         \/ \E row : Fits(row) /\ slog' = Append(slog, row),
         l \in {"read", "mark", "supersede", "retire", "backref"} =>
           a.id \in Skills(slog) /\ a.since <= Len(slog),
         l = "read" => a.op \in {"mark", "supersede"},
         l = "mark" => slog' = slog /\ a.view \in BaseSet /\ Seen(a.id, a.view.status, a.since),
         l \in {"retire", "backref"} => a.new \in Skills(slog')
  PROVE  CallInv'
<1>1. upc' \in [Clients -> Labels] /\ ask' \in [Clients -> AskType]
      /\ upc'[u] = l /\ ask'[u] = a
      /\ \A w \in Clients \ {u} : upc'[w] = upc[w] /\ ask'[w] = ask[w]
  BY DEF CallInv
<1>2. Skills(slog) \subseteq Skills(slog') /\ Len(slog) <= Len(slog') /\ Len(slog) \in Nat /\ Len(slog') \in Nat
  <2>1. CASE slog' = slog
    BY <2>1, LenProperties DEF LogInv
  <2>2. ASSUME NEW row, Fits(row), slog' = Append(slog, row)
        PROVE  Skills(slog) \subseteq Skills(slog') /\ Len(slog) <= Len(slog') /\ Len(slog) \in Nat
               /\ Len(slog') \in Nat
    <3>1. Skills(slog) \subseteq Skills(slog') /\ Len(slog) \in Nat /\ Len(slog') = Len(slog) + 1
      BY <2>2, Grown
    <3> QED
      BY <3>1
  <2> QED
    BY <2>1, <2>2
<1>3. \A w \in Clients : ask[w] \in AskType /\ ask[w].since \in Nat /\ ask[w].id \in Nat
  BY DEF CallInv, AskType
<1>4. ASSUME NEW w \in Clients \ {u}, upc[w] = "mark"
      PROVE  Seen(ask[w].id, ask[w].view.status, ask[w].since)'
  <2> DEFINE id == ask[w].id
             s == ask[w].view.status
             since == ask[w].since
  <2>1. Seen(id, s, since) /\ since \in Nat /\ since <= Len(slog)
    BY <1>3, <1>4 DEF CallInv
  <2>2. \A i, t, n : Seen(i, t, n) => (slog' = slog => \E j \in DOMAIN slog' :
            /\ slog'[j].id = i /\ Says(j)' = t
            /\ \A k \in j + 1 .. n : ~(slog'[k].id = i /\ Says(k)' \in Stati))
    BY DEF Seen, Says
  <2>3. \E j \in DOMAIN slog' : /\ slog'[j].id = id /\ Says(j)' = s
                                /\ \A k \in j + 1 .. since : ~(slog'[k].id = id /\ Says(k)' \in Stati)
    <3>1. CASE slog' = slog
      BY <2>1, <2>2, <3>1
    <3>2. ASSUME NEW row, Fits(row), slog' = Append(slog, row)
          PROVE  \E j \in DOMAIN slog' : /\ slog'[j].id = id /\ Says(j)' = s
                   /\ \A k \in j + 1 .. since : ~(slog'[k].id = id /\ Says(k)' \in Stati)
      <4>1. \A i, t : \A n \in Nat : n <= Len(slog) /\ Seen(i, t, n) => Seen(i, t, n)'
        BY <3>2, SeenStays
      <4> HIDE DEF id, s, since
      <4> QED
        BY <2>1, <4>1 DEF Seen
    <3> QED
      BY <3>1, <3>2
  <2> QED
    BY <1>1, <2>3 DEF Seen
<1>5. l = "mark" => Seen(ask[u].id, ask[u].view.status, ask[u].since)'
  BY <1>1 DEF Seen, Says
<1>6. ASSUME NEW w \in Clients, upc'[w] = "mark"
      PROVE  /\ ask'[w].view \in BaseSet
             /\ Seen(ask[w].id, ask[w].view.status, ask[w].since)'
  <2>1. CASE w = u
    BY <1>1, <1>5, <1>6, <2>1
  <2>2. CASE w # u
    BY <1>1, <1>4, <1>6, <2>2 DEF CallInv
  <2> QED
    BY <2>1, <2>2
<1>7. ASSUME NEW w \in Clients
      PROVE  /\ upc'[w] \in {"read", "mark", "supersede", "retire", "backref"} =>
                  ask'[w].id \in Skills(slog') /\ ask'[w].since <= Len(slog')
             /\ upc'[w] = "read" => ask'[w].op \in {"mark", "supersede"}
             /\ upc'[w] \in {"retire", "backref"} => ask'[w].new \in Skills(slog')
  <2>1. CASE w = u
    <3>1. a.since \in Nat
      BY DEF AskType
    <3> QED
      BY <1>1, <1>2, <2>1, <3>1
  <2>2. CASE w # u
    BY <1>1, <1>2, <1>3, <2>2 DEF CallInv
  <2> QED
    BY <2>1, <2>2
<1> QED
  BY <1>1, <1>6, <1>7 DEF CallInv

-----------------------------------------------------------------------------
(* Rounds, and events.                                                        *)

EventType == Nat \X Outcomes
Known == Outcomes \cup {"none"}
RoundType == [d : Nat, v : Known, todo : SUBSET Nat,
              seen : [DOMAIN Sessions -> Known] \cup {<<>>}, fresh : Seq(EventType)]

RoundInv ==
  /\ round \in RoundType /\ round.todo \subseteq Skills(slog)
  /\ \/ round = NoRound /\ upc[Observer] # "observe"
     \/ /\ round.d \in 1 .. Len(Sessions) + 1
        /\ round.d <= Len(Sessions) =>
             round.v \in Outcomes /\ round.seen \in [DOMAIN Sessions -> Known]
        /\ upc[Observer] \in {"observe", "read", "mark"}
        /\ upc[Observer] = "read" => ask[Observer].op = "mark"

(* The outcome that the last event of l gives decision d.                     *)
LastOf(l, d) ==
  LET mine == {i \in DOMAIN l : l[i][1] = d} IN
    IF mine = {} THEN "none" ELSE l[Max(mine)][2]

EventInv ==
  /\ verdict \in [DOMAIN Sessions -> Outcomes]
  /\ outcome \in [DOMAIN Sessions -> Known]
  /\ events \in Seq(EventType)
  /\ \A d \in DOMAIN Sessions : outcome[d] = LastOf(events \o round.fresh, d)

SkillInv == LogInv /\ OverlapInv /\ CallInv /\ RoundInv /\ EventInv

LEMMA LastAfter ==
  ASSUME NEW l \in Seq(EventType), NEW e \in EventType, NEW d
  PROVE  LastOf(Append(l, e), d) = IF e[1] = d THEN e[2] ELSE LastOf(l, d)
<1> DEFINE n == Len(l)
           m == Append(l, e)
           mine == {i \in DOMAIN l : l[i][1] = d}
           now == {i \in DOMAIN m : m[i][1] = d}
<1>1. /\ n \in Nat /\ DOMAIN l = 1 .. n /\ DOMAIN m = 1 .. n + 1 /\ m[n + 1] = e
      /\ \A i \in 1 .. n : m[i] = l[i]
  <2>1. n \in Nat /\ DOMAIN l = 1 .. n
    BY LenProperties
  <2>2. m \in Seq(EventType) /\ Len(m) = n + 1 /\ m[n + 1] = e /\ \A i \in 1 .. n : m[i] = l[i]
    BY AppendProperties
  <2>3. DOMAIN m = 1 .. Len(m)
    BY <2>2, LenProperties
  <2> QED
    BY <2>1, <2>2, <2>3
<1>2. LastOf(l, d) = IF mine = {} THEN "none" ELSE l[Max(mine)][2]
  BY DEF LastOf
<1>3. LastOf(m, d) = IF now = {} THEN "none" ELSE m[Max(now)][2]
  BY DEF LastOf
<1> HIDE DEF n, m
<1>4. CASE e[1] = d
  <2>1. n + 1 \in now /\ \A i \in now : i \in Nat /\ i <= n + 1
    BY <1>1, <1>4
  <2>2. \A x \in now : (\A y \in now : x >= y) <=> x = n + 1
    BY <1>1, <2>1
  <2> HIDE DEF now
  <2>3. Max(now) = n + 1
    BY <2>1, <2>2 DEF Max
  <2> QED
    BY <1>1, <1>3, <1>4, <2>1, <2>3 DEF m
<1>5. CASE e[1] # d
  <2>1. now = mine /\ mine \subseteq 1 .. n
    BY <1>1, <1>5
  <2>2. CASE mine = {}
    BY <1>2, <1>3, <1>5, <2>1, <2>2 DEF m
  <2>3. CASE mine # {}
    <3>1. IsFiniteSet(mine)
      <4>1. IsFiniteSet(1 .. n)
        BY <1>1, FS_Interval
      <4> HIDE DEF mine
      <4> QED
        BY <2>1, <4>1, FS_Subset
    <3>2. mine \in SUBSET Nat
      BY <1>1, <2>1
    <3>3. Max(mine) \in mine
      <4> HIDE DEF mine
      <4> QED
        BY <2>3, <3>1, <3>2, MaxOfFinite
    <3>4. m[Max(mine)] = l[Max(mine)]
      BY <1>1, <2>1, <3>3
    <3> HIDE DEF mine, now
    <3> QED
      BY <1>2, <1>3, <1>5, <2>1, <2>3, <3>4 DEF m
  <2> QED
    BY <2>2, <2>3
<1> QED
  BY <1>4, <1>5

LEMMA RoundKept ==
  ASSUME RoundInv, round' = round, Skills(slog) \subseteq Skills(slog'),
         round.d = 0 => upc'[Observer] # "observe",
         round.d # 0 => /\ upc'[Observer] \in {"observe", "read", "mark"}
                        /\ upc'[Observer] = "read" => ask'[Observer].op = "mark"
  PROVE  RoundInv'
<1>1. round.d = 0 <=> round = NoRound
  BY DEF RoundInv, NoRound
<1> QED
  BY <1>1 DEF RoundInv

LEMMA EventsKept ==
  ASSUME EventInv, verdict' = verdict, outcome' = outcome, events' = events,
         round'.fresh = round.fresh
  PROVE  EventInv'
<1>1. \A d \in DOMAIN Sessions : outcome'[d] = LastOf(events' \o round'.fresh, d)
  BY DEF EventInv
<1> QED
  BY <1>1 DEF EventInv

LEMMA AtIsTyped ==
  ASSUME NEW d \in 1 .. Len(Sessions) + 1, verdict \in [DOMAIN Sessions -> Outcomes],
         NEW seen \in [DOMAIN Sessions -> Known], NEW fresh \in Seq(EventType), LogInv
  PROVE  /\ At(d, seen, fresh) \in RoundType
         /\ At(d, seen, fresh).d = d /\ At(d, seen, fresh).fresh = fresh
         /\ At(d, seen, fresh).todo \subseteq Skills(slog)
         /\ d <= Len(Sessions) => /\ At(d, seen, fresh).v \in Outcomes
                                  /\ At(d, seen, fresh).seen = seen
<1>1. Len(Sessions) \in Nat /\ DOMAIN Sessions = 1 .. Len(Sessions)
      /\ \A i \in DOMAIN Sessions : Sessions[i] \subseteq Nat
  BY LenProperties, ElementOfSeq, SkillAssumption
<1>2. Skills(slog) \subseteq Nat
  BY DEF LogInv
<1>3. CASE d > Len(Sessions)
  <2>1. At(d, seen, fresh) = [d |-> d, v |-> "none", todo |-> {}, seen |-> <<>>, fresh |-> fresh]
    BY <1>3 DEF At, NoRound
  <2> QED
    BY <1>1, <1>3, <2>1 DEF RoundType, Known
<1>4. CASE ~(d > Len(Sessions))
  <2> DEFINE todo == IF verdict[d] = "modified" THEN {} ELSE Sessions[d] \cap Skills(slog)
  <2>1. At(d, seen, fresh) = [d |-> d, v |-> verdict[d], seen |-> seen, fresh |-> fresh, todo |-> todo]
    BY <1>4 DEF At
  <2>2. todo \subseteq Nat /\ todo \subseteq Skills(slog) /\ verdict[d] \in Outcomes /\ d \in Nat
    BY <1>1, <1>2, <1>4
  <2> HIDE DEF todo
  <2> QED
    BY <2>1, <2>2 DEF RoundType, Known
<1> QED
  BY <1>3, <1>4

-----------------------------------------------------------------------------
(* Steps.                                                                     *)

LEMMA NewSkillFits ==
  ASSUME LogInv, NEW keep \in BOOLEAN, NEW since \in Nat
  PROVE  /\ Fits(NewSkill(keep, since)) /\ NewSkill(keep, since).base
         /\ NewSkill(keep, since).id = Cardinality(Skills(slog)) + 1
<1>1. PICK n \in Nat : Skills(slog) = 1 .. n
  BY DEF LogInv
<1>2. Cardinality(Skills(slog)) \in Nat
  <2>1. Cardinality(1 .. n) = IF 1 > n THEN 0 ELSE n - 1 + 1
    BY <1>1, FS_Interval
  <2> QED
    BY <1>1, <2>1
<1> DEFINE set == [status |-> "active", consec |-> 0, keep |-> keep]
<1>3. set \in BaseSet
  BY DEF BaseSet, Stati
<1> HIDE DEF set
<1>4. NewSkill(keep, since) = [id |-> Cardinality(Skills(slog)) + 1, base |-> TRUE, set |-> set, since |-> since]
  BY DEF NewSkill, Row, set
<1> QED
  BY <1>2, <1>3, <1>4 DEF Fits, RowType, SetType

(* A row that changes a skill.                                                *)
LEMMA ChangeFits ==
  ASSUME LogInv, NEW id \in Skills(slog), NEW set \in SetType, NEW since \in Nat
  PROVE  Fits(Row(id, FALSE, set, since))
<1>1. id \in Nat
  BY DEF LogInv
<1> QED
  BY <1>1 DEF Fits, Row, RowType

(* A step of one client that leaves the round and the events as they are.     *)
LEMMA ClientStep ==
  ASSUME SkillInv, NEW u \in Clients,
         NEW l \in Labels, upc' = [upc EXCEPT ![u] = l],
         NEW a \in AskType, ask' = [ask EXCEPT ![u] = a],
         \/ slog' = slog
         \/ \E row : /\ Fits(row) /\ slog' = Append(slog, row)
                     /\ \/ row.base
                        \/ "status" \notin DOMAIN row.set
                        \/ row.set.status = "superseded"
                        \/ \E s \in Alive : Seen(row.id, s, row.since),
         l \in {"read", "mark", "supersede", "retire", "backref"} =>
           a.id \in Skills(slog) /\ a.since <= Len(slog),
         l = "read" => a.op \in {"mark", "supersede"},
         l = "mark" => slog' = slog /\ a.view \in BaseSet /\ Seen(a.id, a.view.status, a.since),
         l \in {"retire", "backref"} => a.new \in Skills(slog'),
         UNCHANGED <<outcome, events, verdict, round>>,
         u = Observer /\ round.d = 0 => l # "observe",
         u = Observer /\ round.d # 0 => l \in {"observe", "read", "mark"} /\ (l = "read" => a.op = "mark")
  PROVE  SkillInv'
<1>1. CallInv'
  BY OneClient DEF SkillInv
<1>2. LogInv' /\ OverlapInv' /\ Skills(slog) \subseteq Skills(slog')
  <2>1. CASE slog' = slog
    <3>1. Skills(slog') = Skills(slog) /\ LogInv /\ OverlapInv
      BY <2>1 DEF SkillInv
    <3>2. LogInv'
      BY <2>1, <3>1 DEF LogInv
    <3>3. OverlapInv'
      BY <2>1, <3>1 DEF OverlapInv, Says
    <3> QED
      BY <3>1, <3>2, <3>3
  <2>2. ASSUME NEW row, Fits(row), slog' = Append(slog, row),
               \/ row.base
               \/ "status" \notin DOMAIN row.set
               \/ row.set.status = "superseded"
               \/ \E s \in Alive : Seen(row.id, s, row.since)
        PROVE  LogInv' /\ OverlapInv' /\ Skills(slog) \subseteq Skills(slog')
    BY <2>2, Grown, OverlapsOnly DEF SkillInv
  <2> QED
    BY <2>1, <2>2
<1>3. upc'[u] = l /\ ask'[u] = a /\ \A w \in Clients \ {u} : upc'[w] = upc[w] /\ ask'[w] = ask[w]
  BY DEF SkillInv, CallInv
<1>4. RoundInv'
  <2>1. round.d # 0 => round # NoRound
    BY DEF NoRound
  <2>2. round.d = 0 => upc'[Observer] # "observe"
    BY <1>3, SkillAssumption DEF SkillInv, RoundInv
  <2>3. round.d # 0 => /\ upc'[Observer] \in {"observe", "read", "mark"}
                       /\ upc'[Observer] = "read" => ask'[Observer].op = "mark"
    BY <1>3, <2>1, SkillAssumption DEF SkillInv, RoundInv
  <2> QED
    BY <1>2, <2>2, <2>3, RoundKept DEF SkillInv
<1>5. EventInv'
  BY EventsKept DEF SkillInv
<1> QED
  BY <1>1, <1>2, <1>4, <1>5 DEF SkillInv

(* What is known of a client that is somewhere.                               *)
LEMMA AskIs ==
  ASSUME SkillInv, NEW u \in Clients
  PROVE  /\ ask[u] \in AskType /\ upc[u] \in Labels
         /\ ask[u].id \in Nat /\ ask[u].since \in Nat /\ ask[u].new \in Nat /\ ask[u].win \in BOOLEAN
         /\ Len(slog) \in Nat /\ Skills(slog) \subseteq Nat
<1>1. ask[u] \in AskType /\ upc[u] \in Labels
  BY DEF SkillInv, CallInv
<1>2. Len(slog) \in Nat /\ Skills(slog) \subseteq Nat
  BY LenProperties DEF SkillInv, LogInv
<1> QED
  BY <1>1, <1>2 DEF AskType

(* The observer is not in a round while it is in a call of its own.           *)
LEMMA NotInRound ==
  ASSUME SkillInv, upc[Observer] \notin {"observe", "read", "mark"}
  PROVE  round.d = 0 /\ round = NoRound
BY DEF SkillInv, RoundInv, NoRound

LEMMA RecordSkillKeeps ==
  ASSUME SkillInv, NEW u \in Clients, RecordSkill(u)
  PROVE  SkillInv'
<1>1. PICK keep \in BOOLEAN : slog' = Append(slog, NewSkill(keep, Len(slog)))
  BY DEF RecordSkill
<1>2. Fits(NewSkill(keep, Len(slog))) /\ NewSkill(keep, Len(slog)).base
  BY AskIs, NewSkillFits DEF SkillInv
<1>3. /\ upc[u] = "idle" /\ upc' = [upc EXCEPT ![u] = upc[u]] /\ ask' = [ask EXCEPT ![u] = ask[u]]
      /\ UNCHANGED <<outcome, events, verdict, round>>
  BY DEF RecordSkill, SkillInv, CallInv
<1>4. ask[u] \in AskType /\ "idle" \in Labels
  BY AskIs DEF Labels
<1>5. u = Observer => round.d = 0
  BY <1>3, NotInRound
<1> QED
  BY <1>1, <1>2, <1>3, <1>4, <1>5, ClientStep

LEMMA BeginKeeps ==
  ASSUME SkillInv, NEW u \in Clients, NEW a \in AskType,
         StartCall(u, a), upc' = [upc EXCEPT ![u] = "read"],
         a.op \in {"mark", "supersede"}, a.id \in Skills(slog), a.since = Len(slog)
  PROVE  SkillInv'
<1>1. /\ upc[u] = "idle" /\ ask' = [ask EXCEPT ![u] = a] /\ slog' = slog
      /\ UNCHANGED <<outcome, events, verdict, round>>
  BY DEF StartCall
<1>2. u = Observer => round.d = 0
  BY <1>1, NotInRound
<1>3. "read" \in Labels /\ Len(slog) \in Nat
  BY AskIs DEF Labels
<1>4. a.since <= Len(slog)
  BY <1>3
<1>5. "read" # "mark" /\ "read" # "observe" /\ "read" \notin {"retire", "backref"}
  OBVIOUS
<1> QED
  BY <1>1, <1>2, <1>3, <1>4, <1>5, ClientStep

LEMMA BeginMarkKeeps ==
  ASSUME SkillInv, NEW u \in Clients, BeginMark(u)
  PROVE  SkillInv'
<1>1. PICK id \in Skills(slog), win \in BOOLEAN :
        StartCall(u, [NoAsk EXCEPT !.op = "mark", !.id = id, !.win = win, !.since = Len(slog)])
  BY DEF BeginMark
<1> DEFINE a == [NoAsk EXCEPT !.op = "mark", !.id = id, !.win = win, !.since = Len(slog)]
<1>2. id \in Nat /\ Len(slog) \in Nat
  BY AskIs
<1>3. a.op = "mark" /\ a.id = id /\ a.since = Len(slog) /\ a \in AskType
  BY <1>2 DEF NoAsk, AskType
<1>4. upc' = [upc EXCEPT ![u] = "read"]
  BY DEF BeginMark, SGoto
<1> HIDE DEF a
<1>5. StartCall(u, a)
  BY <1>1 DEF a
<1> QED
  BY <1>3, <1>4, <1>5, BeginKeeps

LEMMA BeginSupersedeKeeps ==
  ASSUME SkillInv, NEW u \in Clients, BeginSupersede(u)
  PROVE  SkillInv'
<1>1. PICK id \in Skills(slog) :
        StartCall(u, [NoAsk EXCEPT !.op = "supersede", !.id = id, !.since = Len(slog)])
  BY DEF BeginSupersede
<1> DEFINE a == [NoAsk EXCEPT !.op = "supersede", !.id = id, !.since = Len(slog)]
<1>2. id \in Nat /\ Len(slog) \in Nat
  BY AskIs
<1>3. a.op = "supersede" /\ a.id = id /\ a.since = Len(slog) /\ a \in AskType
  BY <1>2 DEF NoAsk, AskType
<1>4. upc' = [upc EXCEPT ![u] = "read"]
  BY DEF BeginSupersede, SGoto
<1> HIDE DEF a
<1>5. StartCall(u, a)
  BY <1>1 DEF a
<1> QED
  BY <1>3, <1>4, <1>5, BeginKeeps

LEMMA ReadSkillKeeps ==
  ASSUME SkillInv, NEW u \in Clients, ReadSkill(u)
  PROVE  SkillInv'
<1> DEFINE id == ask[u].id
           a == [ask[u] EXCEPT !.view = View(slog, id)]
<1>1. upc[u] = "read" /\ id \in Skills(slog) /\ ask[u].since <= Len(slog) /\ ask[u].op \in {"mark", "supersede"}
  BY DEF ReadSkill, SkillInv, CallInv
<1>2. View(slog, id) \in BaseSet /\ Seen(id, View(slog, id).status, ask[u].since)
  BY <1>1, AskIs, ViewIsSeen DEF SkillInv
<1>3. /\ a \in AskType /\ a.id = id /\ a.since = ask[u].since /\ a.op = ask[u].op
      /\ a.view = View(slog, id)
  BY <1>2, AskIs DEF AskType
<1>4. /\ upc' = [upc EXCEPT ![u] = ask[u].op] /\ ask' = [ask EXCEPT ![u] = a] /\ slog' = slog
      /\ UNCHANGED <<outcome, events, verdict, round>>
  <2>1. [ask EXCEPT ![u].view = View(slog, ask[u].id)] = [ask EXCEPT ![u] = a]
    BY DEF SkillInv, CallInv
  <2> QED
    BY <2>1 DEF ReadSkill, SGoto
<1>5. u = Observer /\ round.d # 0 => ask[u].op = "mark"
  BY <1>1 DEF SkillInv, RoundInv, NoRound
<1>6. ask[u].op \in Labels
  BY <1>1 DEF Labels
<1> HIDE DEF a, id
<1> QED
  BY <1>1, <1>2, <1>3, <1>4, <1>5, <1>6, ClientStep

(* A mark that leaves a skill alive had seen it alive.                        *)
LEMMA MarkedIs ==
  ASSUME NEW view \in BaseSet, NEW win \in BOOLEAN
  PROVE  /\ Marked(view, win) \in SetType
         /\ \/ Marked(view, win).status = "superseded"
            \/ view.status \in Alive
<1>1. view.status \in Stati /\ view.consec \in Nat
  BY DEF BaseSet
<1>2. view.status = "superseded" \/ view.status \in Alive
  BY <1>1 DEF Stati, Alive
<1>3. CASE win
  <2> DEFINE st == IF view.status = "archived" THEN "active" ELSE view.status
  <2>1. Marked(view, win) = [consec |-> 0, status |-> st]
    BY <1>3 DEF Marked
  <2>2. st \in Stati /\ (view.status = "superseded" => st = "superseded")
    BY <1>1 DEF Stati
  <2> HIDE DEF st
  <2>3. Marked(view, win) \in [status : Stati, consec : Nat] /\ Marked(view, win).status = st
    BY <2>1, <2>2
  <2> QED
    BY <1>2, <2>2, <2>3 DEF SetType
<1>4. CASE ~win
  <2> DEFINE st == IF /\ view.status = "active" /\ ~view.keep
                      /\ view.consec + 1 >= MaxFailures
                   THEN "archived" ELSE view.status
  <2>1. Marked(view, win) = [consec |-> view.consec + 1, status |-> st]
    BY <1>4 DEF Marked
  <2>2. st \in Stati /\ (view.status = "superseded" => st = "superseded")
    BY <1>1 DEF Stati
  <2> HIDE DEF st
  <2>3. Marked(view, win) \in [status : Stati, consec : Nat] /\ Marked(view, win).status = st
    BY <1>1, <2>1, <2>2
  <2> QED
    BY <1>2, <2>2, <2>3 DEF SetType
<1> QED
  BY <1>3, <1>4

LEMMA MarkUsedKeeps ==
  ASSUME SkillInv, NEW u \in Clients, MarkUsed(u)
  PROVE  SkillInv'
<1> DEFINE id == ask[u].id
           since == ask[u].since
           set == Marked(ask[u].view, ask[u].win)
           row == Row(id, FALSE, set, since)
           l == IF u = Observer /\ round.d # 0 THEN "observe" ELSE "idle"
<1>1. /\ upc[u] = "mark" /\ id \in Skills(slog) /\ since \in Nat /\ since <= Len(slog)
      /\ ask[u].view \in BaseSet /\ Seen(id, ask[u].view.status, since) /\ ask[u].win \in BOOLEAN
  BY AskIs DEF MarkUsed, SkillInv, CallInv
<1>2. /\ set \in SetType
      /\ set.status = "superseded" \/ ask[u].view.status \in Alive
  BY <1>1, MarkedIs
<1>3. slog' = Append(slog, row) /\ UNCHANGED <<outcome, events, verdict, round>>
  BY DEF MarkUsed
<1>4. upc' = [upc EXCEPT ![u] = l] /\ ask' = [ask EXCEPT ![u] = NoAsk]
  BY DEF MarkUsed, EndCall, SGoto
<1>5. l \in Labels /\ l \notin {"read", "mark", "supersede", "retire", "backref"}
      /\ (u = Observer /\ round.d = 0 => l # "observe")
      /\ (u = Observer /\ round.d # 0 => l = "observe")
  BY DEF Labels
<1> HIDE DEF set
<1>6. row.id = id /\ row.set = set /\ row.since = since
  BY DEF Row
<1> HIDE DEF row, l, id, since
<1>7. Fits(row)
  BY <1>1, <1>2, ChangeFits DEF SkillInv, row
<1>8. row.set.status = "superseded" \/ \E s \in Alive : Seen(row.id, s, row.since)
  BY <1>1, <1>2, <1>6
<1> QED
  BY <1>3, <1>4, <1>5, <1>7, <1>8, NoAskIsTyped, ClientStep

LEMMA SupersedeRecordKeeps ==
  ASSUME SkillInv, NEW u \in Clients, SupersedeRecord(u)
  PROVE  SkillInv'
<1> DEFINE row == NewSkill(FALSE, ask[u].since)
           a == [ask[u] EXCEPT !.new = Cardinality(Skills(slog)) + 1]
<1>1. /\ upc[u] = "supersede" /\ ask[u].id \in Skills(slog)
      /\ ask[u].since \in Nat /\ ask[u].since <= Len(slog)
  BY AskIs DEF SupersedeRecord, SkillInv, CallInv
<1>2. Fits(row) /\ row.base /\ row.id = Cardinality(Skills(slog)) + 1
  BY <1>1, NewSkillFits DEF SkillInv
<1>3. slog' = Append(slog, row) /\ upc' = [upc EXCEPT ![u] = "retire"]
      /\ UNCHANGED <<outcome, events, verdict, round>>
  BY DEF SupersedeRecord, SGoto
<1>4. ask' = [ask EXCEPT ![u] = a]
  BY DEF SupersedeRecord, SkillInv, CallInv
<1> HIDE DEF row
<1>5. Cardinality(Skills(slog)) + 1 \in Nat /\ Cardinality(Skills(slog)) + 1 \in Skills(slog')
  <2>1. row.id \in Nat
    BY <1>2 DEF Fits, RowType
  <2>2. row.id \in Skills(slog')
    BY <1>2, <1>3, Grown DEF SkillInv
  <2> QED
    BY <1>2, <2>1, <2>2
<1>6. a \in AskType /\ a.id = ask[u].id /\ a.since = ask[u].since
      /\ a.new = Cardinality(Skills(slog)) + 1
  BY <1>5, AskIs DEF AskType
<1>7. u = Observer => round.d = 0
  BY <1>1, NotInRound
<1>8. "retire" \in Labels /\ "retire" \notin {"read", "mark", "observe"}
  BY DEF Labels
<1> HIDE DEF a
<1> QED
  BY <1>1, <1>2, <1>3, <1>4, <1>5, <1>6, <1>7, <1>8, ClientStep

LEMMA SupersedeRetireKeeps ==
  ASSUME SkillInv, NEW u \in Clients, SupersedeRetire(u)
  PROVE  SkillInv'
<1> DEFINE set == [status |-> "superseded", next |-> ask[u].new]
           row == Row(ask[u].id, FALSE, set, ask[u].since)
<1>1. /\ upc[u] = "retire" /\ ask[u].id \in Skills(slog) /\ ask[u].new \in Skills(slog)
      /\ ask[u].since \in Nat /\ ask[u].since <= Len(slog) /\ ask[u].new \in Nat
      /\ ask[u] \in AskType
  BY AskIs DEF SupersedeRetire, SkillInv, CallInv
<1>2. set \in SetType /\ set.status = "superseded"
  BY <1>1 DEF SetType, Stati
<1>3. /\ slog' = Append(slog, row) /\ upc' = [upc EXCEPT ![u] = "backref"]
      /\ ask' = [ask EXCEPT ![u] = ask[u]]
      /\ UNCHANGED <<outcome, events, verdict, round>>
  BY DEF SupersedeRetire, SGoto, SkillInv, CallInv
<1> HIDE DEF set
<1>4. row.set = set
  BY DEF Row
<1> HIDE DEF row
<1>5. Fits(row)
  BY <1>1, <1>2, ChangeFits DEF SkillInv, row
<1>6. u = Observer => round.d = 0
  BY <1>1, NotInRound
<1>7. "backref" \in Labels /\ "backref" \notin {"read", "mark", "observe"}
  BY DEF Labels
<1>8. ask[u].new \in Skills(slog')
  BY <1>1, <1>3, <1>5, Grown DEF SkillInv
<1> QED
  BY <1>1, <1>2, <1>3, <1>4, <1>5, <1>6, <1>7, <1>8, ClientStep

LEMMA SupersedeBackrefKeeps ==
  ASSUME SkillInv, NEW u \in Clients, SupersedeBackref(u)
  PROVE  SkillInv'
<1> DEFINE set == [supersedes |-> ask[u].id]
           row == Row(ask[u].new, FALSE, set, ask[u].since)
<1>1. /\ upc[u] = "backref" /\ ask[u].id \in Nat /\ ask[u].new \in Skills(slog)
      /\ ask[u].since \in Nat
  BY AskIs DEF SupersedeBackref, SkillInv, CallInv
<1>2. set \in SetType /\ "status" \notin DOMAIN set
  BY <1>1 DEF SetType
<1>3. /\ slog' = Append(slog, row) /\ upc' = [upc EXCEPT ![u] = "idle"]
      /\ ask' = [ask EXCEPT ![u] = NoAsk]
      /\ UNCHANGED <<outcome, events, verdict, round>>
  BY DEF SupersedeBackref, EndCall, SGoto
<1> HIDE DEF set
<1>4. row.set = set
  BY DEF Row
<1> HIDE DEF row
<1>5. Fits(row)
  BY <1>1, <1>2, ChangeFits DEF SkillInv, row
<1>6. u = Observer => round.d = 0
  BY <1>1, NotInRound
<1>7. "idle" \in Labels
      /\ "idle" \notin {"read", "mark", "supersede", "retire", "backref", "observe"}
  BY DEF Labels
<1> QED
  BY <1>2, <1>3, <1>4, <1>5, <1>6, <1>7, NoAskIsTyped, ClientStep

(* A step that writes no row.                                                 *)
LEMMA NoRow ==
  ASSUME SkillInv, slog' = slog
  PROVE  LogInv' /\ OverlapInv' /\ Skills(slog') = Skills(slog)
BY DEF SkillInv, LogInv, OverlapInv, Says

LEMMA NoCall ==
  ASSUME SkillInv, slog' = slog, upc' = upc, ask' = ask
  PROVE  CallInv'
<1>1. \A u \in Clients : Seen(ask[u].id, ask[u].view.status, ask[u].since)
                       => Seen(ask[u].id, ask[u].view.status, ask[u].since)'
  BY DEF Seen, Says
<1> QED
  BY <1>1 DEF SkillInv, CallInv

LEMMA BeginObserveKeeps ==
  ASSUME SkillInv, BeginObserve
  PROVE  SkillInv'
<1>1. /\ upc[Observer] = "idle" /\ slog' = slog /\ upc' = [upc EXCEPT ![Observer] = "observe"]
      /\ ask' = [ask EXCEPT ![Observer] = ask[Observer]]
      /\ round' = At(1, outcome, <<>>) /\ UNCHANGED <<outcome, events, verdict>>
  BY DEF BeginObserve, SGoto, SkillInv, CallInv
<1>2. round = NoRound
  BY <1>1, NotInRound
<1>3. Len(Sessions) \in Nat /\ 1 \in 1 .. Len(Sessions) + 1
  BY LenProperties, SkillAssumption
<1> DEFINE fresh == <<>>
           r == At(1, outcome, fresh)
<1>4. fresh \in Seq(EventType) /\ round.fresh = fresh
  BY <1>2 DEF NoRound
<1> HIDE DEF fresh
<1>5. /\ r \in RoundType /\ r.d = 1 /\ r.fresh = fresh /\ r.todo \subseteq Skills(slog)
      /\ 1 <= Len(Sessions) => r.v \in Outcomes /\ r.seen = outcome
  <2>1. LogInv /\ verdict \in [DOMAIN Sessions -> Outcomes]
        /\ outcome \in [DOMAIN Sessions -> Known]
    BY DEF SkillInv, EventInv
  <2> QED
    BY <1>3, <1>4, <2>1, AtIsTyped
<1> HIDE DEF r
<1>6. round' = r
  BY <1>1 DEF r, fresh
<1>7. LogInv' /\ OverlapInv' /\ Skills(slog') = Skills(slog)
  BY <1>1, NoRow
<1>8. upc'[Observer] = "observe"
  BY <1>1, SkillAssumption DEF SkillInv, CallInv
<1>9. CallInv'
  <2>1. ask[Observer] \in AskType /\ "observe" \in Labels /\ Observer \in Clients
    BY AskIs, SkillAssumption DEF Labels
  <2>2. "observe" \notin {"read", "mark", "supersede", "retire", "backref"}
    OBVIOUS
  <2> QED
    BY <1>1, <2>1, <2>2, OneClient DEF SkillInv
<1>10. RoundInv'
  BY <1>3, <1>5, <1>6, <1>7, <1>8 DEF RoundInv, SkillInv, EventInv
<1>11. EventInv'
  BY <1>1, <1>4, <1>5, <1>6, EventsKept DEF SkillInv
<1> QED
  BY <1>7, <1>9, <1>10, <1>11 DEF SkillInv

LEMMA MarkNextKeeps ==
  ASSUME SkillInv, MarkNext
  PROVE  SkillInv'
<1>1. PICK id \in round.todo :
        /\ ask' = [ask EXCEPT ![Observer] =
                     [NoAsk EXCEPT !.op = "mark", !.id = id, !.win = round.v = "kept",
                                   !.since = Len(slog)]]
        /\ round' = [round EXCEPT !.todo = @ \ {id}]
  BY DEF MarkNext
<1> DEFINE a == [NoAsk EXCEPT !.op = "mark", !.id = id, !.win = round.v = "kept",
                              !.since = Len(slog)]
<1>2. id \in Skills(slog) /\ Observer \in Clients
  BY SkillAssumption DEF SkillInv, RoundInv
<1>3. id \in Nat /\ Len(slog) \in Nat
  BY <1>2, AskIs
<1>4. a.op = "mark" /\ a.id = id /\ a.since = Len(slog) /\ a \in AskType
  BY <1>3 DEF NoAsk, AskType
<1> HIDE DEF a
<1>5. /\ upc[Observer] = "observe" /\ upc' = [upc EXCEPT ![Observer] = "read"]
      /\ ask' = [ask EXCEPT ![Observer] = a]
      /\ slog' = slog /\ UNCHANGED <<outcome, events, verdict>>
  BY <1>1 DEF MarkNext, SGoto, a
<1>6. LogInv' /\ OverlapInv' /\ Skills(slog') = Skills(slog)
  BY <1>5, NoRow
<1>7. CallInv'
  <2>1. "read" \in Labels /\ "read" # "mark" /\ "read" \notin {"retire", "backref"}
    BY DEF Labels
  <2>2. a.since <= Len(slog)
    BY <1>3, <1>4
  <2> QED
    BY <1>2, <1>4, <1>5, <2>1, <2>2, OneClient DEF SkillInv
<1>8. upc'[Observer] = "read" /\ ask'[Observer].op = "mark"
  BY <1>2, <1>4, <1>5 DEF SkillInv, CallInv
<1>9. /\ round \in RoundType /\ round.todo \subseteq Skills(slog)
      /\ round.d \in 1 .. Len(Sessions) + 1
      /\ round.d <= Len(Sessions) =>
           round.v \in Outcomes /\ round.seen \in [DOMAIN Sessions -> Known]
  BY <1>5 DEF SkillInv, RoundInv
<1>10. /\ round' \in RoundType /\ round'.todo \subseteq Skills(slog)
       /\ round'.d = round.d /\ round'.v = round.v /\ round'.seen = round.seen
       /\ round'.fresh = round.fresh
  BY <1>1, <1>9 DEF RoundType
<1>11. RoundInv'
  BY <1>6, <1>8, <1>9, <1>10 DEF RoundInv
<1>12. EventInv'
  BY <1>5, <1>10, EventsKept DEF SkillInv
<1> QED
  BY <1>6, <1>7, <1>11, <1>12 DEF SkillInv

(* The outcome is amended, and its event joins those in hand.                 *)
LEMMA SettleKeeps ==
  ASSUME SkillInv, Settle
  PROVE  SkillInv'
<1> DEFINE new == round.seen[round.d] # round.v
           e == <<round.d, round.v>>
           fresh == IF new THEN Append(round.fresh, e) ELSE round.fresh
           r == At(round.d + 1, round.seen, fresh)
<1>1. /\ upc[Observer] = "observe" /\ round.d <= Len(Sessions)
      /\ outcome' = IF new THEN [outcome EXCEPT ![round.d] = round.v] ELSE outcome
      /\ round' = r
      /\ slog' = slog /\ upc' = upc /\ ask' = ask /\ events' = events /\ verdict' = verdict
  BY DEF Settle
<1>2. /\ round.d \in 1 .. Len(Sessions) + 1 /\ round.v \in Outcomes
      /\ round.seen \in [DOMAIN Sessions -> Known] /\ round.fresh \in Seq(EventType)
  BY <1>1 DEF SkillInv, RoundInv, RoundType
<1>3. Len(Sessions) \in Nat /\ DOMAIN Sessions = 1 .. Len(Sessions)
  BY LenProperties, SkillAssumption
<1>4. /\ round.d \in DOMAIN Sessions /\ round.d + 1 \in 1 .. Len(Sessions) + 1
      /\ e \in EventType /\ e[1] = round.d /\ e[2] = round.v
  BY <1>1, <1>2, <1>3 DEF EventType
<1>5. events \in Seq(EventType) /\ verdict \in [DOMAIN Sessions -> Outcomes]
      /\ outcome \in [DOMAIN Sessions -> Known]
      /\ \A d \in DOMAIN Sessions : outcome[d] = LastOf(events \o round.fresh, d)
  BY DEF SkillInv, EventInv
<1> HIDE DEF e, new
<1>6. fresh \in Seq(EventType)
  BY <1>2, <1>4, AppendProperties
<1>7. \A d \in DOMAIN Sessions : outcome'[d] = LastOf(events \o fresh, d)
  <2>1. CASE new
    <3> DEFINE old == events \o round.fresh
    <3>1. events \o fresh = Append(old, e)
      <4>1. fresh = round.fresh \o <<e>>
        BY <1>2, <1>4, <2>1, AppendIsConcat
      <4>2. old \in Seq(EventType)
        BY <1>2, <1>5, ConcatProperties
      <4>3. Append(old, e) = old \o <<e>>
        BY <1>4, <4>2, AppendIsConcat
      <4>4. events \o (round.fresh \o <<e>>) = old \o <<e>>
        <5> DEFINE s == <<e>>
                   f == round.fresh
        <5>1. s \in Seq(EventType) /\ f \in Seq(EventType) /\ events \in Seq(EventType)
          BY <1>2, <1>4, <1>5
        <5> HIDE DEF s, f
        <5>2. (events \o f) \o s = events \o (f \o s)
          BY <5>1, ConcatAssociative, SMTT(20)
        <5> QED
          BY <5>2 DEF s, f
      <4> QED
        BY <4>1, <4>3, <4>4
    <3>2. old \in Seq(EventType)
      BY <1>2, <1>5, ConcatProperties
    <3>3. ASSUME NEW d \in DOMAIN Sessions
          PROVE  outcome'[d] = LastOf(events \o fresh, d)
      <4>1. outcome[d] = LastOf(old, d)
        BY <1>5
      <4> HIDE DEF old
      <4>2. LastOf(Append(old, e), d) = IF e[1] = d THEN e[2] ELSE LastOf(old, d)
        BY <1>4, <3>2, LastAfter
      <4>3. outcome'[d] = IF e[1] = d THEN e[2] ELSE outcome[d]
        BY <1>1, <1>4, <1>5, <2>1
      <4> QED
        BY <3>1, <4>1, <4>2, <4>3
    <3> QED
      BY <3>3
  <2>2. CASE ~new
    BY <1>1, <1>5, <2>2
  <2> QED
    BY <2>1, <2>2
<1>8. outcome' \in [DOMAIN Sessions -> Known]
  BY <1>1, <1>2, <1>5 DEF Known
<1> HIDE DEF fresh
<1>9. /\ r \in RoundType /\ r.d = round.d + 1 /\ r.fresh = fresh /\ r.todo \subseteq Skills(slog)
      /\ round.d + 1 <= Len(Sessions) => r.v \in Outcomes /\ r.seen = round.seen
  <2>1. LogInv /\ round.d + 1 \in 1 .. Len(Sessions) + 1
    BY <1>4 DEF SkillInv
  <2>2. /\ At(round.d + 1, round.seen, fresh) \in RoundType
        /\ At(round.d + 1, round.seen, fresh).d = round.d + 1
        /\ At(round.d + 1, round.seen, fresh).fresh = fresh
        /\ At(round.d + 1, round.seen, fresh).todo \subseteq Skills(slog)
        /\ round.d + 1 <= Len(Sessions)
             => /\ At(round.d + 1, round.seen, fresh).v \in Outcomes
                /\ At(round.d + 1, round.seen, fresh).seen = round.seen
    <3> DEFINE d == round.d + 1
               seen == round.seen
    <3>1. /\ d \in 1 .. Len(Sessions) + 1 /\ seen \in [DOMAIN Sessions -> Known]
          /\ verdict \in [DOMAIN Sessions -> Outcomes] /\ LogInv
      BY <1>2, <1>5, <2>1
    <3> HIDE DEF d, seen
    <3>2. /\ At(d, seen, fresh) \in RoundType
          /\ At(d, seen, fresh).d = d /\ At(d, seen, fresh).fresh = fresh
          /\ At(d, seen, fresh).todo \subseteq Skills(slog)
          /\ d <= Len(Sessions) => At(d, seen, fresh).v \in Outcomes /\ At(d, seen, fresh).seen = seen
      BY <1>6, <3>1, AtIsTyped
    <3> QED
      BY <3>2 DEF d, seen
  <2> QED
    BY <2>2
<1> HIDE DEF r
<1>10. LogInv' /\ OverlapInv' /\ Skills(slog') = Skills(slog) /\ CallInv'
  BY <1>1, NoRow, NoCall
<1>11. RoundInv'
  BY <1>1, <1>2, <1>4, <1>9, <1>10 DEF RoundInv
<1>12. EventInv'
  BY <1>1, <1>5, <1>7, <1>8, <1>9 DEF EventInv
<1> QED
  BY <1>10, <1>11, <1>12 DEF SkillInv

(* The events in hand reach the file.                                         *)
LEMMA AppendEventsKeeps ==
  ASSUME SkillInv, AppendEvents
  PROVE  SkillInv'
<1>1. /\ upc[Observer] = "observe" /\ events' = events \o round.fresh /\ round' = NoRound
      /\ upc' = [upc EXCEPT ![Observer] = "idle"] /\ slog' = slog
      /\ ask' = [ask EXCEPT ![Observer] = ask[Observer]]
      /\ UNCHANGED <<outcome, verdict>>
  BY DEF AppendEvents, SGoto, SkillInv, CallInv
<1>2. LogInv' /\ OverlapInv' /\ Skills(slog') = Skills(slog)
  BY <1>1, NoRow
<1>3. CallInv'
  <2>1. ask[Observer] \in AskType /\ "idle" \in Labels /\ Observer \in Clients
    BY AskIs, SkillAssumption DEF Labels
  <2>2. "idle" \notin {"read", "mark", "supersede", "retire", "backref"}
    OBVIOUS
  <2> QED
    BY <1>1, <2>1, <2>2, OneClient DEF SkillInv
<1>4. RoundInv'
  <2>1. upc'[Observer] = "idle"
    BY <1>1, SkillAssumption DEF SkillInv, CallInv
  <2>2. round.d \in Nat /\ NoRound \in RoundType /\ NoRound.todo = {}
    <3>1. <<>> \in Seq(EventType)
      OBVIOUS
    <3> QED
      BY <3>1 DEF NoRound, RoundType, SkillInv, RoundInv, Known
  <2> QED
    BY <1>1, <2>1, <2>2 DEF RoundInv
<1>5. EventInv'
  <2>1. events \in Seq(EventType) /\ round.fresh \in Seq(EventType)
    BY DEF SkillInv, EventInv, RoundInv, RoundType
  <2>2. events' \in Seq(EventType)
    BY <1>1, <2>1, ConcatProperties
  <2>3. events' \o round'.fresh = events \o round.fresh
    BY <1>1, <2>2, ConcatEmptySeq DEF NoRound
  <2> QED
    BY <1>1, <2>2, <2>3 DEF SkillInv, EventInv
<1> QED
  BY <1>2, <1>3, <1>4, <1>5 DEF SkillInv

LEMMA MoveHeadKeeps ==
  ASSUME SkillInv, MoveHead
  PROVE  SkillInv'
<1>1. /\ UNCHANGED <<slog, outcome, events, upc, ask, round>>
      /\ \E d \in DOMAIN Sessions, v \in Outcomes : verdict' = [verdict EXCEPT ![d] = v]
  BY DEF MoveHead
<1>2. verdict' \in [DOMAIN Sessions -> Outcomes]
  BY <1>1 DEF SkillInv, EventInv
<1>3. LogInv' /\ OverlapInv' /\ Skills(slog') = Skills(slog) /\ CallInv'
  BY <1>1, NoRow, NoCall
<1>4. RoundInv' /\ EventInv'
  BY <1>1, <1>2, <1>3 DEF SkillInv, RoundInv, EventInv
<1> QED
  BY <1>3, <1>4 DEF SkillInv

LEMMA StutterKeeps ==
  ASSUME SkillInv, UNCHANGED skvars
  PROVE  SkillInv'
<1>1. UNCHANGED <<slog, outcome, events, verdict, upc, ask, round>>
  BY DEF skvars
<1>2. LogInv' /\ OverlapInv' /\ Skills(slog') = Skills(slog) /\ CallInv'
  BY <1>1, NoRow, NoCall
<1>3. RoundInv' /\ EventInv'
  BY <1>1, <1>2 DEF SkillInv, RoundInv, EventInv
<1> QED
  BY <1>2, <1>3 DEF SkillInv

LEMMA SkillInit ==
  ASSUME SInit
  PROVE  SkillInv
<1>1. /\ slog = <<>> /\ events = <<>> /\ outcome = [d \in DOMAIN Sessions |-> "none"]
      /\ verdict \in [DOMAIN Sessions -> Outcomes]
      /\ upc = [u \in Clients |-> "idle"] /\ ask = [u \in Clients |-> NoAsk] /\ round = NoRound
  BY DEF SInit
<1>2. DOMAIN slog = {}
  BY <1>1
<1>3. Skills(slog) = {} /\ Skills(slog) = 1 .. 0
  BY <1>2 DEF Skills
<1>4. LogInv
  <2>1. slog \in Seq(RowType)
    BY <1>1
  <2> QED
    BY <1>2, <1>3, <2>1 DEF LogInv
<1>5. OverlapInv
  BY <1>2 DEF OverlapInv
<1>6. CallInv
  <2>1. "idle" \in Labels
        /\ "idle" \notin {"read", "mark", "supersede", "retire", "backref"}
    BY DEF Labels
  <2> QED
    BY <1>1, <2>1, NoAskIsTyped DEF CallInv
<1>7. RoundInv
  <2>1. NoRound \in RoundType /\ NoRound.todo = {}
    <3>1. <<>> \in Seq(EventType)
      OBVIOUS
    <3> QED
      BY <3>1 DEF NoRound, RoundType, Known
  <2> QED
    BY <1>1, <2>1, SkillAssumption DEF RoundInv
<1>8. EventInv
  <2>1. events \in Seq(EventType) /\ events \o round.fresh = <<>>
    BY <1>1 DEF NoRound
  <2>2. \A d : LastOf(<<>>, d) = "none"
    BY DEF LastOf
  <2> QED
    BY <1>1, <2>1, <2>2 DEF EventInv, Known
<1> QED
  BY <1>4, <1>5, <1>6, <1>7, <1>8 DEF SkillInv

LEMMA SkillStep ==
  ASSUME SkillInv, [SNext]_skvars
  PROVE  SkillInv'
<1>1. CASE BeginObserve
  BY <1>1, BeginObserveKeeps
<1>2. CASE MarkNext
  BY <1>2, MarkNextKeeps
<1>3. CASE Settle
  BY <1>3, SettleKeeps
<1>4. CASE AppendEvents
  BY <1>4, AppendEventsKeeps
<1>5. CASE MoveHead
  BY <1>5, MoveHeadKeeps
<1>6. ASSUME NEW u \in Clients,
             \/ RecordSkill(u) \/ BeginMark(u) \/ BeginSupersede(u) \/ ReadSkill(u) \/ MarkUsed(u)
             \/ SupersedeRecord(u) \/ SupersedeRetire(u) \/ SupersedeBackref(u)
      PROVE  SkillInv'
  BY <1>6, RecordSkillKeeps, BeginMarkKeeps, BeginSupersedeKeeps, ReadSkillKeeps, MarkUsedKeeps,
     SupersedeRecordKeeps, SupersedeRetireKeeps, SupersedeBackrefKeeps
<1>7. CASE UNCHANGED skvars
  BY <1>7, StutterKeeps
<1> QED
  BY <1>1, <1>2, <1>3, <1>4, <1>5, <1>6, <1>7 DEF SNext

(* The invariant, of any number of clients, calls and moves of HEAD.          *)
THEOREM SkillInvHolds == SSpec => []SkillInv
<1>1. SInit => SkillInv
  BY SkillInit
<1>2. SkillInv /\ [SNext]_skvars => SkillInv'
  BY SkillStep
<1> QED
  BY <1>1, <1>2, PTL DEF SSpec

-----------------------------------------------------------------------------
(* The properties.                                                            *)

(* A skill that was superseded comes back only by the row of a call that had  *)
(* begun before: after the first of them, of course, a call that begins sees *)
(* it alive.  mark_used may thus undo a supersession it raced with, and       *)
(* nothing else may.                                                         *)
THEOREM OnlyOverlaps == SSpec => []OnlyOverlapsRevive
<1>1. ASSUME LogInv, OverlapInv
      PROVE  OnlyOverlapsRevive
  <2> DEFINE says(i) == IF "status" \in DOMAIN slog[i].set THEN slog[i].set.status ELSE "silent"
             back(k) == {i \in k + 1 .. Len(slog) :
                           slog[i].id = slog[k].id /\ says(i) \in {"active", "archived"}}
  <2>1. \A i : says(i) = Says(i)
    BY DEF Says
  <2>2. DOMAIN slog = 1 .. Len(slog) /\ Len(slog) \in Nat
    BY <1>1, LenProperties DEF LogInv
  <2>3. ASSUME NEW k \in DOMAIN slog, says(k) = "superseded", back(k) # {}
        PROVE  slog[Min(back(k))].since < k
    <3>1. back(k) \subseteq Nat
      BY <2>2
    <3>2. Min(back(k)) \in back(k) /\ \A y \in back(k) : Min(back(k)) <= y
      <4> HIDE DEF back
      <4> QED
        BY <2>3, <3>1, LeastOf DEF Min
    <3> DEFINE i == Min(back(k))
    <3>3. i \in DOMAIN slog /\ k < i /\ slog[i].id = slog[k].id /\ Says(i) \in Alive
      <4>1. \A j \in back(k) : /\ j \in DOMAIN slog /\ k < j /\ slog[j].id = slog[k].id
                              /\ says(j) \in Alive
        BY <2>2 DEF Alive
      <4> HIDE DEF back, says
      <4> QED
        BY <2>1, <3>2, <4>1
    <3>4. \A m \in k + 1 .. i - 1 : m \notin back(k) /\ m \in k + 1 .. Len(slog)
      <4>1. i \in back(k) /\ \A y \in back(k) : i <= y
        BY <3>2
      <4> HIDE DEF i, back
      <4>2. i \in Nat /\ k \in Nat /\ i <= Len(slog)
        BY <2>2, <3>3
      <4>3. \A m \in k + 1 .. i - 1 : ~(i <= m) /\ m \in k + 1 .. Len(slog)
        BY <2>2, <4>2
      <4> QED
        BY <4>1, <4>3
    <3>5. \A m \in k + 1 .. i - 1 : ~(slog[m].id = slog[k].id /\ Says(m) \in Alive)
      BY <2>1, <3>4 DEF Alive
    <3>6. Says(k) = "superseded"
      BY <2>1, <2>3
    <3> HIDE DEF back, i
    <3> QED
      BY <1>1, <3>3, <3>5, <3>6 DEF OverlapInv, i
  <2> QED
    BY <2>3 DEF OnlyOverlapsRevive
<1>2. SkillInv => OnlyOverlapsRevive
  BY <1>1 DEF SkillInv
<1> QED
  BY <1>2, SkillInvHolds, PTL

(* Between two rounds of observe_all the file of events ends, for each        *)
(* decision, with the outcome that the decision file gives it.                *)
THEOREM EventsFollow == SSpec => []EventsFollowOutcomes
<1>1. ASSUME EventInv
      PROVE  EventsFollowOutcomes
  <2> SUFFICES ASSUME round = NoRound, NEW d \in DOMAIN Sessions
               PROVE  outcome[d] = LastOf(events, d)
    BY DEF EventsFollowOutcomes, LastOf
  <2>1. events \o round.fresh = events
    BY <1>1, ConcatEmptySeq DEF EventInv, NoRound
  <2> QED
    BY <1>1, <2>1 DEF EventInv
<1>2. SkillInv => EventsFollowOutcomes
  BY <1>1 DEF SkillInv
<1> QED
  BY <1>2, SkillInvHolds, PTL

-----------------------------------------------------------------------------
(* Decisions that say the same, and what queries show.                        *)

Wanted == UNION {{r.text : r \in Tasks[c]} : c \in Agents}
AllTexts ==
  {{}} \cup Wanted \cup {t \cup Prefix : t \in Wanted}
    \cup UNION {{seed[i].text : i \in DOMAIN seed} : seed \in Seeds}

DecisionType ==
  [text : AllTexts, dnr : BOOLEAN, out : BOOLEAN, reverted : BOOLEAN, next : Nat,
   touched : Nat, since : Nat]
Ops == {"none", "record", "supersede"} \cup Queries
TaskType ==
  [op : Ops, text : AllTexts, dnr : BOOLEAN, force : BOOLEAN, old : Nat, new : Nat, begun : Nat,
   found : SUBSET Nat, gone : SUBSET Nat, twins : SUBSET Nat, unsure : BOOLEAN]
Steps == {"idle", "check", "look", "record", "amend", "find", "fill", "reply"}

ToolsType ==
  /\ dec \in Seq(DecisionType) /\ moment \in Nat
  /\ step \in [Agents -> Steps] /\ task \in [Agents -> TaskType]

(* What a call of record_decision goes by: its twins are still as they were, or *)
(* were touched since; what it is to replace says the same, and no lock on it is *)
(* older than the call; and a call that goes to record beside them has a reason. *)
TwinsKept(c) ==
  LET j == task[c] IN
  /\ j.begun <= moment /\ j.twins \subseteq Ids
  /\ \A i \in j.twins :
       /\ Same(dec[i].text, j.text) /\ ~NegationDisagrees(dec[i].text, j.text)
       /\ (Standing(i) /\ ~dec[i].dnr) \/ dec[i].touched > j.begun

OldKept(c) ==
  LET j == task[c] IN
  /\ step[c] = "check" => j.old = 0
  /\ step[c] = "amend" => j.new # 0
  /\ step[c] \in {"look", "amend"} \/ (step[c] = "record" /\ j.old # 0) =>
       /\ j.old \in Ids
       /\ j.op = "record" =>
            /\ Same(dec[j.old].text, j.text)
            /\ dec[j.old].dnr => dec[j.old].since > j.begun
            /\ dec[j.old].next = 0 \/ dec[j.old].touched > j.begun

Excused(c) ==
  LET j == task[c] IN
  /\ step[c] = "record" /\ j.old = 0
  /\ j.text # {} /\ j.twins # {} /\ ~j.force /\ ~j.unsure
  /\ Cardinality(Matches(j.text)) <= Limit
  => \E i \in Ids : Same(dec[i].text, j.text) /\ dec[i].touched > j.begun

RecordInv(c) == TwinsKept(c) /\ OldKept(c) /\ Excused(c)

(* What was gone when a query began is gone, and not shown.                   *)
QueryInv(c) ==
  LET j == task[c] IN
  /\ j.gone \subseteq Ids
  /\ \A i \in j.gone : /\ dec[i].next # 0 \/ dec[i].out
                       /\ j.op = "timeline" => dec[i].next # 0
  /\ step[c] \in {"fill", "reply"} => j.found \subseteq Ids /\ j.found \cap j.gone = {}

ToolsInv == ToolsType /\ \A c \in Agents : RecordInv(c) /\ QueryInv(c)

(* What a step may do to the decisions there are.                             *)
Evolves ==
  /\ Ids \subseteq Ids' /\ moment' >= moment
  /\ \A i \in Ids :
       /\ dec'[i].text = dec[i].text
       /\ dec[i].next # 0 => dec'[i].next # 0
       /\ \/ /\ dec'[i].touched = dec[i].touched /\ dec'[i].next = dec[i].next
             /\ dec'[i].dnr = dec[i].dnr /\ dec'[i].out = dec[i].out
          \/ dec'[i].touched > moment
       /\ dec'[i].dnr => (dec[i].dnr /\ dec'[i].since = dec[i].since) \/ dec'[i].since > moment

LEMMA TextsFinite == ASSUME NEW t \in AllTexts PROVE IsFiniteSet(t)
<1>1. IsFiniteSet({}) /\ IsFiniteSet(Prefix)
  BY FS_EmptySet, ToolsAssumption
<1>2. \A x \in Wanted : IsFiniteSet(x)
  BY ToolsAssumption DEF Wanted
<1>3. \A x \in Wanted : IsFiniteSet(x \cup Prefix)
  BY <1>1, <1>2, FS_Union
<1>4. \A seed \in Seeds : \A i \in DOMAIN seed : IsFiniteSet(seed[i].text)
  BY ToolsAssumption
<1>5. CASE t \in {{}} \cup Wanted \cup {x \cup Prefix : x \in Wanted}
  BY <1>1, <1>2, <1>3, <1>5
<1>6. CASE t \in UNION {{seed[i].text : i \in DOMAIN seed} : seed \in Seeds}
  <2>1. PICK seed \in Seeds : t \in {seed[i].text : i \in DOMAIN seed}
    BY <1>6
  <2> QED BY <1>4, <2>1
<1> QED BY <1>5, <1>6 DEF AllTexts

(* A text of which at least three quarters are in another has a word of it.    *)
LEMMA SameShare ==
  ASSUME NEW a, NEW b, IsFiniteSet(a), IsFiniteSet(b), b # {}, Same(a, b)
  PROVE  a \cap b # {} /\ Jaccard60(a, b)
<1>1. IsFiniteSet(a \cup b) /\ IsFiniteSet(a \cap b)
  BY FS_Union, FS_Intersection
<1>2. Cardinality(a \cup b) \in Nat /\ Cardinality(a \cap b) \in Nat
  BY <1>1, FS_CardinalityType
<1>3. Cardinality(a \cup b) # 0
  BY <1>1, FS_EmptySet
<1>4. Cardinality(a \cap b) # 0
  BY <1>2, <1>3 DEF Same
<1>5. a \cap b # {}
  BY <1>4, FS_EmptySet
<1> QED BY <1>2, <1>5 DEF Same, Jaccard60

LEMMA IdsFinite ==
  ASSUME dec \in Seq(DecisionType)
  PROVE  /\ Ids = 1 .. Len(dec) /\ Len(dec) \in Nat
         /\ \A S \in SUBSET Ids : IsFiniteSet(S) /\ Cardinality(S) \in Nat
<1>1. Ids = 1 .. Len(dec) /\ Len(dec) \in Nat
  BY DEF Ids
<1>2. IsFiniteSet(Ids)
  BY <1>1, FS_Interval
<1> QED BY <1>1, <1>2, FS_Subset, FS_CardinalityType

(* Where the search finds no more than it looks at, a twin that stands          *)
(* unprotected is among the strong duplicates it shows.                       *)
LEMMA TwinIsFound ==
  ASSUME ToolsType, NEW t \in AllTexts, t # {}, Cardinality(Matches(t)) <= Limit,
         NEW F \in Found(t, 2 * Limit), NEW D \in Firsts(Duplicates(F, t), Limit),
         NEW i \in Ids, Standing(i), ~dec[i].dnr, Same(dec[i].text, t),
         ~NegationDisagrees(dec[i].text, t)
  PROVE  i \in Strong(D, t)
<1> DEFINE M == Matches(t)
           S == {k \in M : Standing(k)}
<1>1. dec \in Seq(DecisionType) /\ Limit \in Nat
  BY ToolsAssumption DEF ToolsType
<1>2. M \subseteq Ids /\ S \subseteq M
  BY DEF Matches
<1>3. IsFiniteSet(M) /\ IsFiniteSet(S) /\ Cardinality(M) \in Nat /\ Cardinality(S) \in Nat
      /\ Cardinality(S) <= Cardinality(M)
  BY <1>1, <1>2, IdsFinite, FS_Subset
<1>4. IsFiniteSet(dec[i].text) /\ IsFiniteSet(t)
  <2>1. dec[i] \in DecisionType
    BY <1>1 DEF Ids
  <2>2. dec[i].text \in AllTexts
    BY <2>1 DEF DecisionType
  <2> QED BY <2>2, TextsFinite
<1>5. dec[i].text \cap t # {} /\ Jaccard60(dec[i].text, t)
  BY <1>4, SameShare
<1>6. Cardinality(M) <= 4 * Limit /\ Cardinality(S) <= 2 * Limit /\ 2 * (2 * Limit) = 4 * Limit
  BY <1>1, <1>3
<1>7. F = S
  <2>1. Firsts(M, 2 * (2 * Limit)) = {M}
    BY <1>6 DEF Firsts
  <2>2. Firsts(S, 2 * Limit) = {S}
    BY <1>6 DEF Firsts
  <2> QED BY <2>1, <2>2 DEF Found
<1>8. i \in Duplicates(F, t)
  <2>1. i \in F
    BY <1>5, <1>7 DEF Matches
  <2>2. Jaccard60(t, dec[i].text) /\ ~NegationDisagrees(t, dec[i].text)
    <3>1. t \cap dec[i].text = dec[i].text \cap t /\ t \cup dec[i].text = dec[i].text \cup t
      OBVIOUS
    <3> QED BY <1>5, <3>1 DEF Jaccard60, NegationDisagrees
  <2>3. Classify(t, dec[i].text, FALSE) = "duplicate"
    BY <2>2 DEF Classify
  <2> QED BY <2>1, <2>3 DEF Duplicates
<1>9. D = Duplicates(F, t)
  <2>1. Duplicates(F, t) \subseteq M
    BY <1>7 DEF Duplicates
  <2>2. Cardinality(Duplicates(F, t)) <= Cardinality(M) /\ Cardinality(Duplicates(F, t)) \in Nat
    BY <1>1, <1>2, <1>3, <2>1, IdsFinite, FS_Subset
  <2> QED BY <1>1, <1>3, <2>2 DEF Firsts
<1> QED BY <1>8, <1>9 DEF Strong

(* A step of another leaves a call of record_decision what it goes by.        *)
LEMMA RecordFrame ==
  ASSUME ToolsType, ToolsType', Evolves, NEW c \in Agents, RecordInv(c), step'[c] = step[c],
         \A field \in {"op", "text", "force", "old", "new", "begun", "twins", "unsure"} :
           task'[c][field] = task[c][field]
  PROVE  RecordInv(c)'
<1> DEFINE j == task[c]
<1>1. /\ task'[c].op = j.op /\ task'[c].text = j.text /\ task'[c].force = j.force
      /\ task'[c].old = j.old /\ task'[c].begun = j.begun /\ task'[c].twins = j.twins
      /\ task'[c].unsure = j.unsure /\ task'[c].new = j.new
  OBVIOUS
<1>2. j.begun \in Nat /\ moment \in Nat /\ moment' \in Nat /\ j.begun <= moment
      /\ moment <= moment' /\ dec \in Seq(DecisionType) /\ dec' \in Seq(DecisionType)
  BY DEF ToolsType, TaskType, RecordInv, TwinsKept, Evolves
<1>3. \A i \in Ids : i \in Ids' /\ dec'[i].text = dec[i].text
  BY DEF Evolves
<1>4. \A i \in Ids : /\ dec[i].touched \in Nat /\ dec'[i].touched \in Nat
                     /\ dec[i].since \in Nat /\ dec'[i].since \in Nat
  <2> SUFFICES ASSUME NEW i \in Ids
               PROVE  /\ dec[i].touched \in Nat /\ dec'[i].touched \in Nat
                      /\ dec[i].since \in Nat /\ dec'[i].since \in Nat
    OBVIOUS
  <2>1. dec[i] \in DecisionType /\ dec'[i] \in DecisionType
    BY <1>2, <1>3 DEF Ids
  <2> QED BY <2>1 DEF DecisionType
<1>5. \A i \in Ids : dec[i].touched > j.begun => dec'[i].touched > j.begun
  BY <1>2, <1>4 DEF Evolves
<1>6. \A i \in Ids : Standing(i) /\ ~dec[i].dnr
                     => (Standing(i)' /\ ~dec'[i].dnr) \/ dec'[i].touched > j.begun
  <2> SUFFICES ASSUME NEW i \in Ids, Standing(i), ~dec[i].dnr, ~(dec'[i].touched > j.begun)
               PROVE  Standing(i)' /\ ~dec'[i].dnr
    OBVIOUS
  <2>1. ~(dec'[i].touched > moment)
    BY <1>2, <1>4
  <2> QED BY <2>1 DEF Standing, Evolves
<1>7. j.begun <= moment' /\ j.twins \subseteq Ids'
  BY <1>2, <1>3 DEF RecordInv, TwinsKept
<1>8. ASSUME NEW i \in j.twins
      PROVE  /\ Same(dec'[i].text, j.text) /\ ~NegationDisagrees(dec'[i].text, j.text)
             /\ (Standing(i)' /\ ~dec'[i].dnr) \/ dec'[i].touched > j.begun
  BY <1>3, <1>5, <1>6 DEF RecordInv, TwinsKept
<1>9. ASSUME step[c] \in {"look", "amend"} \/ (step[c] = "record" /\ j.old # 0)
      PROVE  /\ j.old \in Ids'
             /\ j.op = "record" =>
                  /\ Same(dec'[j.old].text, j.text)
                  /\ dec'[j.old].dnr => dec'[j.old].since > j.begun
                  /\ dec'[j.old].next = 0 \/ dec'[j.old].touched > j.begun
  <2>1. j.old \in Ids
    BY <1>9 DEF RecordInv, OldKept
  <2>2. ASSUME j.op = "record"
        PROVE  /\ Same(dec'[j.old].text, j.text)
               /\ dec'[j.old].dnr => dec'[j.old].since > j.begun
               /\ dec'[j.old].next = 0 \/ dec'[j.old].touched > j.begun
    <3> DEFINE o == j.old
    <3>1. /\ Same(dec[o].text, j.text)
          /\ dec[o].dnr => dec[o].since > j.begun
          /\ dec[o].next = 0 \/ dec[o].touched > j.begun
      BY <1>9, <2>2 DEF RecordInv, OldKept
    <3>2. /\ dec[o].next # 0 => dec'[o].next # 0
          /\ \/ dec'[o].touched = dec[o].touched /\ dec'[o].next = dec[o].next
             \/ dec'[o].touched > moment
          /\ dec'[o].dnr => (dec[o].dnr /\ dec'[o].since = dec[o].since)
                             \/ dec'[o].since > moment
          /\ dec[o].touched \in Nat /\ dec'[o].touched \in Nat
          /\ dec[o].since \in Nat /\ dec'[o].since \in Nat
      BY <1>4, <2>1 DEF Evolves
    <3>3. j.begun \in Nat /\ moment \in Nat /\ j.begun <= moment
      BY <1>2
    <3> HIDE DEF o, j
    <3>4. dec'[o].dnr => dec'[o].since > j.begun
      BY ONLY <3>1, <3>2, <3>3
    <3>5. dec'[o].next = 0 \/ dec'[o].touched > j.begun
      BY ONLY <3>1, <3>2, <3>3
    <3> QED BY <1>3, <2>1, <3>1, <3>4, <3>5 DEF o, j
  <2> QED BY <1>3, <2>1, <2>2
<1>10. ASSUME step[c] = "record", j.old = 0, j.text # {}, j.twins # {}, ~j.force, ~j.unsure,
              Cardinality(Matches(j.text)') <= Limit
       PROVE  \E i \in Ids' : Same(dec'[i].text, j.text) /\ dec'[i].touched > j.begun
  <2>1. Cardinality(Matches(j.text)) <= Limit
    <3>1. Matches(j.text) \subseteq Matches(j.text)' /\ Matches(j.text)' \subseteq Ids'
      BY <1>3 DEF Matches
    <3>2. IsFiniteSet(Matches(j.text)')
      <4>1. Ids' = 1 .. Len(dec') /\ Len(dec') \in Nat
        BY <1>2 DEF Ids
      <4>2. IsFiniteSet(1 .. Len(dec'))
        BY <4>1, FS_Interval
      <4> QED BY <3>1, <4>1, <4>2, FS_Subset
    <3>3. /\ Cardinality(Matches(j.text)) <= Cardinality(Matches(j.text)')
          /\ IsFiniteSet(Matches(j.text))
      BY <3>1, <3>2, FS_Subset
    <3>4. Cardinality(Matches(j.text)) \in Nat /\ Cardinality(Matches(j.text)') \in Nat
      BY <3>2, <3>3, FS_CardinalityType
    <3> QED BY <1>10, <3>3, <3>4, ToolsAssumption
  <2>2. PICK i \in Ids : Same(dec[i].text, j.text) /\ dec[i].touched > j.begun
    BY <1>10, <2>1 DEF RecordInv, Excused
  <2> QED BY <1>3, <1>5, <2>2
<1>11. TwinsKept(c)'
  BY <1>1, <1>7, <1>8 DEF TwinsKept
<1>12. OldKept(c)'
  BY <1>1, <1>9 DEF OldKept, RecordInv
<1>13. Excused(c)'
  BY <1>1, <1>10 DEF Excused
<1> QED BY <1>11, <1>12, <1>13 DEF RecordInv

(* Nor does it bring back, for a query, what was gone.                        *)
LEMMA QueryFrame ==
  ASSUME Evolves, NEW c \in Agents, QueryInv(c), step'[c] = step[c],
         task'[c].op = task[c].op, task'[c].found = task[c].found,
         task'[c].gone \subseteq task[c].gone,
         \A i \in task'[c].gone : dec[i].next # 0 \/ dec'[i].out
  PROVE  QueryInv(c)'
BY DEF Evolves, QueryInv

(* A step that changes at most one agent's task.                              *)
LEMMA OneAgent ==
  ASSUME ToolsInv, ToolsType', Evolves, \A i \in Ids : dec'[i].out = dec[i].out,
         NEW c \in Agents, RecordInv(c)', QueryInv(c)',
         \A b \in Agents \ {c} : step'[b] = step[b] /\ task'[b] = task[b]
  PROVE  ToolsInv'
<1> SUFFICES ASSUME NEW b \in Agents \ {c} PROVE RecordInv(b)' /\ QueryInv(b)'
  BY DEF ToolsInv
<1>1. RecordInv(b)'
  BY RecordFrame DEF ToolsInv
<1>2. QueryInv(b)'
  <2>1. task[b].gone \subseteq Ids /\ \A i \in task[b].gone : dec[i].next # 0 \/ dec[i].out
    BY DEF ToolsInv, QueryInv
  <2>2. \A i \in task'[b].gone : dec[i].next # 0 \/ dec'[i].out
    BY <2>1
  <2> QED BY <2>2, QueryFrame DEF ToolsInv
<1> QED BY <1>1, <1>2

(* A step that leaves the decisions as they are.                              *)
LEMMA SameDecisions == ASSUME UNCHANGED <<dec, moment>>, moment \in Nat
                       PROVE  Evolves /\ \A i \in Ids : dec'[i].out = dec[i].out
BY DEF Evolves, Ids

LEMMA FirstsShrink == ASSUME NEW S, NEW n, NEW T \in Firsts(S, n) PROVE T \subseteq S
BY DEF Firsts, kSubset

(* What a search finds stands.                                                *)
LEMMA FoundStands ==
  ASSUME NEW t, NEW n, NEW F \in Found(t, n)
  PROVE  F \subseteq Ids /\ \A i \in F : Standing(i)
<1>1. PICK H \in Firsts(Matches(t), 2 * n) : F \in Firsts({i \in H : Standing(i)}, n)
  BY DEF Found
<1>2. H \subseteq Matches(t) /\ F \subseteq {i \in H : Standing(i)}
  BY <1>1, FirstsShrink
<1> QED BY <1>2 DEF Matches

LEMMA TaskMoves ==
  ASSUME ToolsType, NEW c \in Agents, NEW where \in Steps, NEW what \in TaskType,
         Go(c, where, what)
  PROVE  /\ step' \in [Agents -> Steps] /\ task' \in [Agents -> TaskType]
         /\ step'[c] = where /\ task'[c] = what
         /\ \A b \in Agents \ {c} : step'[b] = step[b] /\ task'[b] = task[b]
BY DEF ToolsType, Go

LEMMA NoTaskType == NoTask \in TaskType /\ "idle" \in Steps
BY DEF NoTask, TaskType, Ops, AllTexts, Steps

(* An agent that is done has nothing to go by.                                *)
LEMMA EndKeeps ==
  ASSUME ToolsType, NEW c \in Agents, moment' \in Nat, End(c)
  PROVE  RecordInv(c)' /\ QueryInv(c)'
<1>1. step'[c] = "idle" /\ task'[c] = NoTask
  BY TaskMoves, NoTaskType DEF End
<1> QED
  BY <1>1 DEF RecordInv, TwinsKept, OldKept, Excused, QueryInv, NoTask

(* A step in which one agent moves on and no decision changes.                *)
LEMMA AloneStep ==
  ASSUME ToolsInv, NEW c \in Agents, NEW where \in Steps, NEW what \in TaskType,
         Go(c, where, what), UNCHANGED <<dec, moment>>, RecordInv(c)', QueryInv(c)'
  PROVE  ToolsInv' /\ Evolves
<1>1. ToolsType'
  BY TaskMoves DEF ToolsInv, ToolsType
<1>2. Evolves /\ \A i \in Ids : dec'[i].out = dec[i].out
  BY SameDecisions DEF ToolsInv, ToolsType
<1> QED BY <1>1, <1>2, TaskMoves, OneAgent DEF ToolsInv

LEMMA EndAlone ==
  ASSUME ToolsInv, NEW c \in Agents, End(c), UNCHANGED <<dec, moment>>
  PROVE  ToolsInv' /\ Evolves
<1>1. RecordInv(c)' /\ QueryInv(c)'
  BY EndKeeps DEF ToolsInv, ToolsType
<1> QED BY <1>1, NoTaskType, AloneStep DEF End

(* As a call begins.                                                          *)
LEMMA GivenKeeps ==
  ASSUME ToolsInv, NEW c \in Agents, NEW r \in Tasks[c], NEW where, NEW old,
         Given(c, r, where, old), UNCHANGED <<dec, moment>>,
         \/ where = "record" /\ r.force /\ old = 0
         \/ where = "check" /\ old = 0
         \/ where = "look" /\ r.op = "supersede" /\ old \in Ids
         \/ where = "find" /\ old = 0
  PROVE  ToolsInv' /\ Evolves
<1> DEFINE text == r.text \cup IF r.op = "supersede" THEN Prefix ELSE {}
           begun == IF r.op = "record" THEN moment ELSE 0
           twins == IF r.op # "record" THEN {}
                    ELSE {i \in Ids : /\ Standing(i) /\ ~dec[i].dnr
                                      /\ Same(dec[i].text, r.text)
                                      /\ ~NegationDisagrees(dec[i].text, r.text)}
           gone == IF r.op \in {"record", "supersede"} THEN {}
                   ELSE {i \in Ids : IF r.op = "timeline" THEN dec[i].next # 0
                                     ELSE ~Standing(i)}
           what == [NoTask EXCEPT !.op = r.op, !.dnr = r.dnr, !.force = r.force, !.old = old,
                     !.begun = begun, !.text = text, !.twins = twins, !.gone = gone]
<1>1. Go(c, where, what)
  BY DEF Given
<1>15. /\ what.op = r.op /\ what.text = text /\ what.force = r.force /\ what.old = old
       /\ what.new = 0 /\ what.begun = begun /\ what.gone = gone /\ what.twins = twins
  <2> HIDE DEF text, begun, twins, gone
  <2> QED BY DEF NoTask
<1>2. r.op \in Ops /\ r.dnr \in BOOLEAN /\ r.force \in BOOLEAN
  BY ToolsAssumption DEF Ops
<1>3. Ids \subseteq Nat /\ moment \in Nat /\ 0 \notin Ids
  <2>1. dec \in Seq(DecisionType) /\ moment \in Nat
    BY DEF ToolsInv, ToolsType
  <2> QED BY <2>1, IdsFinite
<1>4. text \in AllTexts
  BY DEF AllTexts, Wanted
<1>5. where \in Steps /\ old \in Nat /\ begun \in Nat /\ begun <= moment
  <2>1. where \in Steps
    BY DEF Steps
  <2>2. old \in Nat
    <3>1. CASE old = 0
      BY <3>1
    <3>2. CASE old \in Ids
      BY <1>3, <3>2
    <3> QED BY <3>1, <3>2
  <2> QED BY <1>3, <2>1, <2>2
<1>6. twins \subseteq Ids /\ gone \subseteq Ids
  OBVIOUS
<1>7. what \in TaskType
  <2> HIDE DEF text, begun, twins, gone
  <2>1. twins \in SUBSET Nat /\ gone \in SUBSET Nat
    BY <1>3, <1>6
  <2> HIDE DEF text, begun, twins, gone
  <2> QED BY <1>2, <1>4, <1>5, <2>1, NoTaskType DEF TaskType
<1>8. step'[c] = where /\ task'[c] = what
  BY <1>1, <1>5, <1>7, TaskMoves DEF ToolsInv
<1> HIDE DEF what
<1>9. Ids' = Ids /\ \A i \in Ids : (Standing(i) <=> Standing(i)')
  BY DEF Ids, Standing
<1>10. TwinsKept(c)'
  <2>1. \A i \in twins : /\ Same(dec[i].text, text) /\ ~NegationDisagrees(dec[i].text, text)
                         /\ Standing(i) /\ ~dec[i].dnr
    <3>1. r.op = "record" => text = r.text
      OBVIOUS
    <3> QED BY <3>1
  <2>2. /\ task'[c].begun = begun /\ task'[c].twins = twins /\ task'[c].text = text
    BY <1>15, <1>8
  <2> HIDE DEF text, begun, twins, gone, what
  <2> QED BY <1>5, <1>6, <1>9, <2>1, <2>2 DEF TwinsKept
<1>11. OldKept(c)'
  <2>1. task'[c].op = r.op /\ task'[c].old = old /\ task'[c].new = 0
    BY <1>15, <1>8
  <2> QED BY <1>8, <1>9, <2>1 DEF OldKept
<1>12. Excused(c)'
  <2>1. task'[c].force = r.force
    BY <1>15, <1>8
  <2> QED BY <1>2, <1>8, <2>1 DEF Excused
<1>13. QueryInv(c)'
  <2>1. \A i \in gone : /\ dec[i].next # 0 \/ dec[i].out
                        /\ r.op = "timeline" => dec[i].next # 0
    BY DEF Standing
  <2>2. task'[c].op = r.op /\ task'[c].gone = gone
    BY <1>15, <1>8
  <2> HIDE DEF text, begun, twins, gone, what
  <2> QED BY <1>6, <1>8, <1>9, <2>1, <2>2 DEF QueryInv
<1> HIDE DEF what
<1> QED BY <1>1, <1>5, <1>7, <1>10, <1>11, <1>12, <1>13, AloneStep DEF RecordInv

LEMMA TwinsStay ==
  ASSUME NEW c \in Agents, TwinsKept(c), UNCHANGED <<dec, moment>>,
         task'[c].begun = task[c].begun, task'[c].twins = task[c].twins,
         task'[c].text = task[c].text
  PROVE  TwinsKept(c)'
BY DEF TwinsKept, Ids, Standing

LEMMA GoneStays ==
  ASSUME NEW c \in Agents, QueryInv(c), UNCHANGED dec,
         task'[c].gone = task[c].gone, task'[c].op = task[c].op,
         step'[c] \in {"fill", "reply"} =>
           task'[c].found \subseteq Ids /\ task'[c].found \cap task[c].gone = {}
  PROVE  QueryInv(c)'
BY DEF QueryInv, Ids

(* The check leaves a call with what it is to replace, or with a reason.      *)
LEMMA CompareKeeps ==
  ASSUME ToolsInv, NEW c \in Agents, Compare(c)
  PROVE  ToolsInv' /\ Evolves
<1> DEFINE j == task[c]
<1>1. step[c] = "check" /\ UNCHANGED <<dec, moment>>
  BY DEF Compare
<1>2. j \in TaskType /\ dec \in Seq(DecisionType) /\ RecordInv(c) /\ QueryInv(c) /\ ToolsType
  BY DEF ToolsInv, ToolsType
<1>3. j.old = 0 /\ TwinsKept(c)
  BY <1>1, <1>2 DEF RecordInv, OldKept
<1>4. ASSUME NEW F \in Found(j.text, 2 * Limit), NEW D \in Firsts(Duplicates(F, j.text), Limit)
      PROVE  \A i \in Strong(D, j.text) : /\ i \in Ids /\ i \in Nat /\ Standing(i)
                                          /\ ~dec[i].dnr /\ Same(dec[i].text, j.text)
  <2>1. F \subseteq Ids /\ \A i \in F : Standing(i)
    BY FoundStands
  <2>2. D \subseteq Duplicates(F, j.text)
    BY FirstsShrink
  <2>3. Ids \subseteq Nat
    BY <1>2, IdsFinite
  <2> QED BY <2>1, <2>2, <2>3 DEF Strong, Duplicates
<1>5. ASSUME NEW F \in Found(j.text, 2 * Limit), NEW D \in Firsts(Duplicates(F, j.text), Limit),
             Strong(D, j.text) = {}, Go(c, "record", task[c])
      PROVE  ToolsInv' /\ Evolves
  <2>1. "record" \in Steps
    BY DEF Steps
  <2>2. step'[c] = "record" /\ task'[c] = j
    BY <1>2, <1>5, <2>1, TaskMoves
  <2>3. TwinsKept(c)'
    BY <1>1, <1>3, <2>2, TwinsStay
  <2>4. OldKept(c)'
    BY <1>3, <2>2 DEF OldKept
  <2>5. Excused(c)'
    <3> SUFFICES ASSUME j.text # {}, j.twins # {}, Cardinality(Matches(j.text)) <= Limit
                 PROVE  \E i \in Ids : Same(dec[i].text, j.text) /\ dec[i].touched > j.begun
      BY <1>1, <2>2 DEF Excused, Ids, Matches
    <3>1. PICK i \in j.twins : TRUE
      OBVIOUS
    <3>2. /\ i \in Ids /\ Same(dec[i].text, j.text) /\ ~NegationDisagrees(dec[i].text, j.text)
          /\ (Standing(i) /\ ~dec[i].dnr) \/ dec[i].touched > j.begun
      BY <1>3, <3>1 DEF TwinsKept
    <3>3. ~(Standing(i) /\ ~dec[i].dnr)
      <4>1. j.text \in AllTexts
        BY <1>2 DEF TaskType
      <4> QED BY <1>2, <1>5, <3>2, <4>1, TwinIsFound
    <3> QED BY <3>2, <3>3
  <2>6. QueryInv(c)'
    BY <1>1, <1>2, <2>2, GoneStays
  <2> QED BY <1>1, <1>2, <1>5, <2>1, <2>3, <2>4, <2>5, <2>6, AloneStep DEF RecordInv
<1>6. ASSUME NEW F \in Found(j.text, 2 * Limit), NEW D \in Firsts(Duplicates(F, j.text), Limit),
             NEW i \in Strong(D, j.text), Go(c, "look", [task[c] EXCEPT !.old = i])
      PROVE  ToolsInv' /\ Evolves
  <2> DEFINE k == [j EXCEPT !.old = i]
  <2>1. /\ i \in Ids /\ i \in Nat /\ Standing(i) /\ ~dec[i].dnr /\ Same(dec[i].text, j.text)
    BY <1>4
  <2>2. "look" \in Steps /\ k \in TaskType
    BY <1>2, <2>1 DEF Steps, TaskType
  <2>3. /\ k.op = j.op /\ k.text = j.text /\ k.begun = j.begun /\ k.twins = j.twins
        /\ k.gone = j.gone /\ k.old = i
    BY <1>2 DEF TaskType
  <2>4. step'[c] = "look" /\ task'[c] = k
    BY <1>2, <1>6, <2>2, TaskMoves
  <2> HIDE DEF k, j
  <2>5. TwinsKept(c)'
    BY <1>1, <1>3, <2>3, <2>4, TwinsStay DEF j
  <2>6. OldKept(c)'
    BY <1>1, <2>1, <2>3, <2>4 DEF OldKept, Ids, Standing
  <2>7. Excused(c)'
    BY <2>4 DEF Excused
  <2>8. QueryInv(c)'
    BY <1>1, <1>2, <2>3, <2>4, GoneStays DEF j
  <2> QED BY <1>1, <1>6, <2>2, <2>5, <2>6, <2>7, <2>8, AloneStep DEF RecordInv, k, j
<1>7. ASSUME Go(c, "record", [task[c] EXCEPT !.unsure = TRUE])
      PROVE  ToolsInv' /\ Evolves
  <2> DEFINE k == [j EXCEPT !.unsure = TRUE]
  <2>2. "record" \in Steps /\ k \in TaskType
    BY <1>2 DEF Steps, TaskType
  <2>3. /\ k.op = j.op /\ k.text = j.text /\ k.begun = j.begun /\ k.twins = j.twins
        /\ k.gone = j.gone /\ k.old = j.old /\ k.unsure
    BY <1>2 DEF TaskType
  <2>4. step'[c] = "record" /\ task'[c] = k
    BY <1>2, <1>7, <2>2, TaskMoves
  <2> HIDE DEF k, j
  <2>5. TwinsKept(c)'
    BY <1>1, <1>3, <2>3, <2>4, TwinsStay DEF j
  <2>6. OldKept(c)'
    BY <1>3, <2>3, <2>4 DEF OldKept
  <2>7. Excused(c)'
    BY <2>3, <2>4 DEF Excused
  <2>8. QueryInv(c)'
    BY <1>1, <1>2, <2>3, <2>4, GoneStays DEF j
  <2> QED BY <1>1, <1>7, <2>2, <2>5, <2>6, <2>7, <2>8, AloneStep DEF RecordInv, k, j
<1> QED BY <1>5, <1>6, <1>7 DEF Compare

(* supersede() goes on with what has no successor, or leaves a reason.        *)
LEMMA LookKeeps ==
  ASSUME ToolsInv, NEW c \in Agents, Look(c)
  PROVE  ToolsInv' /\ Evolves
<1> DEFINE j == task[c]
<1>1. step[c] = "look" /\ UNCHANGED <<dec, moment>>
  BY DEF Look
<1>2. j \in TaskType /\ RecordInv(c) /\ QueryInv(c) /\ ToolsType
  BY DEF ToolsInv, ToolsType
<1>3. TwinsKept(c) /\ OldKept(c)
  BY <1>2 DEF RecordInv
<1>4. /\ j.old \in Ids
      /\ j.op = "record" =>
           /\ Same(dec[j.old].text, j.text)
           /\ dec[j.old].dnr => dec[j.old].since > j.begun
           /\ dec[j.old].next = 0 \/ dec[j.old].touched > j.begun
  BY <1>1, <1>3 DEF OldKept
<1>5. "record" \in Steps /\ j.old # 0
  <2>1. dec \in Seq(DecisionType)
    BY <1>2 DEF ToolsType
  <2> QED BY <1>4, <2>1, IdsFinite DEF Steps
<1>6. ASSUME Go(c, "record", task[c])
      PROVE  ToolsInv' /\ Evolves
  <2>1. step'[c] = "record" /\ task'[c] = j
    BY <1>2, <1>5, <1>6, TaskMoves
  <2>2. TwinsKept(c)' /\ QueryInv(c)'
    BY <1>1, <1>2, <1>3, <2>1, TwinsStay, GoneStays
  <2>3. OldKept(c)'
    BY <1>1, <1>4, <2>1 DEF OldKept, Ids
  <2>4. Excused(c)'
    BY <1>5, <2>1 DEF Excused
  <2> QED BY <1>1, <1>2, <1>5, <1>6, <2>2, <2>3, <2>4, AloneStep DEF RecordInv
<1>7. ASSUME dec[j.old].next # 0, j.op = "record", Go(c, "record", [task[c] EXCEPT !.old = 0])
      PROVE  ToolsInv' /\ Evolves
  <2> DEFINE k == [j EXCEPT !.old = 0]
  <2>1. k \in TaskType
    BY <1>2 DEF TaskType
  <2>2. /\ k.op = j.op /\ k.text = j.text /\ k.begun = j.begun /\ k.twins = j.twins
        /\ k.gone = j.gone /\ k.old = 0
    BY <1>2 DEF TaskType
  <2>3. step'[c] = "record" /\ task'[c] = k
    BY <1>2, <1>5, <1>7, <2>1, TaskMoves
  <2> HIDE DEF k, j
  <2>4. TwinsKept(c)' /\ QueryInv(c)'
    BY <1>1, <1>2, <1>3, <2>2, <2>3, TwinsStay, GoneStays DEF j
  <2>5. OldKept(c)'
    BY <2>2, <2>3 DEF OldKept
  <2>6. Excused(c)'
    <3>1. j.old \in Ids /\ Same(dec[j.old].text, j.text) /\ dec[j.old].touched > j.begun
      BY <1>4, <1>7
    <3> QED BY <1>1, <2>2, <2>3, <3>1 DEF Excused, Ids
  <2> QED BY <1>1, <1>5, <1>7, <2>1, <2>4, <2>5, <2>6, AloneStep DEF RecordInv, k, j
<1> QED BY <1>1, <1>6, <1>7, EndAlone DEF Look

(* What is newly recorded changes nothing that was there.                     *)
LEMMA RecordKeeps ==
  ASSUME ToolsInv, NEW c \in Agents, Record(c)
  PROVE  ToolsInv' /\ Evolves
<1> DEFINE j == task[c]
           new == New(j.text, j.dnr, moment')
<1>1. /\ step[c] = "record" /\ dec' = Append(dec, new) /\ moment' = moment + 1
      /\ IF j.old = 0 THEN End(c) ELSE Go(c, "amend", [task[c] EXCEPT !.new = Len(dec')])
  BY DEF Record, Writes
<1>2. /\ j \in TaskType /\ dec \in Seq(DecisionType) /\ moment \in Nat /\ moment' \in Nat
      /\ RecordInv(c) /\ QueryInv(c) /\ ToolsType
  BY <1>1 DEF ToolsInv, ToolsType
<1>3. new \in DecisionType
  BY <1>2 DEF New, DecisionType, TaskType
<1>4. /\ dec' \in Seq(DecisionType) /\ Len(dec') = Len(dec) + 1 /\ Len(dec) \in Nat
      /\ \A i \in 1 .. Len(dec) : dec'[i] = dec[i]
  <2> HIDE DEF new
  <2> QED BY <1>1, <1>2, <1>3
<1>5. Ids = 1 .. Len(dec) /\ Ids' = 1 .. Len(dec')
  BY <1>2, <1>4 DEF Ids
<1>6. Ids \subseteq Ids' /\ \A i \in Ids : dec'[i] = dec[i]
  BY <1>4, <1>5
<1>7. Evolves /\ \A i \in Ids : dec'[i].out = dec[i].out
  <2>1. moment' >= moment
    BY <1>1, <1>2
  <2> QED BY ONLY <1>6, <2>1 DEF Evolves
<1>8. CASE j.old = 0
  <2>1. End(c)
    BY <1>1, <1>8
  <2>2. RecordInv(c)' /\ QueryInv(c)'
    BY <1>2, <2>1, EndKeeps
  <2>3. ToolsType'
    BY <1>2, <1>4, <2>1, NoTaskType, TaskMoves DEF ToolsType, End
  <2>4. \A b \in Agents \ {c} : step'[b] = step[b] /\ task'[b] = task[b]
    BY <1>2, <2>1, NoTaskType, TaskMoves DEF End
  <2> QED BY <1>7, <2>2, <2>3, <2>4, OneAgent
<1>9. CASE j.old # 0
  <2> DEFINE k == [j EXCEPT !.new = Len(dec')]
  <2>1. "amend" \in Steps /\ k \in TaskType
    <3>1. Len(dec') \in Nat
      BY <1>4
    <3> HIDE DEF j, new
    <3> QED BY ONLY <1>2, <3>1 DEF TaskType, Steps
  <2>2. /\ k.op = j.op /\ k.text = j.text /\ k.begun = j.begun /\ k.twins = j.twins
        /\ k.gone = j.gone /\ k.old = j.old /\ k.new = Len(dec')
    BY <1>2 DEF TaskType
  <2>3. Go(c, "amend", k)
    BY <1>1, <1>9
  <2>4. /\ step'[c] = "amend" /\ task'[c] = k
        /\ step' \in [Agents -> Steps] /\ task' \in [Agents -> TaskType]
        /\ \A b \in Agents \ {c} : step'[b] = step[b] /\ task'[b] = task[b]
    BY <1>2, <2>1, <2>3, TaskMoves
  <2>5. ToolsType'
    BY <1>2, <1>4, <2>4 DEF ToolsType
  <2> HIDE DEF k, new
  <2>6. TwinsKept(c)'
    <3>1. TwinsKept(c) /\ j.begun \in Nat
      BY <1>2 DEF RecordInv, TaskType
    <3>2. j.begun <= moment' /\ j.twins \subseteq Ids'
      BY <1>1, <1>2, <1>6, <3>1 DEF TwinsKept
    <3>3. \A i \in j.twins :
            /\ Same(dec'[i].text, j.text) /\ ~NegationDisagrees(dec'[i].text, j.text)
            /\ (Standing(i)' /\ ~dec'[i].dnr) \/ dec'[i].touched > j.begun
      BY <1>6, <3>1 DEF TwinsKept, Standing
    <3> QED BY <2>2, <2>4, <3>2, <3>3 DEF TwinsKept
  <2>7. OldKept(c)'
    <3>1. /\ j.old \in Ids
          /\ j.op = "record" =>
               /\ Same(dec[j.old].text, j.text)
               /\ dec[j.old].dnr => dec[j.old].since > j.begun
               /\ dec[j.old].next = 0 \/ dec[j.old].touched > j.begun
      BY <1>1, <1>2, <1>9 DEF RecordInv, OldKept
    <3>2. Len(dec') # 0
      BY <1>4
    <3>3. j.old \in Ids' /\ dec'[j.old] = dec[j.old]
      BY <1>6, <3>1
    <3> QED BY <2>2, <2>4, <3>1, <3>2, <3>3 DEF OldKept
  <2>8. Excused(c)'
    BY <2>4 DEF Excused
  <2>9. QueryInv(c)'
    BY <1>2, <1>6, <2>2, <2>4 DEF QueryInv
  <2> QED BY <1>7, <2>4, <2>5, <2>6, <2>7, <2>8, <2>9, OneAgent DEF RecordInv
<1> QED BY <1>8, <1>9

(* What is replaced has the new one for its successor, from now on.           *)
LEMMA AmendKeeps ==
  ASSUME ToolsInv, NEW c \in Agents, Amend(c)
  PROVE  ToolsInv' /\ Evolves
<1> DEFINE j == task[c]
           old == dec[j.old]
<1>1. /\ step[c] = "amend" /\ moment' = moment + 1 /\ End(c)
      /\ dec' = [dec EXCEPT ![j.old].next = j.new, ![j.old].touched = moment']
  BY DEF Amend, Writes
<1>2. /\ j \in TaskType /\ dec \in Seq(DecisionType) /\ moment \in Nat /\ moment' \in Nat
      /\ RecordInv(c) /\ QueryInv(c) /\ ToolsType
  BY <1>1 DEF ToolsInv, ToolsType
<1>3. j.old \in Ids /\ j.new # 0 /\ j.new \in Nat
  BY <1>1, <1>2 DEF RecordInv, OldKept, TaskType
<1>4. Ids = 1 .. Len(dec) /\ Len(dec) \in Nat
  BY <1>2, IdsFinite
<1>5. old \in DecisionType
  BY <1>2, <1>3, <1>4
<1>6. dec' = [dec EXCEPT ![j.old] = [old EXCEPT !.next = j.new, !.touched = moment']]
  BY <1>1, <1>3 DEF Ids
<1>7. [old EXCEPT !.next = j.new, !.touched = moment'] \in DecisionType
  BY <1>2, <1>3, <1>5 DEF DecisionType
<1>8. dec' \in Seq(DecisionType) /\ Ids' = Ids
  <2> HIDE DEF old
  <2> QED BY <1>2, <1>3, <1>4, <1>6, <1>7 DEF Ids
<1>9. /\ dec'[j.old].next = j.new /\ dec'[j.old].touched = moment' /\ dec'[j.old].text = old.text
      /\ dec'[j.old].dnr = old.dnr /\ dec'[j.old].since = old.since /\ dec'[j.old].out = old.out
  BY <1>3, <1>5, <1>6 DEF DecisionType, Ids
<1>10. \A i \in Ids \ {j.old} : dec'[i] = dec[i]
  BY <1>6 DEF Ids
<1>11. Evolves /\ \A i \in Ids : dec'[i].out = dec[i].out
  <2>1. moment' > moment /\ moment' >= moment
    BY <1>1, <1>2
  <2> HIDE DEF j, old
  <2>2. ASSUME NEW i \in Ids
        PROVE  /\ dec'[i].text = dec[i].text /\ dec'[i].out = dec[i].out
               /\ dec[i].next # 0 => dec'[i].next # 0
               /\ dec'[i] = dec[i] \/ dec'[i].touched > moment
               /\ dec'[i].dnr = dec[i].dnr /\ dec'[i].since = dec[i].since
    <3>1. CASE i = j.old
      BY <1>3, <1>9, <2>1, <3>1 DEF old
    <3>2. CASE i # j.old
      BY <1>10, <3>2
    <3> QED BY <3>1, <3>2
  <2> QED BY ONLY <1>8, <2>1, <2>2 DEF Evolves
<1>12. RecordInv(c)' /\ QueryInv(c)'
  BY <1>1, <1>2, EndKeeps
<1>13. ToolsType'
  BY <1>1, <1>2, <1>8, NoTaskType, TaskMoves DEF ToolsType, End
<1>14. \A b \in Agents \ {c} : step'[b] = step[b] /\ task'[b] = task[b]
  BY <1>1, <1>2, NoTaskType, TaskMoves DEF End
<1> QED BY <1>11, <1>12, <1>13, <1>14, OneAgent

(* A step of no agent: a decision may come back, and is then no longer gone.  *)
LEMMA NoAgent ==
  ASSUME ToolsInv, ToolsType', Evolves, UNCHANGED step,
         \A c \in Agents : \A field \in {"op", "text", "force", "old", "new", "begun", "twins",
                                         "unsure", "found"} :
           task'[c][field] = task[c][field],
         \A c \in Agents : /\ task'[c].gone \subseteq task[c].gone
                           /\ \A i \in task'[c].gone : dec[i].next # 0 \/ dec'[i].out
  PROVE  ToolsInv'
<1> SUFFICES ASSUME NEW c \in Agents PROVE RecordInv(c)' /\ QueryInv(c)'
  BY DEF ToolsInv
<1>1. ToolsType /\ RecordInv(c) /\ QueryInv(c) /\ step'[c] = step[c]
  BY DEF ToolsInv
<1>2. RecordInv(c)'
  BY <1>1, RecordFrame
<1>3. task'[c].op = task[c].op /\ task'[c].found = task[c].found
  OBVIOUS
<1>4. QueryInv(c)'
  BY <1>1, <1>3, QueryFrame
<1> QED BY <1>2, <1>4

(* A change of flags.                                                         *)
LEMMA FlagKeeps == ASSUME ToolsInv, Flag PROVE ToolsInv' /\ Evolves
<1>1. /\ moment' = moment + 1 /\ UNCHANGED step
      /\ task' = [c \in Agents |->
                   [task[c] EXCEPT !.gone = {i \in task[c].gone : dec[i].next # 0 \/ dec'[i].out}]]
  BY DEF Flag, Writes
<1>2. dec \in Seq(DecisionType) /\ moment \in Nat /\ moment' \in Nat /\ moment' > moment
      /\ ToolsType
  BY <1>1 DEF ToolsInv, ToolsType
<1>3. Ids = 1 .. Len(dec) /\ Len(dec) \in Nat
  BY <1>2, IdsFinite
<1>4. PICK i \in Ids, new \in DecisionType :
        /\ dec' = [dec EXCEPT ![i] = new]
        /\ new.text = dec[i].text /\ new.next = dec[i].next /\ new.touched = moment'
        /\ new.dnr => (dec[i].dnr /\ new.since = dec[i].since) \/ new.since = moment'
  <2>1. CASE \E i \in Ids : \E b \in BOOLEAN \ {dec[i].dnr} :
               dec' = [dec EXCEPT ![i].dnr = b, ![i].touched = moment',
                                  ![i].since = IF b THEN moment' ELSE 0]
    <3>1. PICK i \in Ids, b \in BOOLEAN :
            dec' = [dec EXCEPT ![i].dnr = b, ![i].touched = moment',
                               ![i].since = IF b THEN moment' ELSE 0]
      BY <2>1
    <3> DEFINE new == [dec[i] EXCEPT !.dnr = b, !.touched = moment',
                                     !.since = IF b THEN moment' ELSE 0]
    <3>2. dec[i] \in DecisionType
      BY <1>2, <1>3
    <3>3. new \in DecisionType
      BY <1>2, <3>2 DEF DecisionType
    <3>4. /\ new.text = dec[i].text /\ new.next = dec[i].next /\ new.touched = moment'
          /\ new.dnr = b
          /\ b => new.since = moment'
      BY <3>2 DEF DecisionType
    <3>5. dec' = [dec EXCEPT ![i] = new]
      BY <3>1 DEF Ids
    <3> HIDE DEF new
    <3> QED BY <3>3, <3>4, <3>5
  <2>2. CASE \E i \in Ids : \E b \in BOOLEAN :
               dec' = [dec EXCEPT ![i].out = b, ![i].touched = moment']
    <3>1. PICK i \in Ids, b \in BOOLEAN :
            dec' = [dec EXCEPT ![i].out = b, ![i].touched = moment']
      BY <2>2
    <3> DEFINE new == [dec[i] EXCEPT !.out = b, !.touched = moment']
    <3>2. dec[i] \in DecisionType
      BY <1>2, <1>3
    <3>3. new \in DecisionType
      BY <1>2, <3>2 DEF DecisionType
    <3>4. /\ new.text = dec[i].text /\ new.next = dec[i].next /\ new.touched = moment'
          /\ new.dnr = dec[i].dnr /\ new.since = dec[i].since
      BY <3>2 DEF DecisionType
    <3>5. dec' = [dec EXCEPT ![i] = new]
      BY <3>1 DEF Ids
    <3> HIDE DEF new
    <3> QED BY <3>3, <3>4, <3>5
  <2> QED BY <2>1, <2>2 DEF Flag
<1>5. dec' \in Seq(DecisionType) /\ Ids' = Ids /\ dec'[i] = new
      /\ \A k \in Ids \ {i} : dec'[k] = dec[k]
  BY <1>2, <1>3, <1>4 DEF Ids
<1>6. ASSUME NEW k \in Ids
      PROVE  /\ dec'[k].text = dec[k].text /\ dec'[k].next = dec[k].next
             /\ dec'[k] = dec[k] \/ dec'[k].touched > moment
             /\ dec'[k].dnr => (dec[k].dnr /\ dec'[k].since = dec[k].since)
                              \/ dec'[k].since > moment
  <2>1. CASE k = i
    BY <1>2, <1>4, <1>5, <2>1
  <2>2. CASE k # i
    BY <1>5, <2>2
  <2> QED BY <2>1, <2>2
<1>7. Evolves
  <2>1. moment' >= moment
    BY <1>1, <1>2
  <2> QED BY ONLY <1>5, <1>6, <2>1 DEF Evolves
<1>8. ASSUME NEW c \in Agents
      PROVE  /\ task'[c] = [task[c] EXCEPT !.gone = {k \in @ : dec[k].next # 0 \/ dec'[k].out}]
             /\ task'[c] \in TaskType
             /\ \A field \in {"op", "text", "force", "old", "new", "begun", "twins", "unsure",
                               "found"} : task'[c][field] = task[c][field]
             /\ task'[c].gone \subseteq task[c].gone
             /\ \A k \in task'[c].gone : dec[k].next # 0 \/ dec'[k].out
  <2> DEFINE gone == {k \in task[c].gone : dec[k].next # 0 \/ dec'[k].out}
  <2>1. task[c] \in TaskType
    BY <1>2 DEF ToolsType
  <2>2. task'[c] = [task[c] EXCEPT !.gone = gone]
    BY <1>1
  <2>3. gone \subseteq task[c].gone /\ \A k \in gone : dec[k].next # 0 \/ dec'[k].out
    OBVIOUS
  <2>4. gone \in SUBSET Nat
    BY <2>1, <2>3 DEF TaskType
  <2> HIDE DEF gone
  <2>5. task'[c] \in TaskType /\ task'[c].gone = gone
    BY <2>1, <2>2, <2>4 DEF TaskType
  <2>6. \A field \in {"op", "text", "force", "old", "new", "begun", "twins", "unsure", "found"} :
          task'[c][field] = task[c][field]
    BY <2>1, <2>2 DEF TaskType
  <2> QED BY <2>2, <2>3, <2>5, <2>6 DEF gone
<1>9. ToolsType'
  <2>1. task' \in [Agents -> TaskType]
    BY <1>1, <1>8
  <2> QED BY <1>1, <1>2, <1>5, <2>1 DEF ToolsType
<1> QED BY <1>1, <1>7, <1>8, <1>9, NoAgent

(* An outcome leaves alone what calls and queries go by.                      *)
LEMMA OutcomeKeeps == ASSUME ToolsInv, Outcome PROVE ToolsInv' /\ Evolves
<1>1. /\ moment' = moment + 1 /\ UNCHANGED <<step, task>>
  BY DEF Outcome, Writes
<1>2. dec \in Seq(DecisionType) /\ moment \in Nat /\ moment' \in Nat /\ moment' >= moment
      /\ ToolsType
  BY <1>1 DEF ToolsInv, ToolsType
<1>3. PICK i \in Ids : dec' = [dec EXCEPT ![i].reverted = TRUE]
  BY DEF Outcome
<1> DEFINE new == [dec[i] EXCEPT !.reverted = TRUE]
<1>4. Ids = 1 .. Len(dec) /\ Len(dec) \in Nat /\ dec[i] \in DecisionType
  BY <1>2, IdsFinite
<1>5. /\ new \in DecisionType
      /\ new.text = dec[i].text /\ new.next = dec[i].next /\ new.touched = dec[i].touched
      /\ new.dnr = dec[i].dnr /\ new.out = dec[i].out /\ new.since = dec[i].since
  BY <1>4 DEF DecisionType
<1>6. dec' = [dec EXCEPT ![i] = new]
  BY <1>3 DEF Ids
<1> HIDE DEF new
<1>7. dec' \in Seq(DecisionType) /\ Ids' = Ids /\ dec'[i] = new
      /\ \A k \in Ids \ {i} : dec'[k] = dec[k]
  BY <1>2, <1>4, <1>5, <1>6 DEF Ids
<1>8. ASSUME NEW k \in Ids
      PROVE  /\ dec'[k].text = dec[k].text /\ dec'[k].next = dec[k].next
             /\ dec'[k].touched = dec[k].touched /\ dec'[k].dnr = dec[k].dnr
             /\ dec'[k].out = dec[k].out /\ dec'[k].since = dec[k].since
  <2>1. CASE k = i
    BY <1>5, <1>7, <2>1
  <2>2. CASE k # i
    BY <1>7, <2>2
  <2> QED BY <2>1, <2>2
<1>9. Evolves
  BY ONLY <1>2, <1>7, <1>8 DEF Evolves
<1>10. ToolsType'
  BY <1>1, <1>2, <1>7 DEF ToolsType
<1>11. ASSUME NEW c \in Agents
       PROVE  \A k \in task[c].gone : dec[k].next # 0 \/ dec'[k].out
  BY <1>8 DEF ToolsInv, QueryInv
<1> QED BY <1>1, <1>9, <1>10, <1>11, NoAgent

(* Queries take what stands, a timeline what has no successor.                *)
LEMMA AskedOnly ==
  ASSUME ToolsInv, NEW c \in Agents, NEW S, S \subseteq Ids, NEW where \in {"fill", "reply"},
         S \cap task[c].gone = {}, Go(c, where, [task[c] EXCEPT !.found = S]),
         UNCHANGED <<dec, moment>>
  PROVE  ToolsInv' /\ Evolves
<1> DEFINE j == task[c]
           k == [j EXCEPT !.found = S]
<1>1. j \in TaskType /\ RecordInv(c) /\ QueryInv(c) /\ ToolsType /\ dec \in Seq(DecisionType)
  BY DEF ToolsInv, ToolsType
<1>2. S \in SUBSET Nat
  BY <1>1, IdsFinite
<1>3. where \in Steps /\ k \in TaskType
  BY <1>1, <1>2 DEF Steps, TaskType
<1>4. /\ k.op = j.op /\ k.text = j.text /\ k.begun = j.begun /\ k.twins = j.twins
      /\ k.gone = j.gone /\ k.found = S
  BY <1>1 DEF TaskType
<1>5. step'[c] = where /\ task'[c] = k
  BY <1>1, <1>3, TaskMoves
<1> HIDE DEF k, j
<1>6. TwinsKept(c)'
  BY <1>1, <1>4, <1>5, TwinsStay DEF RecordInv, j
<1>7. OldKept(c)' /\ Excused(c)'
  BY <1>5 DEF OldKept, Excused
<1>8. QueryInv(c)'
  BY <1>1, <1>4, <1>5, GoneStays DEF j
<1> QED BY <1>3, <1>6, <1>7, <1>8, AloneStep DEF RecordInv, j, k

LEMMA LatestShrink == ASSUME NEW S, NEW n PROVE Latest(S, n) \subseteq S
BY DEF Latest

LEMMA StandingNotGone ==
  ASSUME ToolsInv, NEW c \in Agents, NEW S, S \subseteq Ids,
         \/ \A i \in S : Standing(i)
         \/ task[c].op = "timeline" /\ \A i \in S : dec[i].next = 0
  PROVE  S \cap task[c].gone = {}
<1>1. \A i \in task[c].gone : /\ dec[i].next # 0 \/ dec[i].out
                              /\ task[c].op = "timeline" => dec[i].next # 0
  BY DEF ToolsInv, QueryInv
<1> QED BY <1>1 DEF Standing

LEMMA QueryKeeps ==
  ASSUME ToolsInv, NEW c \in Agents,
         Search(c) \/ List(c) \/ Timeline(c) \/ Focus(c) \/ Fill(c)
  PROVE  ToolsInv' /\ Evolves
<1>1. CASE Search(c)
  <2>1. PICK F \in Found(task[c].text, Limit) : Show(c, F)
    BY <1>1 DEF Search
  <2>2. F \subseteq Ids /\ F \cap task[c].gone = {}
    BY FoundStands, StandingNotGone
  <2> QED BY <2>1, <2>2, AskedOnly DEF Show
<1>2. CASE List(c)
  <2> DEFINE F == Latest({i \in Ids : Standing(i)}, Limit)
  <2>1. F \subseteq {i \in Ids : Standing(i)}
    BY LatestShrink
  <2>2. F \subseteq Ids /\ F \cap task[c].gone = {}
    BY <2>1, StandingNotGone
  <2>3. Show(c, F)
    BY <1>2 DEF List
  <2> HIDE DEF F
  <2> QED BY <2>2, <2>3, AskedOnly DEF Show
<1>3. CASE Timeline(c)
  <2> DEFINE F == Latest({i \in Ids : dec[i].next = 0}, Limit)
  <2>1. F \subseteq {i \in Ids : dec[i].next = 0}
    BY LatestShrink
  <2>2. F \subseteq Ids /\ F \cap task[c].gone = {}
    BY <1>3, <2>1, StandingNotGone DEF Timeline
  <2>3. Show(c, F)
    BY <1>3 DEF Timeline
  <2> HIDE DEF F
  <2> QED BY <2>2, <2>3, AskedOnly DEF Show
<1>4. CASE Focus(c)
  <2>1. PICK F \in Found(task[c].text, Limit) \cup {{}} :
          Go(c, "fill", [task[c] EXCEPT !.found = {i \in F : ~dec[i].reverted}])
    BY <1>4 DEF Focus
  <2> DEFINE S == {i \in F : ~dec[i].reverted}
  <2>2. F \subseteq Ids /\ \A i \in F : Standing(i)
    <3>1. CASE F = {}
      BY <3>1
    <3>2. CASE F \in Found(task[c].text, Limit)
      BY <3>2, FoundStands
    <3> QED BY <3>1, <3>2
  <2>3. S \subseteq Ids /\ \A i \in S : Standing(i)
    BY <2>2
  <2>4. Go(c, "fill", [task[c] EXCEPT !.found = S]) /\ UNCHANGED <<dec, moment>>
    BY <1>4, <2>1 DEF Focus
  <2> HIDE DEF S
  <2> QED BY <2>3, <2>4, StandingNotGone, AskedOnly
<1>5. CASE Fill(c)
  <2> DEFINE more == {i \in Latest({j \in Ids : Standing(j)}, 2 * Limit) : ~dec[i].reverted}
             all == IF Cardinality(task[c].found) < BriefSize THEN task[c].found \cup more
                    ELSE task[c].found
  <2>1. step[c] = "fill" /\ \E S \in Firsts(all, BriefSize) : Show(c, S)
    BY <1>5 DEF Fill
  <2>2. PICK S \in Firsts(all, BriefSize) : Show(c, S)
    BY <2>1
  <2>3. S \subseteq task[c].found \cup more
    <3>1. S \subseteq all
      BY FirstsShrink
    <3> QED BY <3>1
  <2>4. task[c].found \cap task[c].gone = {} /\ task[c].found \subseteq Ids
    BY <2>1 DEF ToolsInv, QueryInv
  <2>5. more \subseteq Ids /\ \A i \in more : Standing(i)
    BY LatestShrink
  <2>6. more \cap task[c].gone = {}
    BY <2>5, StandingNotGone
  <2> HIDE DEF more
  <2>7. S \subseteq Ids /\ S \cap task[c].gone = {}
    BY <2>3, <2>4, <2>5, <2>6
  <2> QED BY <2>2, <2>7, AskedOnly DEF Show
<1> QED BY <1>1, <1>2, <1>3, <1>4, <1>5

LEMMA ToolsInvInit == TInit => ToolsInv
<1> SUFFICES ASSUME TInit PROVE ToolsInv
  OBVIOUS
<1>1. PICK seed \in Seeds : dec = [i \in DOMAIN seed |-> New(seed[i].text, seed[i].dnr, 0)]
  BY DEF TInit
<1>2. step = [c \in Agents |-> "idle"] /\ task = [c \in Agents |-> NoTask] /\ moment = 0
  BY DEF TInit
<1>3. dec \in Seq(DecisionType)
  <2>1. DOMAIN seed = 1 .. Len(seed) /\ Len(seed) \in Nat
        /\ \A i \in DOMAIN seed : seed[i].dnr \in BOOLEAN
    BY ToolsAssumption
  <2>2. \A i \in DOMAIN seed : seed[i].text \in AllTexts
    BY DEF AllTexts
  <2>3. \A i \in DOMAIN seed : New(seed[i].text, seed[i].dnr, 0) \in DecisionType
    BY <2>1, <2>2 DEF New, DecisionType
  <2> HIDE DEF New
  <2> QED BY <1>1, <2>1, <2>3
<1>4. ToolsType
  BY <1>2, <1>3, NoTaskType DEF ToolsType
<1>5. ASSUME NEW c \in Agents PROVE RecordInv(c) /\ QueryInv(c)
  BY <1>2 DEF RecordInv, TwinsKept, OldKept, Excused, QueryInv, NoTask
<1> QED BY <1>4, <1>5 DEF ToolsInv

LEMMA ToolsInvNext == ASSUME ToolsInv, TNext PROVE ToolsInv' /\ Evolves
<1>1. ASSUME NEW c \in Agents, BeginRecord(c) PROVE ToolsInv' /\ Evolves
  <2>1. PICK r \in Tasks[c] : r.op = "record" /\ Given(c, r, IF r.force THEN "record" ELSE "check", 0)
    BY <1>1 DEF BeginRecord
  <2>2. UNCHANGED <<dec, moment>>
    BY <1>1 DEF BeginRecord
  <2>3. CASE r.force
    <3>1. Given(c, r, "record", 0)
      BY <2>1, <2>3
    <3> QED BY <2>2, <2>3, <3>1, GivenKeeps
  <2>4. CASE ~r.force
    <3>1. Given(c, r, "check", 0)
      BY <2>1, <2>4
    <3> QED BY <2>2, <3>1, GivenKeeps
  <2> QED BY <2>3, <2>4
<1>2. ASSUME NEW c \in Agents, BeginReplace(c) PROVE ToolsInv' /\ Evolves
  <2>1. PICK r \in Tasks[c], i \in Ids : r.op = "supersede" /\ Given(c, r, "look", i)
    BY <1>2 DEF BeginReplace
  <2>2. UNCHANGED <<dec, moment>>
    BY <1>2 DEF BeginReplace
  <2> QED BY <2>1, <2>2, GivenKeeps
<1>3. ASSUME NEW c \in Agents, BeginQuery(c) PROVE ToolsInv' /\ Evolves
  <2>1. PICK r \in Tasks[c] : Given(c, r, "find", 0)
    BY <1>3 DEF BeginQuery
  <2>2. UNCHANGED <<dec, moment>>
    BY <1>3 DEF BeginQuery
  <2> QED BY <2>1, <2>2, GivenKeeps
<1>4. ASSUME NEW c \in Agents, Reply(c) \/ Die(c) PROVE ToolsInv' /\ Evolves
  BY <1>4, EndAlone DEF Reply, Die
<1>5. ASSUME NEW c \in Agents,
             Search(c) \/ List(c) \/ Timeline(c) \/ Focus(c) \/ Fill(c)
      PROVE  ToolsInv' /\ Evolves
  BY <1>5, QueryKeeps
<1> QED BY <1>1, <1>2, <1>3, <1>4, <1>5, CompareKeeps, LookKeeps, RecordKeeps, AmendKeeps, FlagKeeps,
           OutcomeKeeps DEF TNext

(* ToolsInv is inductive.                                                     *)
LEMMA ToolsInvHolds == TSpec => []ToolsInv
<1>1. ASSUME ToolsInv, UNCHANGED tvars PROVE ToolsInv'
  <2>1. ToolsType'
    BY <1>1 DEF tvars, ToolsInv, ToolsType
  <2>2. Evolves
    BY <1>1, SameDecisions DEF tvars, ToolsInv, ToolsType
  <2> QED BY <1>1, <2>1, <2>2, NoAgent DEF tvars, ToolsInv, QueryInv
<1> QED BY <1>1, ToolsInvInit, ToolsInvNext, PTL DEF TSpec

(* Whatever a search, a list or a brief shows stood when it was asked, or later,  *)
(* and whatever a timeline shows had no successor then: of all agents, tasks and  *)
(* stores.                                                                    *)
THEOREM AnswersDoStand == TSpec => []AnswersStand
<1>1. ToolsInv => AnswersStand
  BY DEF ToolsInv, QueryInv, AnswersStand
<1> QED BY <1>1, ToolsInvHolds, PTL

(* The writes of a call: a record and what it replaces.                       *)
LEMMA RecordGivesWay ==
  ASSUME ToolsInv, NEW c \in Agents, Record(c), step'[c] = "idle",
         task[c].text # {}, task[c].twins # {}, ~task[c].force, ~task[c].unsure,
         Cardinality(Matches(task[c].text)) <= Limit
  PROVE  \E i \in Ids : Same(dec[i].text, task[c].text) /\ dec[i].touched > task[c].begun
<1>1. step[c] = "record" /\ ToolsType /\ RecordInv(c)
  BY DEF Record, ToolsInv
<1>2. task[c].old = 0
  <2>1. ASSUME task[c].old # 0 PROVE FALSE
    <3>1. Go(c, "amend", [task[c] EXCEPT !.new = Len(dec')])
      BY <2>1 DEF Record
    <3>2. step'[c] = "amend"
      BY <1>1, <3>1 DEF Go, ToolsType
    <3> QED BY <3>2
  <2> QED BY <2>1
<1> QED BY <1>1, <1>2 DEF RecordInv, Excused

LEMMA AmendGivesWay ==
  ASSUME ToolsInv, NEW c \in Agents, Amend(c)
  PROVE  /\ task[c].old \in Ids /\ dec'[task[c].old].next = task[c].new
         /\ task[c].op = "record" /\ dec[task[c].old].dnr
              => dec[task[c].old].since > task[c].begun
<1>1. step[c] = "amend" /\ dec \in Seq(DecisionType) /\ RecordInv(c)
  BY DEF Amend, ToolsInv, ToolsType
<1>2. task[c].old \in Ids /\ task[c].old \in 1 .. Len(dec)
  BY <1>1, IdsFinite DEF RecordInv, OldKept
<1>3. dec' = [dec EXCEPT ![task[c].old] =
                [dec[task[c].old] EXCEPT !.next = task[c].new, !.touched = moment']]
  BY <1>2 DEF Amend, Ids
<1>4. dec[task[c].old] \in DecisionType
  BY <1>1, <1>2
<1>5. [dec[task[c].old] EXCEPT !.next = task[c].new, !.touched = moment'].next = task[c].new
  BY <1>4 DEF DecisionType
<1>6. dec'[task[c].old].next = task[c].new
  BY <1>2, <1>3, <1>5 DEF Ids
<1> QED BY <1>1, <1>2, <1>6 DEF RecordInv, OldKept

(* Only Record and Amend of an agent itself end its writing and change a decision. *)
LEMMA OwnWrite ==
  ASSUME ToolsInv, TNext, NEW c \in Agents, step[c] \in {"record", "amend"}, step'[c] = "idle",
         dec' # dec
  PROVE  (step[c] = "record" /\ Record(c)) \/ (step[c] = "amend" /\ Amend(c))
<1>1. step \in [Agents -> Steps] /\ step[c] # "idle" /\ step'[c] # step[c]
  BY DEF ToolsInv, ToolsType
<1>2. ~Flag /\ ~Outcome
  BY <1>1 DEF Flag, Outcome
<1>3. PICK b \in Agents : Record(b) \/ Amend(b)
  BY <1>2 DEF TNext, BeginRecord, BeginReplace, Compare, Look, BeginQuery, Search, List, Timeline,
              Focus, Fill, Reply, Die, Show
<1>4. b = c
  <2>1. ASSUME b # c PROVE FALSE
    <3>1. \E where, what : Go(b, where, what)
      BY <1>3 DEF Record, Amend, End
    <3>2. step'[c] = step[c]
      BY <1>1, <2>1, <3>1 DEF Go
    <3> QED BY <1>1, <3>2
  <2> QED BY <2>1
<1> QED BY <1>3, <1>4 DEF Record, Amend

(* record_decision replaces one of the decisions that say the same when one       *)
(* stood unprotected as it began and nobody changed one meanwhile, and by itself  *)
(* it replaces no decision that was protected all along: of any number of agents, *)
(* whatever they ask for, whatever store they find, and whenever one of them dies. *)
THEOREM TwinsDoGiveWay == TSpec => TwinsGiveWay
<1>1. ASSUME ToolsInv, TNext PROVE TwinsGiveWayStep
  <2> SUFFICES ASSUME NEW c \in Agents, step[c] \in {"record", "amend"},
                      step'[c] = "idle", dec' # dec,
                      task[c].text # {}, task[c].twins # {}, ~task[c].force, ~task[c].unsure,
                      Cardinality(Matches(task[c].text)) <= Limit
               PROVE  \/ task[c].old \in Ids /\ dec'[task[c].old].next = task[c].new
                      \/ \E i \in Ids : Same(dec[i].text, task[c].text)
                                        /\ dec[i].touched > task[c].begun
    BY DEF TwinsGiveWayStep
  <2> QED BY <1>1, OwnWrite, RecordGivesWay, AmendGivesWay
<1>2. ASSUME ToolsInv, TNext PROVE LocksOutrankStep
  <2> SUFFICES ASSUME NEW c \in Agents, task[c].op = "record", step[c] = "amend",
                      dec' # dec, step'[c] = "idle"
               PROVE  dec[task[c].old].dnr => dec[task[c].old].since > task[c].begun
    BY DEF LocksOutrankStep
  <2>1. Amend(c)
    BY <1>2, OwnWrite
  <2> QED BY <1>2, <2>1, AmendGivesWay
<1>3. ToolsInv /\ [TNext]_tvars => [TwinsGiveWayStep /\ LocksOutrankStep]_tvars
  BY <1>1, <1>2
<1> QED BY <1>3, ToolsInvHolds, PTL DEF TSpec, TwinsGiveWay

-----------------------------------------------------------------------------
(* Decisions that say the same.                                               *)

RecTypes ==
  /\ records \in Seq([text : Texts, dnr : BOOLEAN]) /\ N >= 2
  /\ \E i \in 1 .. N : \E j \in i + 1 .. N + 1 : pair = <<i, j>> /\ (i < N => j <= N)
  /\ parent \in [1 .. N -> 1 .. N] /\ \A i \in 1 .. N : parent[i] <= i

Compared(i, j) == i < pair[1] \/ (i = pair[1] /\ j < pair[2])

(* Who shares a root: the duplicates compared so far, and nobody that a closed  *)
(* set would keep apart.                                                     *)
Grouping(root) ==
  /\ root \in [1 .. N -> 1 .. N] /\ Leads(root)
  /\ \A i, j \in 1 .. N : i < j /\ Compared(i, j) /\ DuplicatePair(i, j) => root[i] = root[j]
  /\ \A S \in SUBSET (1 .. N) : Closed(S) =>
       \A i, j \in 1 .. N : root[i] = root[j] /\ i \in S => j \in S

RecInv == RecTypes /\ \E root : Grouping(root)

LEMMA CountIs == ASSUME RecTypes PROVE N \in Nat /\ N >= 2
BY LenProperties DEF RecTypes, N

(* Roots lead nowhere else.                                                   *)
LEMMA RootsEnd ==
  ASSUME RecTypes, NEW root \in [1 .. N -> 1 .. N], Leads(root)
  PROVE  \A i \in 1 .. N : parent[root[i]] = root[i] /\ root[root[i]] = root[i]
<1> DEFINE Bad == {i \in 1 .. N : parent[root[i]] # root[i]}
<1>0. N \in Nat
  BY CountIs
<1>1. Bad = {}
  <2> SUFFICES ASSUME Bad # {} PROVE FALSE
    OBVIOUS
  <2>1. Bad \in SUBSET Nat
    BY <1>0
  <2>2. PICK i \in Bad : \A j \in Bad : i <= j
    <3> HIDE DEF Bad
    <3> QED BY <2>1, LeastOf
  <2>3. i \in 1 .. N /\ parent[i] \in 1 .. N /\ parent[i] <= i
    BY DEF RecTypes
  <2>4. root[i] = IF parent[i] = i THEN i ELSE root[parent[i]]
    BY <2>3 DEF Leads
  <2>5. CASE parent[i] = i
    BY <2>4, <2>5
  <2>6. CASE parent[i] # i
    <3>1. parent[i] < i
      BY <1>0, <2>3, <2>6
    <3>2. parent[i] \in Bad
      BY <2>3, <2>4, <2>6
    <3> HIDE DEF Bad
    <3> QED BY <1>0, <2>2, <2>3, <3>1, <3>2
  <2> QED BY <2>5, <2>6
<1>2. \A i \in 1 .. N : root[i] \in 1 .. N /\ parent[root[i]] = root[i]
  BY <1>1
<1> QED BY <1>2 DEF Leads

(* There is one way to lead.                                                  *)
LEMMA RootsAreThose ==
  ASSUME RecTypes, NEW root \in [1 .. N -> 1 .. N], Leads(root)
  PROVE  Roots = root
<1> DEFINE other == Roots
           Bad == {i \in 1 .. N : root[i] # other[i]}
<1>0. N \in Nat
  BY CountIs
<1>1. other \in [1 .. N -> 1 .. N] /\ Leads(other)
  BY DEF Roots
<1>2. Bad = {}
  <2> SUFFICES ASSUME Bad # {} PROVE FALSE
    OBVIOUS
  <2>1. Bad \in SUBSET Nat
    BY <1>0
  <2>2. PICK i \in Bad : \A j \in Bad : i <= j
    <3> HIDE DEF Bad
    <3> QED BY <2>1, LeastOf
  <2> HIDE DEF other
  <2>3. i \in 1 .. N /\ parent[i] \in 1 .. N /\ parent[i] <= i
    BY DEF RecTypes
  <2>4. /\ root[i] = IF parent[i] = i THEN i ELSE root[parent[i]]
        /\ other[i] = IF parent[i] = i THEN i ELSE other[parent[i]]
    BY <1>1, <2>3 DEF Leads
  <2>5. parent[i] # i /\ root[parent[i]] # other[parent[i]]
    BY <2>4
  <2>6. parent[i] \in Bad
    BY <2>3, <2>5
  <2> HIDE DEF Bad
  <2> QED BY <1>0, <2>2, <2>3, <2>5, <2>6
<1> HIDE DEF other
<1>3. \A i \in 1 .. N : root[i] = other[i]
  BY <1>2
<1>4. root = [i \in 1 .. N |-> root[i]] /\ other = [i \in 1 .. N |-> other[i]]
  BY <1>1
<1>5. root = other
  BY <1>3, <1>4
<1> QED BY <1>5 DEF other

LEMMA SamePair ==
  ASSUME NEW i, NEW j, RecTypes, i \in 1 .. N, j \in 1 .. N, DuplicatePair(i, j)
  PROVE  DuplicatePair(j, i)
<1>1. N \in Nat
  BY CountIs
<1> QED BY <1>1 DEF DuplicatePair

LEMMA RecStep == ASSUME RecInv, [RNext]_rvars PROVE RecInv'
<1>1. CASE UNCHANGED rvars
  <2>1. PICK root : Grouping(root)
    BY DEF RecInv
  <2>2. /\ UNCHANGED <<records, cites, pair, parent>> /\ N' = N
        /\ \A x, y : DuplicatePair(x, y)' = DuplicatePair(x, y)
        /\ \A S : Closed(S)' = Closed(S)
    BY <1>1 DEF rvars, N, DuplicatePair, Closed, Kind
  <2>3. Leads(root)' = Leads(root) /\ \A x, y : Compared(x, y)' = Compared(x, y)
    BY <2>2 DEF Leads, Compared
  <2>4. Grouping(root)'
    BY <2>1, <2>2, <2>3 DEF Grouping
  <2>5. RecTypes'
    BY <2>2 DEF RecInv, RecTypes
  <2> QED BY <2>4, <2>5 DEF RecInv
<1>2. CASE ComparePair
  <2>1. PICK root : Grouping(root)
    BY DEF RecInv
  <2>2. RecTypes
    BY DEF RecInv
  <2>3. N \in Nat /\ N >= 2
    BY <2>2, CountIs
  <2>4. PICK i \in 1 .. N, j \in 1 .. N : pair = <<i, j>> /\ i < j
    <3>1. PICK i \in 1 .. N : \E j \in i + 1 .. N + 1 : pair = <<i, j>> /\ (i < N => j <= N)
      BY <2>2 DEF RecTypes
    <3>2. PICK j \in i + 1 .. N + 1 : pair = <<i, j>> /\ (i < N => j <= N)
      BY <3>1
    <3>3. i < N
      BY <1>2, <3>2 DEF ComparePair
    <3>4. j \in 1 .. N /\ i < j
      BY <2>3, <3>1, <3>2, <3>3
    <3> QED BY <3>2, <3>4
  <2>5. /\ i < N /\ UNCHANGED <<records, cites>>
        /\ pair' = IF j < N THEN <<i, j + 1>> ELSE <<i + 1, i + 2>>
        /\ parent' = IF pair \notin cites /\ Kind(i, j) = "duplicate" THEN Union(i, j) ELSE parent
    BY <1>2, <2>4 DEF ComparePair
  <2>6. /\ N' = N /\ \A x, y : DuplicatePair(x, y)' = DuplicatePair(x, y)
        /\ \A S : Closed(S)' = Closed(S)
    BY <2>5 DEF N, DuplicatePair, Closed, Kind
  <2>7. DuplicatePair(i, j) <=> pair \notin cites /\ Kind(i, j) = "duplicate"
    BY <2>4 DEF DuplicatePair
  <2>8. \A x, y \in 1 .. N : x < y /\ Compared(x, y)' => Compared(x, y) \/ (x = i /\ y = j)
    BY <2>3, <2>4, <2>5 DEF Compared
  <2>9. \E x \in 1 .. N : \E y \in x + 1 .. N + 1 : pair' = <<x, y>> /\ (x < N => y <= N)
    <3>1. CASE j < N
      <4>1. j + 1 \in i + 1 .. N + 1 /\ j + 1 <= N
        BY <2>3, <2>4, <3>1
      <4> QED BY <2>5, <3>1, <4>1
    <3>2. CASE ~(j < N)
      <4>1. i + 1 \in 1 .. N /\ i + 2 \in i + 1 + 1 .. N + 1 /\ (i + 1 < N => i + 2 <= N)
        BY <2>3, <2>4, <2>5
      <4> QED BY <2>5, <3>2, <4>1
    <3> QED BY <3>1, <3>2
  <2>10. root \in [1 .. N -> 1 .. N] /\ Leads(root)
    BY <2>1 DEF Grouping
  <2>11. Roots = root
    BY <2>2, <2>10, RootsAreThose
  <2>12. CASE parent' = parent /\ (DuplicatePair(i, j) => root[i] = root[j])
    <3>1. RecTypes'
      BY <2>2, <2>5, <2>6, <2>9, <2>12 DEF RecTypes
    <3>2. Grouping(root)'
      <4>1. Leads(root)'
        BY <2>6, <2>10, <2>12 DEF Leads
      <4> QED BY <2>1, <2>6, <2>8, <2>12, <4>1 DEF Grouping
    <3> QED BY <3>1, <3>2 DEF RecInv
  <2>13. CASE DuplicatePair(i, j) /\ root[i] # root[j]
    <3> DEFINE hi == IF root[i] > root[j] THEN root[i] ELSE root[j]
               lo == IF root[i] > root[j] THEN root[j] ELSE root[i]
    <3>1. parent' = [parent EXCEPT ![hi] = lo]
      BY <2>5, <2>7, <2>11, <2>13 DEF Union, Root
    <3>2. /\ hi \in 1 .. N /\ lo \in 1 .. N /\ lo < hi
          /\ parent[hi] = hi /\ root[hi] = hi /\ parent[lo] = lo /\ root[lo] = lo
      <4>1. \A k \in 1 .. N : root[k] \in 1 .. N /\ parent[root[k]] = root[k] /\ root[root[k]] = root[k]
        BY <2>2, <2>10, RootsEnd
      <4>2. lo < hi
        BY <2>3, <2>13, <4>1
      <4> QED BY <4>1, <4>2
    <3>3. (root[i] = hi /\ root[j] = lo) \/ (root[i] = lo /\ root[j] = hi)
      OBVIOUS
    <3> HIDE DEF hi, lo
    <3>4. RecTypes'
      <4>1. parent \in [1 .. N -> 1 .. N] /\ \A k \in 1 .. N : parent[k] <= k
        BY <2>2 DEF RecTypes
      <4>2. parent' \in [1 .. N -> 1 .. N]
        BY <3>1, <3>2, <4>1
      <4>3. \A k \in 1 .. N : parent'[k] <= k
        BY <2>3, <3>1, <3>2, <4>1
      <4> QED BY <2>2, <2>5, <2>6, <2>9, <4>2, <4>3 DEF RecTypes
    <3>5. PICK new \in [1 .. N -> 1 .. N] : \A k \in 1 .. N : new[k] = IF root[k] = hi THEN lo ELSE root[k]
      <4> DEFINE f == [k \in 1 .. N |-> IF root[k] = hi THEN lo ELSE root[k]]
      <4>1. f \in [1 .. N -> 1 .. N] /\ \A k \in 1 .. N : f[k] = IF root[k] = hi THEN lo ELSE root[k]
        BY <2>10, <3>2
      <4> HIDE DEF f
      <4> QED BY <4>1
    <3>6. Leads(new)'
      <4> SUFFICES ASSUME NEW k \in 1 .. N
                   PROVE  new[k] = IF parent'[k] = k THEN k ELSE new[parent'[k]]
        BY <2>6 DEF Leads
      <4>1. parent[k] \in 1 .. N /\ root[k] = IF parent[k] = k THEN k ELSE root[parent[k]]
        BY <2>2, <2>10 DEF RecTypes, Leads
      <4>2. parent'[k] = IF k = hi THEN lo ELSE parent[k]
        BY <2>2, <3>1, <3>2 DEF RecTypes
      <4>3. CASE k = hi
        BY <2>3, <3>2, <3>5, <4>2, <4>3
      <4>4. CASE k # hi
        BY <3>2, <3>5, <4>1, <4>2, <4>4
      <4> QED BY <4>3, <4>4
    <3>7. ASSUME NEW x \in 1 .. N, NEW y \in 1 .. N, x < y, Compared(x, y)', DuplicatePair(x, y)
          PROVE  new[x] = new[y]
      <4>1. CASE Compared(x, y)
        BY <2>1, <3>5, <3>7, <4>1 DEF Grouping
      <4>2. CASE x = i /\ y = j
        BY <3>3, <3>5, <4>2
      <4> QED BY <2>8, <3>7, <4>1, <4>2
    <3>8. ASSUME NEW S \in SUBSET (1 .. N), Closed(S), NEW x \in 1 .. N, NEW y \in 1 .. N,
                 new[x] = new[y], x \in S
          PROVE  y \in S
      <4>1. \A k, l \in 1 .. N : root[k] = root[l] /\ k \in S => l \in S
        BY <2>1, <3>8 DEF Grouping
      <4>2. i \in S <=> j \in S
        BY <2>2, <2>13, <3>8, SamePair DEF Closed
      <4>3. \/ root[x] = root[y]
            \/ root[x] \in {root[i], root[j]} /\ root[y] \in {root[i], root[j]}
        BY <3>3, <3>5, <3>8
      <4> QED BY <3>8, <4>1, <4>2, <4>3
    <3>9. Grouping(new)'
      BY <2>6, <3>5, <3>6, <3>7, <3>8 DEF Grouping
    <3> QED BY <3>4, <3>9 DEF RecInv
  <2> QED
    <3>1. CASE ~DuplicatePair(i, j)
      BY <2>5, <2>7, <2>12, <3>1
    <3>2. CASE root[i] = root[j]
      BY <2>5, <2>11, <2>12, <3>2 DEF Union, Root
    <3> QED BY <2>13, <3>1, <3>2
<1> QED BY <1>1, <1>2 DEF RNext

LEMMA RecTells == ASSUME RecInv, Done PROVE ChainsMeet
<1>1. PICK root : Grouping(root)
  BY DEF RecInv
<1>2. Roots = root /\ root \in [1 .. N -> 1 .. N]
  BY <1>1, RootsAreThose DEF RecInv, Grouping
<1>3. N \in Nat
  BY CountIs DEF RecInv
<1>4. \A i, j \in 1 .. N : DuplicatePair(i, j) => root[i] = root[j]
  <2>1. \A i, j \in 1 .. N : i < j => Compared(i, j)
    BY <1>3 DEF Done, Compared, RecInv, RecTypes
  <2>2. \A i, j \in 1 .. N : i < j /\ DuplicatePair(i, j) => root[i] = root[j]
    BY <1>1, <2>1 DEF Grouping
  <2> SUFFICES ASSUME NEW i \in 1 .. N, NEW j \in 1 .. N, DuplicatePair(i, j) PROVE root[i] = root[j]
    OBVIOUS
  <2>3. i # j /\ DuplicatePair(j, i)
    BY SamePair DEF RecInv, DuplicatePair
  <2> QED BY <1>3, <2>2, <2>3
<1> SUFFICES ASSUME NEW i \in 1 .. N
             PROVE  /\ i \in Members(Root(i)) /\ Closed(Members(Root(i)))
                    /\ \A S \in SUBSET (1 .. N) : i \in S /\ Closed(S) => Members(Root(i)) \subseteq S
  BY DEF ChainsMeet
<1>5. Members(Root(i)) = {j \in 1 .. N : root[j] = root[i]}
  BY <1>2 DEF Members, Root
<1>6. Closed({j \in 1 .. N : root[j] = root[i]})
  BY <1>4 DEF Closed
<1> QED BY <1>1, <1>5, <1>6 DEF Grouping

LEMMA LocksSurvive == ASSUME RecInv, Done PROVE LocksSurviveMerges
<1> SUFFICES ASSUME NEW M \in Merges, NEW i \in M, records[i].dnr
             PROVE  LET c == records[Canonical(M)] IN
                    c.dnr /\ (c.text = records[i].text \/ Ambiguous(M))
  BY DEF LocksSurviveMerges
<1>1. N \in Nat /\ M \subseteq 1 .. N /\ M \subseteq Nat
  BY CountIs DEF RecInv, Merges, Members
<1>2. \A j \in M : records[j].dnr \in BOOLEAN
  <2>1. \A j \in 1 .. N : records[j] \in [text : Texts, dnr : BOOLEAN]
    BY ElementOfSeq, LenProperties DEF RecInv, RecTypes, N
  <2> QED BY <1>1, <2>1
<1> DEFINE First(c) == \A j \in M \ {c} : \/ records[c].dnr /\ ~records[j].dnr
                                          \/ records[c].dnr = records[j].dnr /\ c < j
           locked == {j \in M : records[j].dnr}
<1>3. \E c \in M : First(c)
  <2>1. locked # {} /\ locked \in SUBSET Nat
    BY <1>1
  <2>2. PICK c \in locked : \A j \in locked : c <= j
    <3> HIDE DEF locked
    <3> QED BY <2>1, LeastOf
  <2>3. ASSUME NEW j \in M \ {c}, records[j].dnr PROVE c < j
    <3>1. c <= j /\ c # j /\ c \in Nat /\ j \in Nat
      BY <1>1, <2>2, <2>3
    <3> QED BY <3>1
  <2>4. First(c)
    BY <1>2, <2>2, <2>3
  <2> QED BY <2>2, <2>4
<1>4. Canonical(M) \in M /\ First(Canonical(M))
  <2>1. Canonical(M) = CHOOSE c \in M : First(c)
    BY DEF Canonical
  <2> HIDE DEF First
  <2> QED BY <1>3, <2>1
<1>5. PICK c \in M : c = Canonical(M) /\ First(c)
  BY <1>4
<1>6. records[c].dnr
  BY <1>2, <1>5
<1>7. records[c].text # records[i].text => Ambiguous(M)
  <2> DEFINE texts == {records[k].text : k \in locked}
  <2>1. IsFiniteSet(texts)
    <3>1. IsFiniteSet(locked)
      <4>1. IsFiniteSet(1 .. N)
        BY <1>1, FS_Interval
      <4>2. locked \subseteq 1 .. N
        BY <1>1
      <4> HIDE DEF locked
      <4> QED BY <4>1, <4>2, FS_Subset
    <3> DEFINE f == [k \in locked |-> records[k].text]
    <3>2. f \in Surjection(locked, texts)
      BY DEF Surjection
    <3> HIDE DEF f, locked, texts
    <3> QED BY <3>1, <3>2, FS_Surjection
  <2>2. records[c].text \in texts /\ records[i].text \in texts
    BY <1>6
  <2> HIDE DEF texts
  <2>3. ASSUME records[c].text # records[i].text PROVE Cardinality(texts) > 1
    <3>1. Cardinality(texts) \in Nat
      BY <2>1, FS_CardinalityType
    <3>2. Cardinality(texts) # 0
      BY <2>1, <2>2, FS_EmptySet
    <3>3. Cardinality(texts) # 1
      BY <2>1, <2>2, <2>3, FS_Singleton
    <3> QED BY <3>1, <3>2, <3>3
  <2>4. Ambiguous(M) <=> Cardinality(texts) > 1
    BY DEF Ambiguous, texts
  <2> QED BY <2>3, <2>4
<1> QED BY <1>5, <1>6, <1>7

(* Whatever records a store has and whichever cite one another: the clusters of  *)
(* the union-find are the classes of the closure of its duplicate pairs, and a   *)
(* merge takes no protected decision into an unprotected one, or into one with  *)
(* other words unreported.                                                   *)
THEOREM ClustersDoChain == RSpec => []ClustersAreChains
<1>1. RInit => RecInv
  <2> SUFFICES ASSUME RInit PROVE RecInv
    OBVIOUS
  <2>1. PICK n \in 2 .. MaxRecords : records \in [1 .. n -> [text : Texts, dnr : BOOLEAN]]
    BY DEF RInit
  <2>2. n \in Nat /\ n >= 2 /\ records \in Seq([text : Texts, dnr : BOOLEAN]) /\ N = n
    <3>1. n \in Nat /\ n >= 2
      BY <2>1, ReconcileAssumption
    <3>2. records \in Seq([text : Texts, dnr : BOOLEAN])
      BY <2>1, <3>1, SeqDef
    <3> QED BY <2>1, <3>1, <3>2, LenProperties DEF N
  <2>3. pair = <<1, 2>> /\ parent = [i \in 1 .. N |-> i]
    BY DEF RInit
  <2> DEFINE root == [i \in 1 .. N |-> i]
  <2>4. RecTypes
    BY <2>2, <2>3 DEF RecTypes
  <2>5. root \in [1 .. N -> 1 .. N] /\ Leads(root)
    BY <2>3 DEF Leads
  <2>6. \A i, j \in 1 .. N : i < j => ~Compared(i, j)
    BY <2>2, <2>3 DEF Compared
  <2>7. \A i \in 1 .. N : root[i] = i
    OBVIOUS
  <2> HIDE DEF root
  <2>8. Grouping(root)
    BY <2>5, <2>6, <2>7 DEF Grouping
  <2> QED BY <2>4, <2>8 DEF RecInv
<1>2. RecInv => ClustersAreChains
  <2>1. ~Done => ClustersAreChains
    BY DEF ClustersAreChains, ChainsMeet, LocksSurviveMerges
  <2> QED BY <2>1, RecTells, LocksSurvive DEF ClustersAreChains
<1> QED BY <1>1, <1>2, RecStep, PTL DEF RSpec
=============================================================================

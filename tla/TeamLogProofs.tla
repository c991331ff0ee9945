--------------------------- MODULE TeamLogProofs ---------------------------
(***************************************************************************)
(* What holds of TeamLog for every team, any number of clones and commits: *)
(* first what `normalize` makes of a file, then that a commit keeps what   *)
(* the files it was made from say, then the invariants.                    *)
(*                                                                         *)
(* After that four components whose names clash with none of TeamLog's:    *)
(* the code graph, the imports of Python, the playbooks, and what a prompt *)
(* is given.                                                               *)
(***************************************************************************)
EXTENDS TeamLog, CodeIndex, ImportResolution, Playbooks, PromptContext, SetLemmas

(* A file with finitely many base records, none of which is called NoId.     *)
IsLog(f) == f \in File /\ IsFiniteSet(f.bases) /\ \A r \in f.bases : r.id # NoId

-----------------------------------------------------------------------------
(* Winners and new ids.                                                      *)

(* The winner of an id is one of its holders, and no holder is older.        *)
LEMMA WinnerIsOldest ==
  ASSUME NEW f, IsLog(f), NEW r \in f.bases
  PROVE  /\ Winner(f, r.id) \in Holders(f, r.id)
         /\ \A b \in Holders(f, r.id) : Winner(f, r.id).at <= b.at
<1> DEFINE H == Holders(f, r.id)
           Times == {b.at : b \in H}
<1>1. H \subseteq Body /\ r.body \in H
  BY DEF IsLog, File, Base, Holders
<1>2. Times \in SUBSET Nat /\ Times # {}
  <2> HIDE DEF H
  <2> QED BY <1>1 DEF Body
<1>3. \E t \in Times : \A u \in Times : t <= u
  <2> HIDE DEF Times
  <2> QED BY <1>2, LeastOf
<1>4. \E b \in H : \A c \in H : b.at <= c.at
  BY <1>3
<1> QED BY <1>4 DEF Winner

(* A loser's new id is hashed from it, at a width that no record has yet.    *)
LEMMA NewIdIsFresh ==
  ASSUME NEW f, IsLog(f), NEW b \in Body
  PROVE  \E w \in Nat \ {0} : NewId(f, b) = Hashed(b, w) /\ w \notin Widths(f, b)
<1> DEFINE R == {q \in f.bases : q.id.of = b}
           W == Widths(f, b)
<1>1. W \in SUBSET Nat
  BY DEF IsLog, File, Base, Id, Widths
<1>2. IsFiniteSet(W)
  <2>1. IsFiniteSet(R)
    BY FS_Subset DEF IsLog
  <2>2. [q \in R |-> q.id.w] \in Surjection(R, W)
    BY DEF Surjection, Widths
  <2> HIDE DEF R, W
  <2> QED BY <2>1, <2>2, FS_Surjection
<1>3. Cardinality(W) \in Nat
  BY <1>2, FS_CardinalityType
<1>4. \E w \in 1 .. Cardinality(W) + 1 : w \notin W /\ \A v \in 1 .. w - 1 : v \in W
  <2> HIDE DEF W
  <2> QED BY <1>1, <1>2, FirstGap
<1>5. PICK w \in 1 .. Cardinality(W) + 1 : NewId(f, b) = Hashed(b, w) /\ w \notin W
  BY <1>4 DEF NewId
<1> QED BY <1>3, <1>5

LEMMA NewIdType ==
  ASSUME NEW f, IsLog(f), NEW b \in Body
  PROVE  NewId(f, b) \in Id /\ NewId(f, b) # NoId
BY NewIdIsFresh DEF Hashed, Id, NoId

-----------------------------------------------------------------------------
(* Normalize: the base records.                                              *)

LEMMA LostAreRecords ==
  ASSUME NEW f, IsLog(f)
  PROVE  Lost(f) \subseteq f.bases /\ \A r \in Lost(f) : r \in Base /\ r.body \in Body
BY DEF Lost, IsLog, File, Base

LEMMA MovedBasesAreALog ==
  ASSUME NEW f, IsLog(f)
  PROVE  /\ MovedBases(f) \subseteq Base
         /\ IsFiniteSet(MovedBases(f))
         /\ \A r \in MovedBases(f) : r.id # NoId
<1> DEFINE Moved == {[r EXCEPT !.id = NewId(f, r.body)] : r \in Lost(f)}
<1>1. \A r \in Lost(f) : /\ [r EXCEPT !.id = NewId(f, r.body)] \in Base
                         /\ [r EXCEPT !.id = NewId(f, r.body)].id # NoId
  BY LostAreRecords, NewIdType DEF Base
<1>2. IsFiniteSet(Moved)
  <2>1. IsFiniteSet(Lost(f))
    BY LostAreRecords, FS_Subset DEF IsLog
  <2>2. [r \in Lost(f) |-> [r EXCEPT !.id = NewId(f, r.body)]] \in Surjection(Lost(f), Moved)
    BY DEF Surjection
  <2> HIDE DEF Moved
  <2> QED BY <2>1, <2>2, FS_Surjection
<1>3. IsFiniteSet(f.bases \ Lost(f))
  BY FS_Subset DEF IsLog
<1>4. IsFiniteSet(MovedBases(f))
  <2> HIDE DEF Moved
  <2> QED BY <1>2, <1>3, FS_Union DEF MovedBases, Moved
<1> QED BY <1>1, <1>4 DEF MovedBases, IsLog, File

(* An id has one decision after a repair: a winner keeps its id alone, and a  *)
(* loser's new one is taken by no record but that loser's own.               *)
LEMMA NormalizeResolves ==
  ASSUME NEW f, IsLog(f)
  PROVE  IdsDistinct(Normalize(f))
<1> SUFFICES ASSUME NEW r \in MovedBases(f), NEW s \in MovedBases(f), r.id = s.id
             PROVE  r = s
  BY DEF IdsDistinct, Normalize
<1> DEFINE Kept == f.bases \ Lost(f)
           Moved(q) == [q EXCEPT !.id = NewId(f, q.body)]
<1>1. \A q \in Kept : q \in Base /\ q.body = Winner(f, q.id)
  BY DEF Lost, IsLog, File
<1>2. \A q \in Lost(f) : /\ Moved(q) = [id |-> NewId(f, q.body), body |-> q.body]
                         /\ q.body \in Body
  BY LostAreRecords DEF Base
<1>3. \A p \in Kept, q \in Lost(f) : p.id # Moved(q).id
  <2> SUFFICES ASSUME NEW p \in Kept, NEW q \in Lost(f), p.id = Moved(q).id PROVE FALSE
    OBVIOUS
  <2>1. PICK w \in Nat \ {0} : NewId(f, q.body) = Hashed(q.body, w) /\ w \notin Widths(f, q.body)
    BY <1>2, NewIdIsFresh
  <2>2. p.id.of = q.body /\ p.id.w = w
    BY <1>2, <2>1 DEF Hashed
  <2> QED BY <2>1, <2>2 DEF Widths
<1>4. \A p, q \in Lost(f) : Moved(p).id = Moved(q).id => p.body = q.body
  <2> SUFFICES ASSUME NEW p \in Lost(f), NEW q \in Lost(f), Moved(p).id = Moved(q).id
               PROVE  p.body = q.body
    OBVIOUS
  <2>1. p.body \in Body /\ q.body \in Body
    BY <1>2
  <2>2. PICK v \in Nat \ {0} : NewId(f, p.body) = Hashed(p.body, v)
    BY <2>1, NewIdIsFresh
  <2>3. PICK w \in Nat \ {0} : NewId(f, q.body) = Hashed(q.body, w)
    BY <2>1, NewIdIsFresh
  <2> QED BY <1>2, <2>2, <2>3 DEF Hashed
<1>5. \A p, q \in Kept : p.id = q.id => p = q
  BY <1>1 DEF Base
<1>6. r \in Kept \/ \E q \in Lost(f) : r = Moved(q)
  BY DEF MovedBases
<1>7. s \in Kept \/ \E q \in Lost(f) : s = Moved(q)
  BY DEF MovedBases
<1> HIDE DEF Kept, Moved
<1> QED BY <1>2, <1>3, <1>4, <1>5, <1>6, <1>7

(* A record's decision is still there under some id; and its old id names that *)
(* decision or an older one.                                                  *)
LEMMA NormalizeKeepsRecords ==
  ASSUME NEW f, IsLog(f), NEW r \in f.bases
  PROVE  /\ \E s \in Normalize(f).bases : s.body = r.body
         /\ \E s \in Normalize(f).bases : s.id = r.id /\ s.body.at <= r.body.at
<1> USE DEF Normalize
<1>1. r \in Base /\ r.body \in Holders(f, r.id)
  BY DEF IsLog, File, Holders
<1>2. \E s \in MovedBases(f) : s.body = r.body
  <2>1. CASE r \in Lost(f)
    <3>1. [r EXCEPT !.id = NewId(f, r.body)] \in MovedBases(f)
      BY <2>1 DEF MovedBases
    <3> QED BY <1>1, <3>1 DEF Base
  <2>2. CASE r \notin Lost(f)
    BY <2>2 DEF MovedBases
  <2> QED BY <2>1, <2>2
<1>3. PICK q \in f.bases : q.id = r.id /\ q.body = Winner(f, r.id)
  BY WinnerIsOldest DEF Holders
<1>4. q \in MovedBases(f) /\ q.body.at <= r.body.at
  BY <1>1, <1>3, WinnerIsOldest DEF MovedBases, Lost
<1> QED BY <1>2, <1>3, <1>4

-----------------------------------------------------------------------------
(* Normalize: the amendments.                                                *)

LEMMA LoserOfIsLost ==
  ASSUME NEW f, IsLog(f), NEW id, NEW host, Follows(f, id, host)
  PROVE  /\ \E r \in LosersOf(f, id, host) : LosersOf(f, id, host) = {r}
         /\ \E r \in LosersOf(f, id, host) : LoserOf(f, id, host) = r.body
         /\ LoserOf(f, id, host) \in Body
<1>1. IsFiniteSet(LosersOf(f, id, host))
  <2>1. LosersOf(f, id, host) \subseteq f.bases
    BY LostAreRecords DEF LosersOf
  <2> QED BY <2>1, FS_Subset DEF IsLog
<1>2. PICK r : LosersOf(f, id, host) = {r}
  BY <1>1, FS_Singleton DEF Follows
<1>3. LoserOf(f, id, host) = r.body
  BY <1>2 DEF LoserOf
<1> QED BY <1>2, <1>3, LostAreRecords DEF LosersOf

LEMMA MovedNotesAreNotes ==
  ASSUME NEW f, IsLog(f), NEW n \in f.notes
  PROVE  MovedNote(f, n) \in Note /\ MovedNote(f, n).nr = n.nr
<1>1. n \in Note
  BY DEF IsLog, File
<1>2. MovedTo(f, n) \in Id
  <2>1. CASE Named(f, n)
    <3>1. n.about \in Body
      BY <2>1, LostAreRecords DEF Named
    <3> QED BY <2>1, <3>1, NewIdType DEF MovedTo
  <2>2. CASE ~Named(f, n) /\ Follows(f, n.id, n.host)
    <3>1. LoserOf(f, n.id, n.host) \in Body
      BY <2>2, LoserOfIsLost
    <3> QED BY <2>2, <3>1, NewIdType DEF MovedTo
  <2>3. CASE ~Named(f, n) /\ ~Follows(f, n.id, n.host)
    BY <1>1, <2>3 DEF MovedTo, Note
  <2> QED BY <2>1, <2>2, <2>3
<1>3. NextOf(f, n) \in Id
  <2>1. CASE Split(f, n.next) /\ Follows(f, n.next, n.host)
    <3>1. LoserOf(f, n.next, n.host) \in Body
      BY <2>1, LoserOfIsLost
    <3> QED BY <2>1, <3>1, NewIdType DEF NextOf
  <2>2. CASE ~(Split(f, n.next) /\ Follows(f, n.next, n.host))
    BY <1>1, <2>2 DEF NextOf, Note
  <2> QED BY <2>1, <2>2
<1>4. Ambiguous(f, n) \in BOOLEAN
  BY DEF Ambiguous
<1>5. (Split(f, n.next) /\ ~Follows(f, n.next, n.host)) \in BOOLEAN
  OBVIOUS
<1> HIDE DEF IsLog
<1> QED BY <1>1, <1>2, <1>3, <1>4, <1>5 DEF MovedNote, Note

LEMMA NormalizeIsALog ==
  ASSUME NEW f, IsLog(f)
  PROVE  IsLog(Normalize(f))
BY MovedBasesAreALog, MovedNotesAreNotes DEF Normalize, IsLog, File

LEMMA NormalizeKeepsNotes ==
  ASSUME NEW f, IsLog(f), NEW n \in f.notes
  PROVE  \E m \in Normalize(f).notes : m.nr = n.nr
BY MovedNotesAreNotes DEF Normalize

-----------------------------------------------------------------------------
(* What a file keeps of another: its decisions, the age of what its ids name, *)
(* and its amendments.                                                       *)
Keeps(g, f) ==
  /\ \A r \in g.bases : /\ \E s \in f.bases : s.body = r.body
                        /\ \E s \in f.bases : s.id = r.id /\ s.body.at <= r.body.at
  /\ \A n \in g.notes : \E m \in f.notes : m.nr = n.nr

LEMMA KeepsMore ==
  ASSUME NEW g, IsLog(g), NEW f, g.bases \subseteq f.bases, g.notes \subseteq f.notes
  PROVE  Keeps(g, f)
BY DEF Keeps, IsLog, File, Base, Body

LEMMA KeepsTransitive ==
  ASSUME NEW e, IsLog(e), NEW g, IsLog(g), NEW f, IsLog(f), Keeps(e, g), Keeps(g, f)
  PROVE  Keeps(e, f)
<1>1. ASSUME NEW r \in e.bases
      PROVE  /\ \E s \in f.bases : s.body = r.body
             /\ \E s \in f.bases : s.id = r.id /\ s.body.at <= r.body.at
  <2>1. PICK q \in g.bases : q.body = r.body
    BY <1>1 DEF Keeps
  <2>2. \E s \in f.bases : s.body = r.body
    BY <2>1 DEF Keeps
  <2>3. PICK p \in g.bases : p.id = r.id /\ p.body.at <= r.body.at
    BY <1>1 DEF Keeps
  <2>4. PICK s \in f.bases : s.id = p.id /\ s.body.at <= p.body.at
    BY <2>3 DEF Keeps
  <2>5. r.body.at \in Nat /\ p.body.at \in Nat /\ s.body.at \in Nat
    BY <1>1, <2>3, <2>4 DEF IsLog, File, Base, Body
  <2>6. s.id = r.id /\ s.body.at <= r.body.at
    BY <2>3, <2>4, <2>5
  <2> QED BY <2>2, <2>6
<1>2. ASSUME NEW n \in e.notes PROVE \E m \in f.notes : m.nr = n.nr
  <2>1. PICK k \in g.notes : k.nr = n.nr
    BY <1>2 DEF Keeps
  <2> QED BY <2>1 DEF Keeps
<1> QED BY <1>1, <1>2 DEF Keeps

LEMMA NormalizeKeeps ==
  ASSUME NEW f, IsLog(f)
  PROVE  Keeps(f, Normalize(f))
<1> HIDE DEF IsLog
<1> QED BY NormalizeKeepsRecords, NormalizeKeepsNotes DEF Keeps

LEMMA UnionIsALog ==
  ASSUME NEW f, IsLog(f), NEW g, IsLog(g)
  PROVE  /\ IsLog(UnionDedup(f, g))
         /\ Keeps(f, UnionDedup(f, g))
         /\ Keeps(g, UnionDedup(f, g))
<1>1. IsFiniteSet(f.bases \cup g.bases)
  BY FS_Union DEF IsLog
<1>2. IsLog(UnionDedup(f, g))
  BY <1>1 DEF UnionDedup, IsLog, File
<1>3. /\ f.bases \subseteq UnionDedup(f, g).bases /\ f.notes \subseteq UnionDedup(f, g).notes
      /\ g.bases \subseteq UnionDedup(f, g).bases /\ g.notes \subseteq UnionDedup(f, g).notes
  BY DEF UnionDedup
<1> QED BY <1>2, <1>3, KeepsMore

-----------------------------------------------------------------------------
(* The successors that amendments name.                                      *)

(* A superseding amendment that is not flagged names a record of the decision *)
(* that its author recorded, at the author's host if it says one.            *)
SuccessorHeld(f, n) ==
  \/ n.next = NoId
  \/ n.nextAmb
  \/ /\ [id |-> n.next, body |-> n.nextMeant] \in f.bases
     /\ n.host \in {n.nextMeant.host, NoHost}

SuccessorsHeld(f) == \A n \in f.notes : SuccessorHeld(f, n)

(* A loser is followed from the host it came from, which is not the winner's: *)
(* so the successor is that loser and moves with it, or it is the winner and  *)
(* nothing is followed.                                                      *)
LEMMA NormalizeHoldsSuccessors ==
  ASSUME NEW f, IsLog(f), SuccessorsHeld(f)
  PROVE  SuccessorsHeld(Normalize(f))
<1> SUFFICES ASSUME NEW n \in f.notes
             PROVE  SuccessorHeld(Normalize(f), MovedNote(f, n))
  BY DEF SuccessorsHeld, Normalize
<1> DEFINE r == [id |-> n.next, body |-> n.nextMeant]
           moved == [id |-> NewId(f, n.nextMeant), body |-> n.nextMeant]
<1>1. n \in Note
  BY DEF IsLog, File
<1>2. /\ MovedNote(f, n).next = NextOf(f, n)
      /\ MovedNote(f, n).nextAmb =
           (n.nextAmb \/ (Split(f, n.next) /\ ~Follows(f, n.next, n.host)))
      /\ MovedNote(f, n).nextMeant = n.nextMeant
      /\ MovedNote(f, n).host = n.host
  BY <1>1 DEF MovedNote, Note
<1>3. CASE n.next = NoId
  <2>1. ~Split(f, n.next)
    BY <1>3, LostAreRecords DEF Split, IsLog
  <2> QED BY <1>2, <1>3, <2>1 DEF NextOf, SuccessorHeld
<1>4. CASE n.nextAmb
  BY <1>2, <1>4 DEF SuccessorHeld
<1>5. CASE r \in f.bases /\ n.host \in {n.nextMeant.host, NoHost}
  <2>1. CASE Split(f, n.next) /\ ~Follows(f, n.next, n.host)
    BY <1>2, <2>1 DEF SuccessorHeld
  <2>2. CASE Split(f, n.next) /\ Follows(f, n.next, n.host)
    <3>1. PICK q \in LosersOf(f, n.next, n.host) :
            LosersOf(f, n.next, n.host) = {q} /\ LoserOf(f, n.next, n.host) = q.body
      BY <2>2, LoserOfIsLost
    <3>2. q \in Lost(f) /\ q.body \in Body /\ q.body.host = n.host
      BY <3>1, LostAreRecords DEF LosersOf
    <3>3. n.host # NoHost
      BY <3>2, NoHostAssumption DEF Body
    <3>4. n.nextMeant.host = n.host
      BY <1>5, <3>3
    <3>5. r \in Lost(f)
      BY <1>5, <2>2, <3>4 DEF Lost, Follows
    <3>6. r = q
      <4>1. r \in LosersOf(f, n.next, n.host)
        BY <3>4, <3>5 DEF LosersOf
      <4> QED BY <3>1, <4>1
    <3>7. NextOf(f, n) = NewId(f, n.nextMeant)
      BY <2>2, <3>1, <3>6 DEF NextOf
    <3>8. moved \in MovedBases(f)
      BY <3>5 DEF MovedBases
    <3> QED BY <1>2, <1>5, <3>7, <3>8 DEF SuccessorHeld, Normalize
  <2>3. CASE ~Split(f, n.next)
    <3>1. r \notin Lost(f)
      BY <2>3 DEF Split
    <3>2. r \in MovedBases(f)
      BY <1>5, <3>1 DEF MovedBases
    <3> QED BY <1>2, <1>5, <2>3, <3>2 DEF NextOf, SuccessorHeld, Normalize
  <2> QED BY <2>1, <2>2, <2>3
<1> QED BY <1>3, <1>4, <1>5 DEF SuccessorsHeld, SuccessorHeld

-----------------------------------------------------------------------------
(* The state is typed, files are logs, and what was recorded has been.       *)

Typed ==
  /\ team \in Teams
  /\ TypeOK
  /\ \A c \in Clones : IsLog(file[c])
  /\ \A b \in recorded : b.at <= commits

LEMMA CommitsType ==
  ASSUME Typed
  PROVE  commits \in Nat /\ MaxCommits \in Nat /\ HostOf \in [Clones -> Hosts]
BY TeamAssumption DEF Typed, TypeOK, MaxCommits, HostOf, Clones

(* A new record has a number, and with it the file is still a log.           *)
LEMMA NewBaseType ==
  ASSUME Typed, NEW c \in Clones
  PROVE  /\ NewBody(c) \in Body
         /\ NewBase(c) \in Base
         /\ NewBase(c).id \in Id
         /\ NewBase(c).id # NoId
         /\ \A r \in file[c].bases : r.id # NewBase(c).id
<1> DEFINE f == file[c]
           Ns == {r.id.n : r \in f.bases} \cup {0}
<1>1. NewBody(c) \in Body
  BY CommitsType DEF NewBody, Body
<1>2. IsLog(f)
  BY DEF Typed
<1>3. Ns \in SUBSET Nat /\ Ns # {}
  BY <1>2 DEF IsLog, File, Base, Id
<1>4. IsFiniteSet(Ns)
  <2> DEFINE Used == {r.id.n : r \in f.bases}
  <2>1. [r \in f.bases |-> r.id.n] \in Surjection(f.bases, Used)
    BY DEF Surjection
  <2>2. IsFiniteSet(Used)
    <3> HIDE DEF Used
    <3> QED BY <1>2, <2>1, FS_Surjection DEF IsLog
  <2>3. IsFiniteSet({0})
    BY FS_Singleton
  <2> HIDE DEF Used
  <2> QED BY <2>2, <2>3, FS_Union DEF Used
<1>5. Max(Ns) \in Nat /\ \A k \in Ns : k <= Max(Ns)
  <2> HIDE DEF Ns
  <2> QED BY <1>3, <1>4, MaxOfFinite
<1>6. NextNum(f) \in Nat /\ NextNum(f) >= 1 /\ \A r \in f.bases : r.id.n < NextNum(f)
  <2>1. \A r \in f.bases : r.id.n \in Ns /\ r.id.n \in Nat
    BY <1>3
  <2>2. NextNum(f) = 1 + Max(Ns)
    BY DEF NextNum
  <2> HIDE DEF Ns
  <2> QED BY <1>5, <2>1, <2>2
<1>7. \A r \in f.bases : r.id # NewBase(c).id
  BY <1>6 DEF NewBase, Numbered
<1> QED BY <1>1, <1>6, <1>7 DEF NewBase, Numbered, Id, NoId, Base

LEMMA NewNoteType ==
  ASSUME Typed, NEW c \in Clones, NEW r \in file[c].bases,
         NEW p \in ShownAndFirst(file[c], r.id)
  PROVE  /\ NewNote(c, r.id, p[1], p[2]) \in Note
         /\ NewNote(c, r.id, p[1], p[2]).nr = commits + 1
         /\ NewNote(c, r.id, p[1], p[2]).host \in {HostOf[c], NoHost}
<1>1. r.id \in Id
  BY DEF Typed, IsLog, File, Base
<1>2. p[1] \in Body /\ p[2] \in Body
  <2>1. Holders(file[c], r.id) \subseteq Body
    BY DEF Typed, IsLog, File, Base, Holders
  <2> QED BY <2>1 DEF ShownAndFirst
<1>3. NoId \in Id
  BY DEF NoId, Id
<1> QED BY <1>1, <1>2, <1>3, CommitsType DEF NewNote, Note

-----------------------------------------------------------------------------
(* Every step is a fast-forward or a commit that keeps what it was made from. *)

(* Clone c commits the file f, made from the files of the clones in S, its own *)
(* among them.  What is recorded or noted is so in this commit, and is in f.*)
Committed(c, S, f) ==
  /\ c \in S /\ S \subseteq Clones
  /\ Commit(c, f, UNION {known[e] : e \in S})
  /\ IsLog(f)
  /\ \A e \in S : Keeps(file[e], f)
  /\ (\A e \in S : SuccessorsHeld(file[e])) => SuccessorsHeld(f)
  /\ recorded \subseteq recorded' /\ noted \subseteq noted'
  /\ \A b \in recorded' \ recorded :
       /\ b \in Body /\ b.at = commits + 1
       /\ \E r \in f.bases : r.body = b
  /\ \A k \in noted' \ noted : k = commits + 1 /\ \E n \in f.notes : n.nr = k

LEMMA RecordCommits ==
  ASSUME Typed, NEW c \in Clones, Record(c)
  PROVE  \E S, f : Committed(c, S, f)
<1> DEFINE r == NewBase(c)
           f == [file[c] EXCEPT !.bases = @ \cup {r}]
<1>1. IsLog(file[c])
  BY DEF Typed
<1>2. f = [bases |-> file[c].bases \cup {r}, notes |-> file[c].notes]
  <2>1. file[c] = [bases |-> file[c].bases, notes |-> file[c].notes]
    BY <1>1 DEF IsLog, File
  <2> HIDE DEF r
  <2> QED BY <2>1
<1>3. IsLog(f)
  <2>1. IsFiniteSet(file[c].bases \cup {NewBase(c)})
    BY <1>1, FS_AddElement DEF IsLog
  <2> QED BY <1>1, <1>2, <2>1, NewBaseType DEF IsLog, File
<1>4. Keeps(file[c], f)
  BY <1>1, <1>2, KeepsMore
<1>5. SuccessorsHeld(file[c]) => SuccessorsHeld(f)
  BY <1>2 DEF SuccessorsHeld, SuccessorHeld
<1>6. \E q \in f.bases : q.body = NewBody(c)
  <2>1. r.body = NewBody(c)
    BY DEF NewBase
  <2>2. r \in f.bases
    BY <1>2
  <2> QED BY <2>1, <2>2
<1>7. NewBody(c) \in Body /\ NewBody(c).at = commits + 1
  BY NewBaseType DEF NewBody
<1>8. Commit(c, f, UNION {known[e] : e \in {c}})
  <2>1. UNION {known[e] : e \in {c}} = known[c]
    OBVIOUS
  <2> QED BY <2>1 DEF Record
<1> HIDE DEF f
<1>9. Committed(c, {c}, f)
  BY <1>3, <1>4, <1>5, <1>6, <1>7, <1>8 DEF Committed, Record
<1> QED BY <1>9

LEMMA AmendCommits ==
  ASSUME Typed, NEW c \in Clones, Amend(c)
  PROVE  \E S, f : Committed(c, S, f)
<1>0. PICK r \in file[c].bases : \E p \in ShownAndFirst(file[c], r.id) :
        Commit(c, [file[c] EXCEPT !.notes = @ \cup {NewNote(c, r.id, p[1], p[2])}], known[c])
  BY DEF Amend
<1>1. PICK p \in ShownAndFirst(file[c], r.id) :
        Commit(c, [file[c] EXCEPT !.notes = @ \cup {NewNote(c, r.id, p[1], p[2])}], known[c])
  BY <1>0
<1> DEFINE m == NewNote(c, r.id, p[1], p[2])
           f == [file[c] EXCEPT !.notes = @ \cup {m}]
<1>2. IsLog(file[c])
  BY DEF Typed
<1>3. f = [bases |-> file[c].bases, notes |-> file[c].notes \cup {m}]
  BY <1>2 DEF IsLog, File
<1>4. m \in Note /\ m.nr = commits + 1
  BY NewNoteType
<1>5. m.next = NoId
  BY DEF NewNote
<1> HIDE DEF m
<1>6. IsLog(f)
  BY <1>2, <1>3, <1>4 DEF IsLog, File
<1>7. Keeps(file[c], f)
  BY <1>2, <1>3, KeepsMore
<1>8. SuccessorsHeld(file[c]) => SuccessorsHeld(f)
  BY <1>3, <1>5 DEF SuccessorsHeld, SuccessorHeld
<1>9. \E n \in f.notes : n.nr = commits + 1
  BY <1>3, <1>4
<1>10. Commit(c, f, UNION {known[e] : e \in {c}})
  <2>1. UNION {known[e] : e \in {c}} = known[c]
    OBVIOUS
  <2> QED BY <1>1, <2>1 DEF m
<1> HIDE DEF f
<1>11. Committed(c, {c}, f)
  BY <1>6, <1>7, <1>8, <1>9, <1>10 DEF Committed, Amend
<1> QED BY <1>11

LEMMA SupersedeCommits ==
  ASSUME Typed, NEW c \in Clones, Supersede(c)
  PROVE  \E S, f : Committed(c, S, f)
<1>0. PICK r \in file[c].bases : \E p \in ShownAndFirst(file[c], r.id) :
        Commit(c, [bases |-> file[c].bases \cup {NewBase(c)},
                   notes |-> file[c].notes \cup
                               {[NewNote(c, r.id, p[1], p[2]) EXCEPT
                                   !.next = NewBase(c).id, !.nextMeant = NewBody(c)]}],
               known[c])
  BY DEF Supersede
<1>1. PICK p \in ShownAndFirst(file[c], r.id) :
        Commit(c, [bases |-> file[c].bases \cup {NewBase(c)},
                   notes |-> file[c].notes \cup
                               {[NewNote(c, r.id, p[1], p[2]) EXCEPT
                                   !.next = NewBase(c).id, !.nextMeant = NewBody(c)]}],
               known[c])
  BY <1>0
<1> DEFINE m == [NewNote(c, r.id, p[1], p[2]) EXCEPT
                   !.next = NewBase(c).id, !.nextMeant = NewBody(c)]
           f == [bases |-> file[c].bases \cup {NewBase(c)}, notes |-> file[c].notes \cup {m}]
<1>2. IsLog(file[c])
  BY DEF Typed
<1>3. m \in Note /\ m.nr = commits + 1
  <2> DEFINE n == NewNote(c, r.id, p[1], p[2])
  <2>1. n \in Note /\ n.nr = commits + 1
    BY NewNoteType
  <2> HIDE DEF n
  <2> QED BY <2>1, NewBaseType DEF n, Note
<1>4. m.next = NewBase(c).id /\ m.nextMeant = NewBody(c) /\ m.host \in {HostOf[c], NoHost}
  BY NewNoteType DEF Note
<1> HIDE DEF m
<1>5. IsLog(f)
  <2>1. IsFiniteSet(file[c].bases \cup {NewBase(c)})
    BY <1>2, FS_AddElement DEF IsLog
  <2> QED BY <1>2, <1>3, <2>1, NewBaseType DEF IsLog, File
<1>6. Keeps(file[c], f)
  BY <1>2, KeepsMore
<1>7. SuccessorHeld(f, m)
  BY <1>4 DEF SuccessorHeld, NewBase, NewBody
<1>8. SuccessorsHeld(file[c]) => SuccessorsHeld(f)
  BY <1>7 DEF SuccessorsHeld, SuccessorHeld
<1>9. /\ \E q \in f.bases : q.body = NewBody(c)
      /\ \E n \in f.notes : n.nr = commits + 1
  <2>1. NewBase(c) \in f.bases /\ NewBase(c).body = NewBody(c)
    BY DEF NewBase
  <2>2. m \in f.notes
    OBVIOUS
  <2> QED BY <1>3, <2>1, <2>2
<1>10. NewBody(c) \in Body /\ NewBody(c).at = commits + 1
  BY NewBaseType DEF NewBody
<1>11. Commit(c, f, UNION {known[e] : e \in {c}})
  <2>1. UNION {known[e] : e \in {c}} = known[c]
    OBVIOUS
  <2> QED BY <1>1, <2>1 DEF m
<1> HIDE DEF f
<1>12. Committed(c, {c}, f)
  BY <1>5, <1>6, <1>8, <1>9, <1>10, <1>11 DEF Committed, Supersede
<1> QED BY <1>12

LEMMA RepairCommits ==
  ASSUME Typed, NEW c \in Clones, Repair(c)
  PROVE  \E S, f : Committed(c, S, f)
<1> DEFINE f == Normalize(file[c])
<1>1. IsLog(file[c])
  BY DEF Typed
<1>2. IsLog(f) /\ Keeps(file[c], f)
  BY <1>1, NormalizeIsALog, NormalizeKeeps
<1>3. SuccessorsHeld(file[c]) => SuccessorsHeld(f)
  BY <1>1, NormalizeHoldsSuccessors
<1>4. Commit(c, f, UNION {known[e] : e \in {c}})
  <2>1. UNION {known[e] : e \in {c}} = known[c]
    OBVIOUS
  <2> QED BY <2>1 DEF Repair
<1> HIDE DEF f
<1>5. Committed(c, {c}, f)
  BY <1>2, <1>3, <1>4 DEF Committed, Repair
<1> QED BY <1>5

LEMMA MergeCommits ==
  ASSUME Typed, NEW c \in Clones, NEW d \in Clones, DriverMerge(c, d) \/ TextMerge(c, d)
  PROVE  \E S, f : Committed(c, S, f)
<1> DEFINE u == UnionDedup(file[c], file[d])
<1>1. IsLog(file[c]) /\ IsLog(file[d])
  BY DEF Typed
<1>2. IsLog(u) /\ Keeps(file[c], u) /\ Keeps(file[d], u)
  BY <1>1, UnionIsALog
<1>3. SuccessorsHeld(file[c]) /\ SuccessorsHeld(file[d]) => SuccessorsHeld(u)
  BY DEF SuccessorsHeld, SuccessorHeld, UnionDedup
<1>4. UNION {known[e] : e \in {c, d}} = known[c] \cup known[d]
  OBVIOUS
<1>5. CASE DriverMerge(c, d)
  <2> DEFINE f == Normalize(u)
  <2>1. IsLog(f) /\ Keeps(u, f)
    BY <1>2, NormalizeIsALog, NormalizeKeeps
  <2>2. Keeps(file[c], f) /\ Keeps(file[d], f)
    BY <1>1, <1>2, <2>1, KeepsTransitive
  <2>3. SuccessorsHeld(u) => SuccessorsHeld(f)
    BY <1>2, NormalizeHoldsSuccessors
  <2>4. Commit(c, f, UNION {known[e] : e \in {c, d}})
    BY <1>4, <1>5 DEF DriverMerge
  <2> HIDE DEF f, u
  <2>5. Committed(c, {c, d}, f)
    BY <1>3, <1>5, <2>1, <2>2, <2>3, <2>4 DEF Committed, DriverMerge
  <2> QED BY <2>5
<1>6. CASE TextMerge(c, d)
  <2>1. Commit(c, u, UNION {known[e] : e \in {c, d}})
    BY <1>4, <1>6 DEF TextMerge
  <2> HIDE DEF u
  <2>2. Committed(c, {c, d}, u)
    BY <1>2, <1>3, <1>6, <2>1 DEF Committed, TextMerge
  <2> QED BY <2>2
<1> QED BY <1>5, <1>6

LEMMA StepKinds ==
  ASSUME Typed, [Next]_vars
  PROVE  \/ UNCHANGED vars
         \/ \E c, d \in Clones : FastForward(c, d)
         \/ \E c, S, f : Committed(c, S, f)
<1>1. CASE Exhausted \/ UNCHANGED vars
  BY <1>1 DEF Exhausted
<1>2. ASSUME NEW c \in Clones, Record(c) \/ Amend(c) \/ Supersede(c) \/ Repair(c)
      PROVE  \E S, f : Committed(c, S, f)
  BY <1>2, RecordCommits, AmendCommits, SupersedeCommits, RepairCommits
<1>3. ASSUME NEW c \in Clones, NEW d \in Clones, Pull(c, d)
      PROVE  FastForward(c, d) \/ \E S, f : Committed(c, S, f)
  BY <1>3, MergeCommits DEF Pull
<1> QED BY <1>1, <1>2, <1>3 DEF Next

-----------------------------------------------------------------------------
(* Type correctness.                                                         *)

LEMMA TypedInit ==
  ASSUME Init
  PROVE  Typed
<1>1. Empty \in File /\ IsLog(Empty)
  BY FS_EmptySet DEF Empty, File, IsLog
<1>2. MaxCommits \in Nat
  BY TeamAssumption DEF Init, MaxCommits
<1> QED BY <1>1, <1>2 DEF Init, Typed, TypeOK

LEMMA TypedNext ==
  ASSUME Typed, [Next]_vars
  PROVE  Typed'
<1> USE DEF Clones, MaxCommits
<1>1. CASE UNCHANGED vars
  BY <1>1 DEF vars, Typed, TypeOK
<1>2. CASE \E c, d \in Clones : FastForward(c, d)
  <2>1. PICK c \in Clones, d \in Clones : FastForward(c, d)
    BY <1>2
  <2> HIDE DEF IsLog
  <2> QED BY <2>1 DEF FastForward, Typed, TypeOK
<1>3. CASE \E c, S, f : Committed(c, S, f)
  <2>1. PICK c, S, f : Committed(c, S, f)
    BY <1>3
  <2>2. /\ c \in Clones /\ S \subseteq Clones /\ f \in File
        /\ commits < MaxCommits /\ commits' = commits + 1 /\ team' = team
        /\ file' = [file EXCEPT ![c] = f]
        /\ known' = [known EXCEPT ![c] = (UNION {known[e] : e \in S}) \cup {commits + 1}]
    BY <2>1 DEF Committed, Commit, IsLog
  <2>3. commits \in Nat /\ MaxCommits \in Nat
    BY CommitsType
  <2>4. file' \in [Clones -> File] /\ \A e \in Clones : IsLog(file'[e])
    BY <2>1, <2>2 DEF Committed, Typed, TypeOK
  <2>5. known' \in [Clones -> SUBSET (1 .. commits')]
    <3>1. \A e \in S : known[e] \subseteq 1 .. commits
      BY <2>2 DEF Typed, TypeOK
    <3>2. (UNION {known[e] : e \in S}) \cup {commits + 1} \subseteq 1 .. commits + 1
      BY <2>3, <3>1
    <3>3. known \in [Clones -> SUBSET (1 .. commits + 1)]
      BY <2>3 DEF Typed, TypeOK
    <3> QED BY <2>2, <3>2, <3>3
  <2>6. recorded' \subseteq Body /\ \A b \in recorded' : b.at <= commits'
    <3> SUFFICES ASSUME NEW b \in recorded' PROVE b \in Body /\ b.at <= commits'
      OBVIOUS
    <3>1. CASE b \in recorded
      BY <2>2, <2>3, <3>1 DEF Typed, TypeOK, Body
    <3>2. CASE b \notin recorded
      BY <2>1, <2>2, <2>3, <3>2 DEF Committed
    <3> QED BY <3>1, <3>2
  <2>7. noted' \subseteq 1 .. commits'
    <3>1. \A k \in noted' : k \in noted \/ k = commits + 1
      BY <2>1 DEF Committed
    <3>2. noted \subseteq 1 .. commits
      BY DEF Typed, TypeOK
    <3>3. 1 .. commits \subseteq 1 .. commits + 1 /\ commits + 1 \in 1 .. commits + 1
      BY <2>3
    <3>4. \A k \in noted' : k \in 1 .. commits + 1
      BY <3>1, <3>2, <3>3, Zenon
    <3> QED BY <2>2, <3>4
  <2>8. commits' \in 0 .. MaxCommits
    BY <2>2, <2>3
  <2> QED BY <2>2, <2>4, <2>5, <2>6, <2>7, <2>8 DEF Typed, TypeOK
<1> QED BY <1>1, <1>2, <1>3, StepKinds

LEMMA AlwaysTyped == Spec => []Typed
BY TypedInit, TypedNext, PTL DEF Spec

(* In every team the state is typed, however many clones and commits.        *)
THEOREM TeamLogTypeCorrect == Spec => []TypeOK
<1>1. Typed => TypeOK
  BY DEF Typed
<1> QED BY <1>1, AlwaysTyped, PTL

-----------------------------------------------------------------------------
(* Nothing is lost.                                                          *)

(* How a commit changes what a clone knows.                                  *)
LEMMA CommittedKnown ==
  ASSUME Typed, NEW c, NEW S, NEW f, Committed(c, S, f)
  PROVE  /\ c \in Clones /\ S \subseteq Clones /\ Clones' = Clones
         /\ file'[c] = f
         /\ known'[c] = (UNION {known[e] : e \in S}) \cup {commits + 1}
         /\ \A d \in Clones \ {c} : file'[d] = file[d] /\ known'[d] = known[d]
         /\ \A d \in Clones : commits + 1 \notin known[d]
<1>1. commits \in Nat
  BY CommitsType
<1>2. file \in [Clones -> File] /\ known \in [Clones -> SUBSET (1 .. commits)]
  BY DEF Typed, TypeOK
<1> QED BY <1>1, <1>2 DEF Committed, Commit, Clones

LEMMA NothingLostNext ==
  ASSUME Typed, NothingLost, [Next]_vars
  PROVE  NothingLost'
<1>1. CASE UNCHANGED vars
  BY <1>1 DEF vars, NothingLost, Clones
<1>2. CASE \E c, d \in Clones : FastForward(c, d)
  <2>1. PICK c \in Clones, d \in Clones : FastForward(c, d)
    BY <1>2
  <2> QED BY <2>1 DEF FastForward, NothingLost, Typed, TypeOK, Clones
<1>3. CASE \E c, S, f : Committed(c, S, f)
  <2>1. PICK c, S, f : Committed(c, S, f)
    BY <1>3
  <2> SUFFICES ASSUME NEW d \in Clones
               PROVE  /\ \A b \in recorded' : b.at \in known'[d] => \E r \in file'[d].bases : r.body = b
                      /\ \A k \in noted' \cap known'[d] : \E n \in file'[d].notes : n.nr = k
    BY <2>1, CommittedKnown DEF NothingLost
  <2>2. ASSUME NEW b \in recorded', b.at \in known'[d]
        PROVE  \E r \in file'[d].bases : r.body = b
    <3>1. CASE b \notin recorded
      <4>1. b.at = commits + 1 /\ \E r \in f.bases : r.body = b
        BY <2>1, <3>1 DEF Committed
      <4>2. d = c
        BY <2>1, <2>2, <4>1, CommittedKnown
      <4> QED BY <2>1, <4>1, <4>2, CommittedKnown
    <3>2. CASE b \in recorded /\ d # c
      BY <2>1, <2>2, <3>2, CommittedKnown DEF NothingLost
    <3>3. CASE b \in recorded /\ d = c
      <4>1. b.at # commits + 1
        BY <3>3, CommitsType DEF Typed, TypeOK, Body
      <4>2. PICK e \in S : b.at \in known[e]
        BY <2>1, <2>2, <3>3, <4>1, CommittedKnown
      <4>3. PICK r \in file[e].bases : r.body = b
        BY <2>1, <3>3, <4>2, CommittedKnown DEF NothingLost
      <4>4. \E s \in f.bases : s.body = r.body
        BY <2>1, <4>2, <4>3 DEF Committed, Keeps
      <4> QED BY <2>1, <3>3, <4>3, <4>4, CommittedKnown
    <3> QED BY <3>1, <3>2, <3>3
  <2>3. ASSUME NEW k \in noted' \cap known'[d]
        PROVE  \E n \in file'[d].notes : n.nr = k
    <3>1. CASE k \notin noted
      <4>1. k = commits + 1 /\ \E n \in f.notes : n.nr = k
        BY <2>1, <3>1 DEF Committed
      <4>2. d = c
        BY <2>1, <2>3, <4>1, CommittedKnown
      <4> QED BY <2>1, <4>1, <4>2, CommittedKnown
    <3>2. CASE k \in noted /\ d # c
      BY <2>1, <2>3, <3>2, CommittedKnown DEF NothingLost
    <3>3. CASE k \in noted /\ d = c
      <4>1. k # commits + 1
        BY <3>3, CommitsType DEF Typed, TypeOK
      <4>2. PICK e \in S : k \in known[e]
        BY <2>1, <2>3, <3>3, <4>1, CommittedKnown
      <4>3. PICK n \in file[e].notes : n.nr = k
        BY <2>1, <3>3, <4>2, CommittedKnown DEF NothingLost
      <4>4. \E m \in f.notes : m.nr = n.nr
        BY <2>1, <4>2, <4>3 DEF Committed, Keeps
      <4> QED BY <2>1, <3>3, <4>3, <4>4, CommittedKnown
    <3> QED BY <3>1, <3>2, <3>3
  <2> QED BY <2>2, <2>3
<1> QED BY <1>1, <1>2, <1>3, StepKinds

(* Whatever the members record, amend, supersede, repair and merge, in any     *)
(* order and with or without the merge driver: a clone's file has every       *)
(* decision and every amendment of its history.                              *)
THEOREM NothingIsLost == Spec => []NothingLost
<1>1. Init => NothingLost
  BY DEF Init, NothingLost
<1>2. Typed /\ NothingLost /\ [Next]_vars => NothingLost'
  BY NothingLostNext
<1> QED BY <1>1, <1>2, AlwaysTyped, PTL DEF Spec

-----------------------------------------------------------------------------
(* An id stays with the older decision.                                      *)

(* What makes a fast-forward safe: a clone's history ends in a commit that     *)
(* nobody has without the rest of it, and a clone that has all of another's   *)
(* history keeps what its file says.                                         *)
HistoryEnds ==
  \A d \in Clones :
    \/ known[d] = {} /\ file[d] = Empty
    \/ \E t \in known[d] : \A e \in Clones : t \in known[e] => known[d] \subseteq known[e]

HistoryKept ==
  \A c, d \in Clones : known[c] \subseteq known[d] => Keeps(file[c], file[d])

LEMMA HistoryInit == Init => HistoryEnds /\ HistoryKept
<1> HAVE Init
<1>1. \A c \in Clones : file[c] = Empty /\ known[c] = {}
  BY DEF Init
<1> QED BY <1>1 DEF HistoryEnds, HistoryKept, Keeps, Empty

LEMMA HistoryNext ==
  ASSUME Typed, HistoryEnds, HistoryKept, [Next]_vars
  PROVE  HistoryEnds' /\ HistoryKept'
<1>1. CASE UNCHANGED vars
  <2>1. team' = team /\ file' = file /\ known' = known
    BY <1>1 DEF vars
  <2>2. HistoryEnds'
    BY <2>1 DEF HistoryEnds, Clones
  <2>3. HistoryKept'
    BY <2>1 DEF HistoryKept, Clones
  <2> QED BY <2>2, <2>3
<1>2. CASE \E c, d \in Clones : FastForward(c, d)
  <2>1. PICK c \in Clones, d \in Clones : FastForward(c, d)
    BY <1>2
  <2>2. /\ Clones' = Clones
        /\ file'[c] = file[d] /\ known'[c] = known[d]
        /\ \A e \in Clones \ {c} : file'[e] = file[e] /\ known'[e] = known[e]
    BY <2>1 DEF FastForward, Typed, TypeOK, Clones
  <2>3. HistoryEnds'
    BY <2>2 DEF HistoryEnds
  <2>4. HistoryKept'
    <3> SUFFICES ASSUME NEW x \in Clones, NEW y \in Clones, known'[x] \subseteq known'[y]
                 PROVE  Keeps(file'[x], file'[y])
      BY <2>2 DEF HistoryKept
    <3> DEFINE was(z) == IF z = c THEN d ELSE z
    <3>1. \A z \in Clones : was(z) \in Clones /\ file'[z] = file[was(z)] /\ known'[z] = known[was(z)]
      BY <2>2
    <3> HIDE DEF was
    <3> QED BY <3>1 DEF HistoryKept
  <2> QED BY <2>3, <2>4
<1>3. CASE \E c, S, f : Committed(c, S, f)
  <2>1. PICK c, S, f : Committed(c, S, f)
    BY <1>3
  <2>2. /\ c \in Clones /\ S \subseteq Clones /\ Clones' = Clones
        /\ file'[c] = f
        /\ known'[c] = (UNION {known[e] : e \in S}) \cup {commits + 1}
        /\ \A d \in Clones \ {c} : file'[d] = file[d] /\ known'[d] = known[d]
        /\ \A d \in Clones : commits + 1 \notin known[d]
    BY <2>1, CommittedKnown
  <2>3. \A e \in S : known[e] \subseteq known'[c]
    BY <2>2
  <2>4. HistoryEnds'
    <3> SUFFICES ASSUME NEW d \in Clones
                 PROVE  \/ known'[d] = {} /\ file'[d] = Empty
                        \/ \E t \in known'[d] : \A e \in Clones :
                              t \in known'[e] => known'[d] \subseteq known'[e]
      BY <2>2 DEF HistoryEnds
    <3>1. CASE d = c
      BY <2>2, <3>1
    <3>2. CASE d # c /\ known[d] = {} /\ file[d] = Empty
      BY <2>2, <3>2
    <3>3. CASE /\ d # c
               /\ \E t \in known[d] : \A e \in Clones : t \in known[e] => known[d] \subseteq known[e]
      <4>1. PICK t \in known[d] : \A e \in Clones : t \in known[e] => known[d] \subseteq known[e]
        BY <3>3
      <4>2. t # commits + 1
        BY <2>2, <4>1
      <4>3. ASSUME NEW e \in Clones, t \in known'[e]
            PROVE  known[d] \subseteq known'[e]
        <5>1. CASE e = c
          <6>1. PICK s \in S : t \in known[s]
            BY <2>2, <4>2, <4>3, <5>1
          <6> QED BY <2>2, <2>3, <4>1, <5>1, <6>1
        <5>2. CASE e # c
          BY <2>2, <4>1, <4>3, <5>2
        <5> QED BY <5>1, <5>2
      <4> QED BY <2>2, <3>3, <4>1, <4>3
    <3> QED BY <3>1, <3>2, <3>3 DEF HistoryEnds
  <2>5. HistoryKept'
    <3> SUFFICES ASSUME NEW x \in Clones, NEW y \in Clones, known'[x] \subseteq known'[y]
                 PROVE  Keeps(file'[x], file'[y])
      BY <2>2 DEF HistoryKept
    <3>1. IsLog(f) /\ \A e \in Clones : IsLog(file[e])
      BY <2>1 DEF Committed, Typed
    <3>2. CASE x = c /\ y = c
      BY <2>2, <3>1, <3>2, KeepsMore
    <3>3. CASE x = c /\ y # c
      BY <2>2, <3>3
    <3>4. CASE x # c /\ y # c
      BY <2>2, <3>4 DEF HistoryKept
    <3>5. CASE x # c /\ y = c
      <4>1. known[x] \subseteq known'[c]
        BY <2>2, <3>5
      <4>2. CASE known[x] = {} /\ file[x] = Empty
        BY <2>2, <3>5, <4>2 DEF Keeps, Empty
      <4>3. CASE \E t \in known[x] : \A e \in Clones : t \in known[e] => known[x] \subseteq known[e]
        <5>1. PICK t \in known[x] : \A e \in Clones : t \in known[e] => known[x] \subseteq known[e]
          BY <4>3
        <5>2. PICK s \in S : t \in known[s]
          BY <2>2, <4>1, <5>1
        <5>3. s \in Clones /\ known[x] \subseteq known[s]
          BY <2>2, <5>1, <5>2
        <5>4. Keeps(file[x], file[s])
          BY <5>3 DEF HistoryKept
        <5>5. Keeps(file[s], f)
          BY <2>1, <5>2 DEF Committed
        <5>6. Keeps(file[x], f)
          <6> HIDE DEF Keeps, IsLog
          <6> QED BY <3>1, <5>3, <5>4, <5>5, KeepsTransitive
        <5> QED BY <2>2, <3>5, <5>6
      <4> QED BY <4>2, <4>3 DEF HistoryEnds
    <3> QED BY <3>2, <3>3, <3>4, <3>5
  <2> QED BY <2>4, <2>5
<1> QED BY <1>1, <1>2, <1>3, StepKinds

(* A step keeps what a clone's file says.                                    *)
LEMMA StepKeeps ==
  ASSUME Typed, HistoryEnds, HistoryKept, [Next]_vars, NEW c \in Clones
  PROVE  Keeps(file[c], file'[c])
<1> IsLog(file[c])
  BY DEF Typed
<1>1. CASE file'[c] = file[c]
  BY <1>1, KeepsMore
<1>2. CASE UNCHANGED vars
  BY <1>1, <1>2 DEF vars
<1>3. CASE \E x, d \in Clones : FastForward(x, d)
  <2>1. PICK x \in Clones, d \in Clones : FastForward(x, d)
    BY <1>3
  <2>2. CASE x = c
    BY <2>1, <2>2 DEF FastForward, Typed, TypeOK, HistoryKept
  <2>3. CASE x # c
    BY <1>1, <2>1, <2>3 DEF FastForward, Typed, TypeOK
  <2> QED BY <2>2, <2>3
<1>4. CASE \E x, S, f : Committed(x, S, f)
  <2>1. PICK x, S, f : Committed(x, S, f)
    BY <1>4
  <2>2. CASE x # c
    BY <1>1, <2>1, <2>2, CommittedKnown
  <2>3. CASE x = c
    <3>1. Keeps(file[c], f)
      BY <2>1, <2>3 DEF Committed
    <3>2. file'[c] = f
      BY <2>1, <2>3, CommittedKnown
    <3> QED BY <3>1, <3>2
  <2> QED BY <2>2, <2>3
<1> QED BY <1>2, <1>3, <1>4, StepKinds

(* An id that named a decision in a clone names that decision or an older one *)
(* after every step of any team: a fast-forward to a clone with more history, *)
(* a merge of either kind, a repair.                                         *)
THEOREM IdsStay == Spec => IdsStayWithTheOlder
<1> DEFINE Stays == \A c \in Clones : \A r \in file[c].bases :
                     \E s \in file'[c].bases : s.id = r.id /\ s.body.at <= r.body.at
<1>1. Typed /\ HistoryEnds /\ HistoryKept /\ [Next]_vars => (HistoryEnds /\ HistoryKept)'
  BY HistoryNext
<1>2. Typed /\ HistoryEnds /\ HistoryKept /\ [Next]_vars => [Stays]_vars
  <2> SUFFICES ASSUME Typed, HistoryEnds, HistoryKept, [Next]_vars PROVE Stays
    OBVIOUS
  <2>1. \A c \in Clones : Keeps(file[c], file'[c])
    BY StepKeeps
  <2> QED BY <2>1 DEF Keeps
<1>3. Spec => [](HistoryEnds /\ HistoryKept)
  BY HistoryInit, <1>1, AlwaysTyped, PTL DEF Spec
<1> QED BY <1>2, <1>3, AlwaysTyped, PTL DEF Spec, IdsStayWithTheOlder

-----------------------------------------------------------------------------
(* Successors, and what a repair leaves.                                     *)

LEMMA SuccessorsNext ==
  ASSUME Typed, \A c \in Clones : SuccessorsHeld(file[c]), [Next]_vars
  PROVE  \A c \in Clones' : SuccessorsHeld(file'[c])
<1>1. CASE UNCHANGED vars
  BY <1>1 DEF vars, Clones
<1>2. CASE \E c, d \in Clones : FastForward(c, d)
  BY <1>2 DEF FastForward, Typed, TypeOK, Clones
<1>3. CASE \E c, S, f : Committed(c, S, f)
  <2>1. PICK c, S, f : Committed(c, S, f)
    BY <1>3
  <2>2. SuccessorsHeld(f)
    BY <2>1 DEF Committed
  <2> HIDE DEF SuccessorsHeld
  <2> QED BY <2>1, <2>2, CommittedKnown
<1> QED BY <1>1, <1>2, <1>3, StepKinds

(* The successor that an amendment names is the decision its author recorded, *)
(* or the amendment is flagged: in every team, with shared hosts, releases    *)
(* that write no host and files that have not been repaired.                 *)
THEOREM SuccessorsAreHeld == Spec => []SuccessorsStay
<1> DEFINE AllHeld == \A c \in Clones : SuccessorsHeld(file[c])
<1>1. Init => AllHeld
  BY DEF Init, SuccessorsHeld, Empty
<1>2. Typed /\ AllHeld /\ [Next]_vars => AllHeld'
  BY SuccessorsNext
<1>3. AllHeld => SuccessorsStay
  <2> SUFFICES ASSUME AllHeld, NEW c \in Clones, NEW n \in file[c].notes
               PROVE  \/ n.next = NoId \/ n.nextAmb
                      \/ \E r \in file[c].bases : r.id = n.next /\ r.body = n.nextMeant
    BY DEF SuccessorsStay
  <2>1. SuccessorHeld(file[c], n)
    BY DEF SuccessorsHeld
  <2> QED BY <2>1 DEF SuccessorHeld
<1> QED BY <1>1, <1>2, <1>3, AlwaysTyped, PTL DEF Spec

(* Neither a repair nor a driver merge leaves two decisions under one id.     *)
THEOREM RepairsDoResolve == Spec => RepairsResolve
<1> DEFINE Resolved == \A c \in Clones :
                     /\ ~IdsDistinct(file'[c])
                     /\ file'[c] # file[c]
                     => ~Repair(c) /\ \A d \in Clones : ~DriverMerge(c, d)
<1>1. Typed => Resolved
  <2> SUFFICES ASSUME Typed, NEW c \in Clones, ~IdsDistinct(file'[c])
               PROVE  ~Repair(c) /\ \A d \in Clones : ~DriverMerge(c, d)
    OBVIOUS
  <2>1. \A e \in Clones : IsLog(file[e])
    BY DEF Typed
  <2>2. \A f, h : Commit(c, f, h) => file'[c] = f
    BY DEF Commit, Typed, TypeOK
  <2>3. ~Repair(c)
    BY <2>1, <2>2, NormalizeResolves DEF Repair
  <2>4. \A d \in Clones : ~DriverMerge(c, d)
    BY <2>1, <2>2, NormalizeResolves, UnionIsALog DEF DriverMerge
  <2> QED BY <2>3, <2>4
<1>2. Typed /\ [Next]_vars => [Resolved]_vars
  BY <1>1
<1> QED BY <1>2, AlwaysTyped, PTL DEF Spec, RepairsResolve

-----------------------------------------------------------------------------
(* Amendments, between two clones.                                           *)

(* Clone c's file has the id for a decision of that time or an older one.      *)
WrittenBy(c, id, at) == \E s \in file[c].bases : s.id = id /\ s.body.at <= at

(* An id is a number, or hashed from its decision; and the clone on whose host   *)
(* a decision was recorded has had it under its number.                        *)
BaseSound(r) ==
  /\ r.id.of \in {NoBody, r.body}
  /\ r.body \in recorded
  /\ \A c \in Clones : r.id.of = NoBody /\ r.body.host = HostOf[c] => WrittenBy(c, r.id, r.body.at)

(* An amendment that is not flagged is attached to what its author was shown, and *)
(* so is its uid edge, if it has one; and its author's clone has had the id for  *)
(* that.                                                                     *)
NoteSound(f, n) ==
  /\ n.amb \/ [id |-> n.id, body |-> n.meant] \in f.bases
  /\ n.about = n.meant \/ (n.about = NoBody /\ n.host = NoHost)
  /\ n.host = NoHost \/ \E c \in Clones : n.host = HostOf[c]
  /\ \A c \in Clones : n.id.of = NoBody /\ n.host = HostOf[c] => WrittenBy(c, n.id, n.meant.at)

Sound(f) ==
  /\ IdsDistinct(f)
  /\ \A r \in f.bases : BaseSound(r)
  /\ \A n \in f.notes : NoteSound(f, n)

ApartInv ==
  /\ \A b \in recorded : b.at \in Nat /\ \E e \in Clones : b.host = HostOf[e]
  /\ \A x, y \in recorded : x.at = y.at => x = y
  /\ \A c \in Clones : Sound(file[c])

Settled == Typed /\ HistoryEnds /\ HistoryKept /\ Apart /\ ApartInv

LEMMA SettledFacts ==
  ASSUME Settled
  PROVE  /\ \A c \in Clones : IsLog(file[c]) /\ Sound(file[c]) /\ HostOf[c] \in Hosts
         /\ NoBody \notin Body /\ commits \in Nat
<1>1. NoBody \notin Body
  BY NoHostAssumption DEF NoBody, Body
<1> QED BY <1>1, CommitsType DEF Settled, Typed, ApartInv

(* Whoever is followed from his host to a loser meant the loser: had he meant the *)
(* winner, his clone would have had the winner under this id, and so would the   *)
(* clone of the winner; and there is no third that could have the loser there.    *)
LEMMA FollowedMeantLoser ==
  ASSUME Settled, NEW c \in Clones, NEW d \in Clones, c # d,
         NEW u, u = UnionDedup(file[c], file[d]), IsLog(u),
         NEW n \in u.notes, NoteSound(u, n), ~n.amb, Follows(u, n.id, n.host)
  PROVE  Named(u, n)
<1> SUFFICES ASSUME ~Named(u, n) PROVE FALSE
  OBVIOUS
<1> DEFINE w == n.meant
           rn == [id |-> n.id, body |-> w]
<1>1. PICK l \in LosersOf(u, n.id, n.host) : TRUE
  BY LoserOfIsLost
<1>2. /\ l \in Lost(u) /\ l \in u.bases /\ l.body \in Body /\ l \in Base
      /\ l.id = n.id /\ l.body.host = n.host
  BY <1>1, LostAreRecords DEF LosersOf
<1>3. n.host \in Hosts /\ n.host # NoHost
  BY <1>2, NoHostAssumption DEF Body
<1>4. rn \in u.bases /\ n.about = w
  BY <1>3 DEF NoteSound
<1>5. rn \notin Lost(u)
  BY <1>4 DEF Named
<1>6. w = Winner(u, n.id)
  BY <1>4, <1>5 DEF Lost
<1>7. \A r \in u.bases : BaseSound(r)
  BY SettledFacts DEF Sound, UnionDedup
<1>8. w \in recorded /\ l.body \in recorded /\ rn.id.of \in {NoBody, w} /\ l.id.of \in {NoBody, l.body}
  BY <1>2, <1>4, <1>7 DEF BaseSound
<1>9. w # l.body /\ w.host # n.host
  BY <1>2, <1>6 DEF Lost, Follows
<1>10. w.at < l.body.at
  <2>1. l.body \in Holders(u, l.id)
    BY <1>2 DEF Holders
  <2>2. w.at <= l.body.at
    BY <1>2, <1>6, <2>1, WinnerIsOldest
  <2>3. w.at \in Nat /\ l.body.at \in Nat /\ w.at # l.body.at
    BY <1>8, <1>9 DEF Settled, ApartInv
  <2> QED BY <2>2, <2>3
<1>11. n.id.of = NoBody
  BY <1>2, <1>8, <1>9, SettledFacts
<1>12. PICK z \in Clones : n.host = HostOf[z]
  BY <1>3 DEF NoteSound
<1>13. PICK y \in Clones : w.host = HostOf[y]
  BY <1>8 DEF Settled, ApartInv
<1>14. WrittenBy(z, n.id, w.at)
  BY <1>11, <1>12 DEF NoteSound
<1>15. WrittenBy(y, n.id, w.at)
  BY <1>4, <1>7, <1>11, <1>13 DEF BaseSound
<1>16. y # z /\ c \in {y, z} /\ d \in {y, z}
  BY <1>9, <1>12, <1>13 DEF Settled, Apart
<1>17. PICK x \in Clones : x \in {y, z} /\ l \in file[x].bases
  BY <1>2, <1>16 DEF UnionDedup
<1>18. PICK s \in file[x].bases : s.id = n.id /\ s.body.at <= w.at
  BY <1>14, <1>15, <1>17 DEF WrittenBy
<1>19. s = l
  BY <1>2, <1>17, <1>18, SettledFacts DEF Sound, IdsDistinct
<1>20. w.at \in Nat /\ l.body.at \in Nat
  BY <1>8 DEF Settled, ApartInv
<1> QED BY <1>10, <1>18, <1>19, <1>20

(* So a merge by the driver leaves a sound file.                               *)
LEMMA MergeIsSound ==
  ASSUME Settled, NEW c \in Clones, NEW d \in Clones, c # d,
         NEW u, u = UnionDedup(file[c], file[d])
  PROVE  Sound(Normalize(u))
<1>1. IsLog(u)
  BY SettledFacts, UnionIsALog
<1>2. \A r \in u.bases : BaseSound(r)
  BY SettledFacts DEF Sound, UnionDedup
<1>3. \A n \in u.notes : NoteSound(u, n)
  BY SettledFacts DEF Sound, UnionDedup, NoteSound
<1>4. \A b \in Body : NewId(u, b).of = b /\ b # NoBody
  BY <1>1, NewIdIsFresh, SettledFacts DEF Hashed
<1>5. ASSUME NEW r \in MovedBases(u)  PROVE BaseSound(r)
  <2>1. CASE r \in u.bases
    BY <1>2, <2>1
  <2>2. CASE r \notin u.bases
    <3>1. PICK q \in Lost(u) : r = [q EXCEPT !.id = NewId(u, q.body)]
      BY <2>2 DEF MovedBases
    <3>2. q \in u.bases /\ q \in Base /\ q.body \in Body
      BY <1>1, LostAreRecords
    <3>3. r.id = NewId(u, q.body) /\ r.body = q.body
      BY <3>1, <3>2 DEF Base
    <3> QED BY <1>2, <1>4, <3>2, <3>3 DEF BaseSound
  <2> QED BY <2>1, <2>2
<1>6. ASSUME NEW n \in u.notes  PROVE NoteSound(Normalize(u), MovedNote(u, n))
  <2> DEFINE m == MovedNote(u, n)
             rn == [id |-> n.id, body |-> n.meant]
  <2>1. n \in Note
    BY <1>1 DEF IsLog, File
  <2>2. /\ m.id = MovedTo(u, n) /\ m.amb = (n.amb \/ Ambiguous(u, n))
        /\ m.about = n.about /\ m.meant = n.meant /\ m.host = n.host
    BY <2>1 DEF MovedNote, Note
  <2>3. /\ Named(u, n) => n.about \in Body /\ MovedTo(u, n) = NewId(u, n.about)
        /\ MovedTo(u, n) = n.id \/ \E b \in Body : MovedTo(u, n) = NewId(u, b)
    <3>1. Named(u, n) => n.about \in Body
      BY <1>1, LostAreRecords DEF Named
    <3> QED BY <1>1, <3>1, LoserOfIsLost DEF MovedTo
  <2>4. m.id.of = NoBody => m.id = n.id
    BY <1>4, <2>2, <2>3
  <2>5. ASSUME ~m.amb  PROVE [id |-> m.id, body |-> n.meant] \in MovedBases(u)
    <3>1. ~n.amb /\ ~Ambiguous(u, n)
      BY <2>2, <2>5
    <3>2. rn \in u.bases /\ (n.about = n.meant \/ n.host = NoHost)
      BY <1>3, <3>1 DEF NoteSound
    <3>3. CASE Named(u, n)
      <4>1. PICK r \in Lost(u) : r.body = n.about
        BY <3>3 DEF Named
      <4>2. r \in Base /\ r.body \in Body /\ n.about = n.meant
        BY <1>1, <1>3, <4>1, LostAreRecords, SettledFacts DEF NoteSound
      <4>3. [r EXCEPT !.id = NewId(u, r.body)] = [id |-> NewId(u, n.meant), body |-> n.meant]
        BY <4>1, <4>2 DEF Base
      <4>4. [r EXCEPT !.id = NewId(u, r.body)] \in MovedBases(u)
        BY DEF MovedBases
      <4>5. m.id = NewId(u, n.meant)
        BY <2>2, <2>3, <3>3, <4>2
      <4> QED BY <4>3, <4>4, <4>5
    <3>4. CASE ~Named(u, n)
      <4>1. ~Follows(u, n.id, n.host)
        BY <1>1, <1>3, <3>1, <3>4, FollowedMeantLoser
      <4>2. m.id = n.id
        BY <2>2, <3>4, <4>1 DEF MovedTo
      <4>3. rn \notin Lost(u)
        <5> SUFFICES ASSUME rn \in Lost(u) PROVE FALSE
          OBVIOUS
        <5>1. n.about # n.meant
          BY <3>4 DEF Named
        <5>2. Split(u, n.id) /\ n.host = NoHost
          BY <3>2, <5>1 DEF Split
        <5> QED BY <3>1, <3>4, <4>1, <5>2 DEF Ambiguous
      <4> QED BY <3>2, <4>2, <4>3 DEF MovedBases
    <3> QED BY <3>3, <3>4
  <2>6. NoteSound(u, n)
    BY <1>3
  <2> HIDE DEF m
  <2>7. \A e \in Clones : m.id.of = NoBody /\ m.host = HostOf[e] => WrittenBy(e, m.id, m.meant.at)
    BY <2>2, <2>4, <2>6 DEF NoteSound
  <2>8. m.amb \/ [id |-> m.id, body |-> m.meant] \in Normalize(u).bases
    BY <2>2, <2>5 DEF Normalize
  <2>9. NoteSound(Normalize(u), m)
    BY <2>2, <2>6, <2>7, <2>8 DEF NoteSound
  <2> QED BY <2>9 DEF m
<1>7. IdsDistinct(Normalize(u))
  BY <1>1, NormalizeResolves
<1> QED BY <1>5, <1>6, <1>7 DEF Sound, Normalize

(* What was sound stays so, since clones keep their ids for what is older.       *)
LEMMA StepFacts ==
  ASSUME Settled, [Next]_vars
  PROVE  /\ team' = team /\ Clones' = Clones /\ HostOf' = HostOf /\ recorded \subseteq recorded'
         /\ \A c \in Clones : Keeps(file[c], file'[c])
         /\ Typed'
<1>1. team' = team /\ recorded \subseteq recorded'
  BY StepKinds DEF Settled, vars, FastForward, Committed, Commit
<1>2. ASSUME NEW c \in Clones  PROVE Keeps(file[c], file'[c])
  BY StepKeeps DEF Settled
<1> QED BY <1>1, <1>2, TypedNext DEF Settled, Clones, HostOf

LEMMA SoundStays ==
  ASSUME Settled, [Next]_vars
  PROVE  /\ \A c \in Clones : \A id : \A at \in Nat : WrittenBy(c, id, at) => WrittenBy(c, id, at)'
         /\ \A r : BaseSound(r) /\ r.body.at \in Nat => BaseSound(r)'
         /\ \A f, n : NoteSound(f, n) /\ n.meant.at \in Nat => NoteSound(f, n)'
<1>1. ASSUME NEW c \in Clones, NEW id, NEW at \in Nat, WrittenBy(c, id, at)
      PROVE  WrittenBy(c, id, at)'
  <2>1. PICK s \in file[c].bases : s.id = id /\ s.body.at <= at
    BY <1>1 DEF WrittenBy
  <2>2. PICK q \in file'[c].bases : q.id = s.id /\ q.body.at <= s.body.at
    BY StepFacts DEF Keeps
  <2>3. s.body.at \in Nat /\ q.body.at \in Nat
    <3>1. IsLog(file[c]) /\ IsLog(file'[c])
      BY SettledFacts, StepFacts DEF Typed
    <3> QED BY <3>1 DEF IsLog, File, Base, Body
  <2>4. q.id = id /\ q.body.at <= at
    BY <2>1, <2>2, <2>3
  <2> QED BY <2>4 DEF WrittenBy
<1>2. ASSUME NEW r, BaseSound(r), r.body.at \in Nat  PROVE BaseSound(r)'
  BY <1>1, <1>2, StepFacts DEF BaseSound
<1>3. ASSUME NEW f, NEW n, NoteSound(f, n), n.meant.at \in Nat  PROVE NoteSound(f, n)'
  BY <1>1, <1>3, StepFacts DEF NoteSound
<1> QED BY <1>1, <1>2, <1>3

LEMMA FileStays ==
  ASSUME Settled, [Next]_vars, NEW f, IsLog(f), Sound(f)
  PROVE  Sound(f)'
<1>1. \A r \in f.bases : r.body.at \in Nat
  BY DEF IsLog, File, Base, Body
<1>2. \A n \in f.notes : n.meant.at \in Nat
  BY DEF IsLog, File, Note, Body
<1> QED BY <1>1, <1>2, SoundStays DEF Sound, IdsDistinct

(* A clone adds a decision under the next number, or amendments of what its file *)
(* has, or both.                                                             *)
LEMMA AddIsSound ==
  ASSUME Settled, [Next]_vars, NEW c \in Clones, NEW f, file'[c] = f, IsLog(f),
         \/ f.bases = file[c].bases
         \/ f.bases = file[c].bases \cup {NewBase(c)} /\ NewBody(c) \in recorded',
         \A n \in f.notes \ file[c].notes : \E r \in file[c].bases :
           /\ n.id = r.id /\ n.meant = r.body /\ n.amb = FALSE
           /\ \/ n.host = HostOf[c] /\ n.about = r.body
              \/ n.host = NoHost /\ n.about = NoBody
  PROVE  Sound(f)'
<1> DEFINE b == NewBase(c)
<1>1. /\ IsLog(file[c]) /\ Sound(file[c]) /\ \A e \in Clones : HostOf[e] \in Hosts
      /\ \A e \in Clones : HostOf[e] = HostOf[c] => e = c
  BY SettledFacts DEF Settled, Apart
<1>2. /\ b \in Base /\ b.body = NewBody(c) /\ b.body.host = HostOf[c] /\ b.id.of = NoBody
      /\ \A r \in file[c].bases : r.id # b.id
  BY NewBaseType DEF Settled, NewBase, NewBody, Numbered
<1>3. IdsDistinct(f)
  BY <1>1, <1>2 DEF Sound, IdsDistinct
<1>4. \A r \in f.bases : r.body.at \in Nat /\ r.body.at <= r.body.at
  BY DEF IsLog, File, Base, Body
<1>5. ASSUME NEW r \in f.bases  PROVE WrittenBy(c, r.id, r.body.at)'
  BY <1>4 DEF WrittenBy
<1>6. ASSUME NEW r \in f.bases  PROVE BaseSound(r)'
  <2>1. CASE r \in file[c].bases
    BY <1>1, <1>4, <2>1, SoundStays DEF Sound
  <2>2. CASE r \notin file[c].bases
    <3>1. r = b /\ NewBody(c) \in recorded'
      BY <2>2
    <3> QED BY <1>1, <1>2, <1>5, <3>1, StepFacts DEF BaseSound
  <2> QED BY <2>1, <2>2
<1>7. ASSUME NEW n \in f.notes  PROVE NoteSound(f, n)'
  <2>1. CASE n \in file[c].notes
    <3>1. NoteSound(f, n)
      BY <1>1, <2>1 DEF Sound, NoteSound
    <3>2. n.meant.at \in Nat
      BY DEF IsLog, File, Note, Body
    <3> QED BY <3>1, <3>2, SoundStays
  <2>2. CASE n \notin file[c].notes
    <3>1. PICK r \in file[c].bases :
            /\ n.id = r.id /\ n.meant = r.body /\ n.amb = FALSE
            /\ \/ n.host = HostOf[c] /\ n.about = r.body
               \/ n.host = NoHost /\ n.about = NoBody
      BY <2>2
    <3>2. r \in f.bases /\ r \in Base
      BY DEF IsLog, File
    <3>3. [id |-> n.id, body |-> n.meant] = r
      BY <3>1, <3>2 DEF Base
    <3>4. \A e \in Clones : n.host = HostOf[e] => WrittenBy(e, n.id, n.meant.at)'
      BY <1>1, <1>5, <3>1, <3>2, NoHostAssumption
    <3> QED BY <3>1, <3>2, <3>3, <3>4, StepFacts DEF NoteSound
  <2> QED BY <2>1, <2>2
<1> QED BY <1>3, <1>6, <1>7 DEF Sound, IdsDistinct

LEMMA SoundThere ==
  ASSUME NEW c, NEW f, file'[c] = f, Sound(f)'
  PROVE  Sound(file[c])'
BY DEF Sound, IdsDistinct, NoteSound

LEMMA CommitSound ==
  ASSUME Settled, [Next]_vars, NEW c \in Clones,
         Record(c) \/ Amend(c) \/ Supersede(c) \/ Repair(c)
  PROVE  Sound(file[c])'
<1>1. /\ IsLog(file[c]) /\ Sound(file[c]) /\ file \in [Clones -> File]
      /\ NewBase(c) \in Base /\ NewBody(c) \in Body
  BY SettledFacts, NewBaseType DEF Settled, Typed, TypeOK
<1>2. PICK f : f = file'[c]
  OBVIOUS
<1>3. IsLog(f)
  BY <1>2, StepFacts DEF Typed
<1>4. ASSUME NEW g, Commit(c, g, known[c])  PROVE f = g
  BY <1>1, <1>2, <1>4 DEF Commit
<1>5. file[c] = [bases |-> file[c].bases, notes |-> file[c].notes]
  BY <1>1 DEF File
<1>6. ASSUME NEW r \in file[c].bases, NEW p \in ShownAndFirst(file[c], r.id)
      PROVE  p[1] = r.body /\ p[2] = r.body
  <2>1. Holders(file[c], r.id) = {r.body}
    BY <1>1 DEF Holders, Sound, IdsDistinct
  <2> QED BY <2>1 DEF ShownAndFirst
<1>7. ASSUME NEW r \in file[c].bases, NEW p \in ShownAndFirst(file[c], r.id)
      PROVE  LET n == NewNote(c, r.id, p[1], p[2]) IN
             /\ n \in Note
             /\ n.id = r.id /\ n.meant = r.body /\ n.amb = FALSE
             /\ \/ n.host = HostOf[c] /\ n.about = r.body
                \/ n.host = NoHost /\ n.about = NoBody
  <2>1. NewNote(c, r.id, p[1], p[2]) \in Note
    BY NewNoteType DEF Settled
  <2> QED BY <1>6, <2>1 DEF NewNote
<1>8. CASE Record(c)
  <2>1. f = [bases |-> file[c].bases \cup {NewBase(c)}, notes |-> file[c].notes]
    BY <1>4, <1>5, <1>8 DEF Record
  <2>2. NewBody(c) \in recorded'
    BY <1>8 DEF Record
  <2>3. f.bases = file[c].bases \cup {NewBase(c)} /\ f.notes = file[c].notes
    BY <2>1
  <2>4. Sound(f)'
    BY <1>2, <1>3, <2>2, <2>3, AddIsSound
  <2> QED BY <1>2, <2>4, SoundThere
<1>9. CASE Amend(c)
  <2>1. PICK r \in file[c].bases : \E p \in ShownAndFirst(file[c], r.id) :
          Commit(c, [file[c] EXCEPT !.notes = @ \cup {NewNote(c, r.id, p[1], p[2])}], known[c])
    BY <1>9 DEF Amend
  <2>2. PICK p \in ShownAndFirst(file[c], r.id) :
          Commit(c, [file[c] EXCEPT !.notes = @ \cup {NewNote(c, r.id, p[1], p[2])}], known[c])
    BY <2>1
  <2> DEFINE n == NewNote(c, r.id, p[1], p[2])
  <2>3. f = [bases |-> file[c].bases, notes |-> file[c].notes \cup {n}]
    BY <1>4, <1>5, <2>2
  <2>4. /\ n.id = r.id /\ n.meant = r.body /\ n.amb = FALSE
        /\ \/ n.host = HostOf[c] /\ n.about = r.body
           \/ n.host = NoHost /\ n.about = NoBody
    BY <1>7
  <2> HIDE DEF n
  <2>5. f.bases = file[c].bases /\ f.notes = file[c].notes \cup {n}
    BY <2>3
  <2>6. Sound(f)'
    BY <1>2, <1>3, <2>4, <2>5, AddIsSound
  <2> QED BY <1>2, <2>6, SoundThere
<1>10. CASE Supersede(c)
  <2>1. PICK r \in file[c].bases : \E p \in ShownAndFirst(file[c], r.id) :
          Commit(c, [bases |-> file[c].bases \cup {NewBase(c)},
                     notes |-> file[c].notes \cup
                                 {[NewNote(c, r.id, p[1], p[2]) EXCEPT
                                     !.next = NewBase(c).id, !.nextMeant = NewBody(c)]}],
                 known[c])
    BY <1>10 DEF Supersede
  <2>2. PICK p \in ShownAndFirst(file[c], r.id) :
          Commit(c, [bases |-> file[c].bases \cup {NewBase(c)},
                     notes |-> file[c].notes \cup
                                 {[NewNote(c, r.id, p[1], p[2]) EXCEPT
                                     !.next = NewBase(c).id, !.nextMeant = NewBody(c)]}],
                 known[c])
    BY <2>1
  <2> DEFINE n == NewNote(c, r.id, p[1], p[2])
             m == [n EXCEPT !.next = NewBase(c).id, !.nextMeant = NewBody(c)]
  <2>3. /\ n \in Note /\ n.id = r.id /\ n.meant = r.body /\ n.amb = FALSE
        /\ \/ n.host = HostOf[c] /\ n.about = r.body
           \/ n.host = NoHost /\ n.about = NoBody
    BY <1>7
  <2>4. /\ m.id = r.id /\ m.meant = r.body /\ m.amb = FALSE
        /\ \/ m.host = HostOf[c] /\ m.about = r.body
           \/ m.host = NoHost /\ m.about = NoBody
    <3> HIDE DEF n
    <3> QED BY <2>3 DEF Note
  <2>5. f = [bases |-> file[c].bases \cup {NewBase(c)}, notes |-> file[c].notes \cup {m}]
    BY <1>4, <2>2
  <2>6. NewBody(c) \in recorded'
    BY <1>10 DEF Supersede
  <2> HIDE DEF n, m
  <2>7. f.bases = file[c].bases \cup {NewBase(c)} /\ f.notes = file[c].notes \cup {m}
    BY <2>5
  <2>8. Sound(f)'
    BY <1>2, <1>3, <2>4, <2>6, <2>7, AddIsSound
  <2> QED BY <1>2, <2>8, SoundThere
<1>11. CASE Repair(c)
  <2>1. PICK r \in file[c].bases : Cardinality(Holders(file[c], r.id)) > 1
    BY <1>11 DEF Repair, Collides, Collided
  <2>2. Holders(file[c], r.id) = {r.body}
    BY <1>1 DEF Holders, Sound, IdsDistinct
  <2>3. Cardinality({r.body}) = 1
    BY FS_Singleton
  <2> QED BY <2>1, <2>2, <2>3
<1> QED BY <1>8, <1>9, <1>10, <1>11

LEMMA PullSound ==
  ASSUME Settled, [Next]_vars, NEW c \in Clones, NEW d \in Clones, Pull(c, d)
  PROVE  Sound(file[c])'
<1>1. /\ file \in [Clones -> File] /\ IsLog(file[d]) /\ Sound(file[d]) /\ c \in Drivers
      /\ IsLog(UnionDedup(file[c], file[d]))
  BY SettledFacts, UnionIsALog DEF Settled, Typed, TypeOK, Apart
<1>2. CASE FastForward(c, d)
  <2>1. PICK f : f = file[d]
    OBVIOUS
  <2>2. file'[c] = f
    BY <1>1, <1>2, <2>1 DEF FastForward
  <2> QED BY <1>1, <2>1, <2>2, FileStays, SoundThere
<1>3. CASE DriverMerge(c, d)
  <2>1. PICK u : u = UnionDedup(file[c], file[d])
    OBVIOUS
  <2>2. c # d
    BY <1>3 DEF DriverMerge, Diverged
  <2>3. PICK f : f = Normalize(u)
    OBVIOUS
  <2>4. Sound(f) /\ IsLog(f)
    BY <1>1, <2>1, <2>2, <2>3, MergeIsSound, NormalizeIsALog
  <2>5. file'[c] = f
    BY <1>1, <1>3, <2>1, <2>3 DEF DriverMerge, Commit
  <2> QED BY <2>4, <2>5, FileStays, SoundThere
<1> QED BY <1>1, <1>2, <1>3 DEF Pull, TextMerge

(* Only the clone that takes the step has another file.                        *)
LEMMA OthersSound ==
  ASSUME Settled, [Next]_vars, NEW c \in Clones, file'[c] = file[c]
  PROVE  Sound(file[c])'
<1>1. PICK f : f = file[c]
  OBVIOUS
<1> QED BY <1>1, SettledFacts, FileStays, SoundThere

LEMMA ApartNext ==
  ASSUME Settled, [Next]_vars
  PROVE  (Apart /\ ApartInv)'
<1>1. Apart'
  BY StepFacts DEF Settled, Apart, Drivers
<1>2. ASSUME NEW c \in Clones  PROVE Sound(file[c])'
  <2>1. CASE file'[c] = file[c]
    BY <2>1, OthersSound
  <2>2. CASE file'[c] # file[c]
    <3>1. /\ file \in [Clones -> File]
          /\ \A e \in Clones : \A f, h : Commit(e, f, h) => e = c
          /\ \A e, d \in Clones : FastForward(e, d) => e = c
      BY <2>2 DEF Settled, Typed, TypeOK, Commit, FastForward
    <3>2. Next
      BY <2>2 DEF vars
    <3>3. ASSUME NEW e \in Clones, Record(e) \/ Amend(e) \/ Supersede(e) \/ Repair(e)
          PROVE  e = c
      BY <3>1, <3>3 DEF Record, Amend, Supersede, Repair
    <3>4. ASSUME NEW e \in Clones, NEW d \in Clones, Pull(e, d)
          PROVE  e = c
      BY <3>1, <3>4 DEF Pull, DriverMerge, TextMerge
    <3>5. ~Exhausted
      BY <2>2 DEF Exhausted, vars
    <3> QED BY <3>2, <3>3, <3>4, <3>5, CommitSound, PullSound DEF Next
  <2> QED BY <2>1, <2>2
<1>3. \/ recorded' = recorded
      \/ \E c \in Clones : recorded' = recorded \cup {NewBody(c)}
  BY DEF Next, vars, Exhausted, Record, Amend, Supersede, Repair, Pull, FastForward, DriverMerge,
     TextMerge
<1>4. /\ \A b \in recorded' : b.at \in Nat /\ \E e \in Clones : b.host = HostOf[e]
      /\ \A x, y \in recorded' : x.at = y.at => x = y
  <2>1. \A b \in recorded : b.at \in Nat /\ b.at <= commits /\ \E e \in Clones : b.host = HostOf[e]
    BY DEF Settled, Typed, ApartInv
  <2>2. \A x, y \in recorded : x.at = y.at => x = y
    BY DEF Settled, ApartInv
  <2>3. commits \in Nat
    BY SettledFacts
  <2>4. CASE recorded' = recorded
    BY <2>1, <2>2, <2>4
  <2>5. ASSUME NEW c \in Clones, recorded' = recorded \cup {NewBody(c)}
        PROVE  /\ \A b \in recorded' : b.at \in Nat /\ \E e \in Clones : b.host = HostOf[e]
               /\ \A x, y \in recorded' : x.at = y.at => x = y
    <3>1. /\ NewBody(c).at = commits + 1 /\ NewBody(c).host = HostOf[c]
          /\ \A b \in recorded : b.at # NewBody(c).at
      BY <2>1, <2>3 DEF NewBody
    <3>2. \A b \in recorded' : b.at \in Nat /\ \E e \in Clones : b.host = HostOf[e]
      BY <2>1, <2>3, <2>5, <3>1
    <3>3. \A x, y \in recorded' : x.at = y.at => x = y
      BY <2>2, <2>5, <3>1
    <3> QED BY <3>2, <3>3
  <2> QED BY <1>3, <2>4, <2>5
<1> QED BY <1>1, <1>2, <1>4, StepFacts DEF ApartInv

(* Between two clones on hosts of their own that merge with the driver, releases  *)
(* before 4.0 included, an amendment that is not flagged is attached to the       *)
(* decision its author was shown, whatever is recorded and merged, however often. *)
THEOREM AmendmentsAreHeld == Spec => []AmendmentsStayApart
<1> DEFINE Inv == Apart => ApartInv
<1>1. Init => Inv
  <2> SUFFICES ASSUME Init PROVE ApartInv
    OBVIOUS
  <2>1. \A c \in Clones : file[c] = Empty
    BY DEF Init
  <2>2. Sound(Empty)
    BY DEF Sound, IdsDistinct, Empty
  <2> QED BY <2>1, <2>2 DEF Init, ApartInv
<1>2. Typed /\ HistoryEnds /\ HistoryKept /\ Inv /\ [Next]_vars => Inv'
  <2> SUFFICES ASSUME Typed, HistoryEnds, HistoryKept, Inv, [Next]_vars, Apart' PROVE ApartInv'
    OBVIOUS
  <2>1. team' = team
    BY StepKinds DEF vars, FastForward, Committed, Commit
  <2>2. Apart
    BY <2>1 DEF Apart, Drivers, Clones, HostOf
  <2> QED BY <2>2, ApartNext DEF Settled
<1>3. Inv => AmendmentsStayApart
  <2> SUFFICES ASSUME ApartInv, NEW c \in Clones, NEW n \in file[c].notes, ~n.amb
               PROVE  \E r \in file[c].bases : r.id = n.id /\ r.body = n.meant
    BY DEF AmendmentsStayApart, AmendmentsStay
  <2>1. [id |-> n.id, body |-> n.meant] \in file[c].bases
    BY DEF ApartInv, Sound, NoteSound
  <2> QED BY <2>1
<1>4. Spec => [](Typed /\ HistoryEnds /\ HistoryKept)
  BY AlwaysTyped, HistoryInit, HistoryNext, PTL DEF Spec
<1> QED BY <1>1, <1>2, <1>3, <1>4, PTL DEF Spec

-----------------------------------------------------------------------------
(* The code graph (CodeIndex).                                                *)

Version == {0, 1} \cup 0 .. MaxVersion
Waiting == {"idle", "hash", "clear", "walk"}
Generating == {"nodes", "prune", "symbols", "links"}
Run == [at : Waiting \cup Generating, changed : SUBSET (Files \X Version),
        files : SUBSET Files, todo : SUBSET Files, now : SUBSET Files, alone : BOOLEAN]

GraphType ==
  /\ disk \in [Files -> Version] /\ nodes \in [Files -> Version] /\ syms \in [Files -> Version]
  /\ links \subseteq Files \X Files
  /\ run \in [Runners -> Run]
  /\ \A r \in Runners : run[r].at # "symbols" => run[r].now = {}

Waits(q) == run[q].at \in Waiting

(* How far a generation that nothing disturbed has come: what it has passed is    *)
(* as the sources are.                                                       *)
Pruned ==
  /\ HasNode = Present /\ links \subseteq Present \X Present
  /\ \A f \in Files \ Present : syms[f] = 0
Generated(r) ==
  /\ run[r].at \in Generating /\ run[r].files = Present
  /\ run[r].at = "prune" => Present \subseteq HasNode
  /\ run[r].at \in {"symbols", "links"} => Pruned
  /\ run[r].at = "symbols" =>
       /\ run[r].now \subseteq Present /\ \A e, f \in run[r].now : e = f
       /\ \A f \in Present \ (run[r].todo \cup run[r].now) : syms[f] = disk[f]
  /\ run[r].at = "links" =>
       /\ \A f \in Files : syms[f] = disk[f]
       /\ \A f \in Present \ run[r].todo, g \in Files :
            <<f, g>> \in links <=> g \in Imports[f][disk[f]] \cap Present

AloneInv == \A r \in Runners : run[r].alone => Generated(r) /\ \A q \in Runners \ {r} : Waits(q)
ExactInv == exact => GraphIsDisk /\ \A q \in Runners : Waits(q)

GraphInv == GraphType /\ AloneInv /\ ExactInv

LEMMA IdleIsRun ==
  /\ Idle \in Run /\ Idle.alone = FALSE /\ Idle.at = "idle" /\ Idle.now = {}
BY DEF Idle, Run, Waiting, Generating

(* A run that has yet to walk touches no graph.                               *)
LEMMA WaitingKeeps ==
  ASSUME GraphInv, NEW r \in Runners, NEW new \in Run, new.at \in Waiting, new.alone = FALSE, new.now = {},
         run' = [run EXCEPT ![r] = new], UNCHANGED <<disk, nodes, syms, links, exact>>
  PROVE  GraphInv'
<1>1. /\ run' \in [Runners -> Run] /\ run'[r] = new
      /\ \A q \in Runners \ {r} : run'[q] = run[q]
  BY DEF GraphInv, GraphType
<1>2. GraphType'
  BY <1>1 DEF GraphInv, GraphType, Waiting
<1>3. Present' = Present /\ HasNode' = HasNode /\ (Pruned' <=> Pruned) /\ (GraphIsDisk' <=> GraphIsDisk)
  BY DEF Present, HasNode, Pruned, GraphIsDisk
<1>4. \A q \in Runners : Waits(q) => Waits(q)'
  BY <1>1 DEF Waits
<1>5. \A q \in Runners \ {r} : Generated(q) => Generated(q)'
  BY <1>1, <1>3 DEF Generated
<1>6. AloneInv'
  BY <1>1, <1>4, <1>5 DEF GraphInv, AloneInv, Waits
<1>7. ExactInv'
  BY <1>3, <1>4 DEF GraphInv, ExactInv
<1> QED BY <1>2, <1>6, <1>7 DEF GraphInv

(* While one generates, no other is alone, and the graph is exact for nobody.    *)
LEMMA GeneratingKeeps ==
  ASSUME GraphInv, NEW r \in Runners, run[r].at \in Generating,
         NEW new \in Run, new.alone = run[r].alone, new.at # "symbols" => new.now = {},
         run' = [run EXCEPT ![r] = new], UNCHANGED <<disk, exact>>,
         nodes' \in [Files -> Version], syms' \in [Files -> Version], links' \subseteq Files \X Files,
         Generated(r) => Generated(r)'
  PROVE  GraphInv'
<1>1. /\ run' \in [Runners -> Run] /\ run'[r] = new
      /\ \A q \in Runners \ {r} : run'[q] = run[q]
  BY DEF GraphInv, GraphType
<1>2. GraphType'
  BY <1>1 DEF GraphInv, GraphType
<1>3. ~Waits(r)
  BY DEF Waits, Waiting, Generating
<1>4. \A q \in Runners \ {r} : ~run[q].alone
  BY <1>3 DEF GraphInv, AloneInv
<1>5. AloneInv'
  BY <1>1, <1>4 DEF GraphInv, AloneInv, Waits
<1>6. ExactInv'
  BY <1>3 DEF GraphInv, ExactInv
<1> QED BY <1>2, <1>5, <1>6 DEF GraphInv

(* Whoever edits, clears or walks disturbs all others.                         *)
LEMMA DisturbingKeeps ==
  ASSUME GraphInv, run' \in [Runners -> Run], exact' = FALSE,
         \A q \in Runners : run'[q].at # "symbols" => run'[q].now = {},
         disk' \in [Files -> Version], nodes' \in [Files -> Version], syms' \in [Files -> Version],
         links' \subseteq Files \X Files,
         \A q \in Runners : run'[q].alone => Generated(q)' /\ \A o \in Runners \ {q} : Waits(o)'
  PROVE  GraphInv'
BY DEF GraphInv, GraphType, AloneInv, ExactInv

LEMMA UntouchedKeeps ==
  ASSUME GraphInv, UNCHANGED <<disk, nodes, syms, links, run, exact>>
  PROVE  GraphInv'
<1>1. Present' = Present /\ HasNode' = HasNode /\ (Pruned' <=> Pruned) /\ (GraphIsDisk' <=> GraphIsDisk)
  BY DEF Present, HasNode, Pruned, GraphIsDisk
<1>2. \A q \in Runners : (Waits(q)' <=> Waits(q)) /\ (Generated(q)' <=> Generated(q))
  BY <1>1 DEF Waits, Generated
<1> QED BY <1>1, <1>2 DEF GraphInv, GraphType, AloneInv, ExactInv

LEMMA EditKeeps ==
  ASSUME GraphInv, NEW f \in Files, NEW v \in 0 .. MaxVersion, Edit(f, v) PROVE GraphInv'
<1>1. /\ disk' = [disk EXCEPT ![f] = v] /\ UNCHANGED <<nodes, syms, links>> /\ exact' = FALSE
      /\ run' = [r \in Runners |-> [run[r] EXCEPT !.alone = FALSE]]
  BY DEF Edit, graph
<1>2. /\ run' \in [Runners -> Run]
      /\ \A q \in Runners : run'[q].alone = FALSE /\ (run'[q].at # "symbols" => run'[q].now = {})
  <2>1. ASSUME NEW q \in Runners
        PROVE  /\ run'[q] \in Run /\ run'[q].alone = FALSE
               /\ run'[q].at # "symbols" => run'[q].now = {}
    <3>1. run[q] \in Run /\ (run[q].at # "symbols" => run[q].now = {})
      BY DEF GraphInv, GraphType
    <3>2. run'[q] = [run[q] EXCEPT !.alone = FALSE]
      BY <1>1
    <3> QED BY <3>1, <3>2 DEF Run
  <2>2. run' = [q \in Runners |-> run'[q]]
    BY <1>1
  <2> QED BY <2>1, <2>2
<1>3. disk' \in [Files -> Version]
  BY <1>1 DEF GraphInv, GraphType, Version
<1>4. /\ nodes' \in [Files -> Version] /\ syms' \in [Files -> Version]
      /\ links' \subseteq Files \X Files
  BY <1>1 DEF GraphInv, GraphType
<1> QED BY <1>1, <1>2, <1>3, <1>4, DisturbingKeeps

LEMMA BeginKeeps ==
  ASSUME GraphInv, NEW r \in Runners, Begin(r) PROVE GraphInv'
<1>1. UNCHANGED <<disk, nodes, syms, links, exact>>
  BY DEF Begin, graph
<1>2. CASE UNCHANGED run
  BY <1>1, <1>2, UntouchedKeeps
<1>3. ASSUME NEW label \in {"hash", "clear", "walk"},
             run' = [run EXCEPT ![r] = [Idle EXCEPT !.at = label, !.changed = Changed]]
      PROVE  GraphInv'
  <2>1. Changed \subseteq Files \X Version
    BY DEF Changed, Present, GraphInv, GraphType
  <2>2. PICK new : new = [Idle EXCEPT !.at = label, !.changed = Changed]
    OBVIOUS
  <2>3. new \in Run /\ new.at \in Waiting /\ new.alone = FALSE /\ new.now = {}
    BY <2>1, <2>2 DEF Idle, Run, Waiting
  <2> QED BY <1>1, <1>3, <2>2, <2>3, WaitingKeeps
<1> QED BY <1>2, <1>3 DEF Begin, Go

LEMMA RecordHashesKeeps ==
  ASSUME GraphInv, NEW r \in Runners, RecordHashes(r) PROVE GraphInv'
<1>1. PICK new : new = [run[r] EXCEPT !.at = "walk", !.changed = {}]
  OBVIOUS
<1>2. run[r] \in Run /\ ~run[r].alone /\ run[r].now = {}
  BY DEF RecordHashes, GraphInv, GraphType, AloneInv, Generated, Generating
<1>3. new \in Run /\ new.at \in Waiting /\ new.alone = FALSE /\ new.now = {}
  BY <1>1, <1>2 DEF Run, Waiting
<1> QED BY <1>1, <1>3, WaitingKeeps DEF RecordHashes, Go, graph

LEMMA FailKeeps ==
  ASSUME GraphInv, NEW r \in Runners, Fail(r) PROVE GraphInv'
BY IdleIsRun, WaitingKeeps DEF Fail, Go, graph, Waiting

LEMMA ClearKeeps ==
  ASSUME GraphInv, NEW r \in Runners, Clear(r) PROVE GraphInv'
<1>1. /\ UNCHANGED disk /\ Only({}) /\ exact' = FALSE /\ run[r].at = "clear"
      /\ run' = [q \in Runners |-> [run[q] EXCEPT !.at = IF q = r THEN "walk" ELSE @,
                                                !.changed = IF q = r THEN {} ELSE @,
                                                !.alone = FALSE]]
  BY DEF Clear
<1>2. ASSUME NEW q \in Runners
      PROVE  /\ run'[q] \in Run /\ run'[q].alone = FALSE
             /\ run'[q].at # "symbols" => run'[q].now = {}
  <2>1. run[q] \in Run /\ (run[q].at # "symbols" => run[q].now = {})
    BY DEF GraphInv, GraphType
  <2>2. CASE q = r
    <3>1. run'[q] = [run[q] EXCEPT !.at = "walk", !.changed = {}, !.alone = FALSE]
      BY <1>1, <2>1, <2>2 DEF Run
    <3> QED BY <1>1, <2>1, <2>2, <3>1 DEF Run, Waiting
  <2>3. CASE q # r
    <3>1. run'[q] = [run[q] EXCEPT !.alone = FALSE]
      BY <1>1, <2>1, <2>3 DEF Run
    <3> QED BY <2>1, <3>1 DEF Run
  <2> QED BY <2>2, <2>3
<1>3. run' \in [Runners -> Run]
  <2>1. run' = [q \in Runners |-> run'[q]]
    BY <1>1
  <2> QED BY <1>2, <2>1
<1>4. nodes' \in [Files -> Version] /\ syms' \in [Files -> Version] /\ links' \subseteq Files \X Files
  BY <1>1 DEF Only, GraphInv, GraphType, Version
<1>5. disk' \in [Files -> Version]
  BY <1>1 DEF GraphInv, GraphType
<1> QED BY <1>1, <1>2, <1>3, <1>4, <1>5, DisturbingKeeps

LEMMA WalkKeeps ==
  ASSUME GraphInv, NEW r \in Runners, Walk(r) PROVE GraphInv'
<1>0. PICK quiet \in BOOLEAN : quiet <=> \A o \in Runners \ {r} : ~Busy(o)
  OBVIOUS
<1>a. quiet = (\A o \in Runners \ {r} : ~Busy(o))
  BY <1>0
<1>b. PICK new : new = [run[r] EXCEPT !.at = "nodes", !.files = Present, !.alone = quiet]
  OBVIOUS
<1>1. /\ UNCHANGED <<disk, nodes, syms, links>> /\ exact' = FALSE /\ run[r].at = "walk"
      /\ run' = [q \in Runners |-> IF q # r THEN [run[q] EXCEPT !.alone = FALSE] ELSE new]
  BY <1>a, <1>b DEF Walk, graph
<1>2. /\ Present \subseteq Files /\ run \in [Runners -> Run]
      /\ \A q \in Runners : run[q].at # "symbols" => run[q].now = {}
  BY DEF Present, GraphInv, GraphType
<1>3. new \in Run /\ new.at = "nodes" /\ new.files = Present /\ new.now = {} /\ new.alone = quiet
  BY <1>b, <1>1, <1>2 DEF Run, Generating
<1>4. /\ run' \in [Runners -> Run] /\ run'[r] = new
      /\ \A q \in Runners \ {r} : run'[q].alone = FALSE /\ run'[q].at = run[q].at
                                     /\ run'[q].now = run[q].now
  BY <1>1, <1>2, <1>3 DEF Run
<1>5. Present' = Present
  BY <1>1 DEF Present
<1>6. Generated(r)'
  BY <1>3, <1>4, <1>5 DEF Generated, Generating
<1>7. run'[r].alone => \A o \in Runners \ {r} : Waits(o)'
  <2>1. \A q \in Runners : run[q].at \in Waiting \cup Generating
    BY <1>2 DEF Run
  <2> QED BY <1>0, <1>3, <1>4, <2>1 DEF Busy, Waits, Waiting, Generating
<1>8. \A q \in Runners : run'[q].alone => Generated(q)' /\ \A o \in Runners \ {q} : Waits(o)'
  BY <1>4, <1>6, <1>7
<1>9. \A q \in Runners : run'[q].at # "symbols" => run'[q].now = {}
  BY <1>2, <1>3, <1>4
<1>10. /\ disk' \in [Files -> Version] /\ nodes' \in [Files -> Version] /\ syms' \in [Files -> Version]
       /\ links' \subseteq Files \X Files
  BY <1>1 DEF GraphInv, GraphType
<1> QED BY <1>1, <1>4, <1>8, <1>9, <1>10, DisturbingKeeps

LEMMA AddNodesKeeps ==
  ASSUME GraphInv, NEW r \in Runners, AddNodes(r) PROVE GraphInv'
<1>1. PICK new : new = [run[r] EXCEPT !.at = "prune"]
  OBVIOUS
<1>2. /\ run[r].at = "nodes" /\ run' = [run EXCEPT ![r] = new]
      /\ nodes' = [f \in Files |-> IF f \in run[r].files /\ nodes[f] = 0 THEN disk[f] ELSE nodes[f]]
      /\ UNCHANGED <<disk, syms, links, exact>>
  BY <1>1 DEF AddNodes, Go
<1>3. /\ new \in Run /\ new.alone = run[r].alone /\ new.at = "prune" /\ new.files = run[r].files
      /\ run'[r] = new /\ new.now = {}
  BY <1>1, <1>2 DEF GraphInv, GraphType, Run, Generating
<1>4. nodes' \in [Files -> Version]
  BY <1>2 DEF GraphInv, GraphType
<1>5. Generated(r) => Generated(r)'
  <2>1. Present' = Present
    BY <1>2 DEF Present
  <2>2. run[r].files = Present => Present \subseteq HasNode'
    BY <1>2 DEF Present, HasNode
  <2> QED BY <1>3, <2>1, <2>2 DEF Generated, Generating
<1> QED BY <1>2, <1>3, <1>4, <1>5, GeneratingKeeps DEF GraphInv, GraphType, Generating

LEMMA PruneKeeps ==
  ASSUME GraphInv, NEW r \in Runners, Prune(r) PROVE GraphInv'
<1>1. PICK new : new = [run[r] EXCEPT !.at = "symbols", !.todo = run[r].files]
  OBVIOUS
<1>2. /\ run[r].at = "prune" /\ run' = [run EXCEPT ![r] = new] /\ Only(HasNode \cap run[r].files)
      /\ UNCHANGED <<disk, exact>>
  BY <1>1 DEF Prune, Go
<1>3. /\ new \in Run /\ new.alone = run[r].alone /\ new.at = "symbols" /\ new.files = run[r].files
      /\ new.todo = run[r].files /\ new.now = {} /\ run'[r] = new
  BY <1>1, <1>2 DEF GraphInv, GraphType, Run, Generating
<1>4. nodes' \in [Files -> Version] /\ syms' \in [Files -> Version] /\ links' \subseteq Files \X Files
  BY <1>2 DEF Only, GraphInv, GraphType, Version
<1>5. Generated(r) => Generated(r)'
  <2> SUFFICES ASSUME Generated(r) PROVE Generated(r)'
    OBVIOUS
  <2>1. Present' = Present /\ run[r].files = Present /\ Present \subseteq HasNode /\ Present \subseteq Files
    BY <1>2 DEF Present, Generated
  <2>2. HasNode' = Present /\ links' \subseteq Present \X Present
        /\ \A f \in Files \ Present : syms'[f] = 0
    BY <1>2, <2>1 DEF Only, HasNode
  <2> QED BY <1>3, <2>1, <2>2 DEF Generated, Generating, Pruned
<1> QED BY <1>2, <1>3, <1>4, <1>5, GeneratingKeeps DEF Generating

LEMMA DropSymbolsKeeps ==
  ASSUME GraphInv, NEW r \in Runners, NEW f \in Files, DropSymbols(r, f) PROVE GraphInv'
<1>1. PICK new : new = IF disk[f] = 0 THEN [run[r] EXCEPT !.todo = @ \ {f}]
                       ELSE [run[r] EXCEPT !.todo = @ \ {f}, !.now = {f}]
  OBVIOUS
<1>2. /\ run[r].at = "symbols" /\ run[r].now = {} /\ f \in run[r].todo /\ run' = [run EXCEPT ![r] = new]
      /\ syms' = IF disk[f] = 0 THEN syms ELSE [syms EXCEPT ![f] = 0]
      /\ UNCHANGED <<disk, nodes, links, exact>>
  BY <1>1 DEF DropSymbols, Go
<1>3. run[r] \in Run
  BY DEF GraphInv, GraphType
<1>4. /\ new \in Run /\ new.alone = run[r].alone /\ new.at = "symbols" /\ new.files = run[r].files
      /\ new.todo = run[r].todo \ {f} /\ new.now = IF disk[f] = 0 THEN {} ELSE {f}
  <2>1. CASE disk[f] = 0
    BY <1>1, <1>2, <1>3, <2>1 DEF Run
  <2>2. CASE disk[f] # 0
    BY <1>1, <1>2, <1>3, <2>2 DEF Run
  <2> QED BY <2>1, <2>2
<1>5. /\ run'[r] = new
      /\ nodes' \in [Files -> Version] /\ syms' \in [Files -> Version] /\ links' \subseteq Files \X Files
  BY <1>2 DEF GraphInv, GraphType, Version
<1>6. Generated(r) => Generated(r)'
  <2> SUFFICES ASSUME Generated(r) PROVE Generated(r)'
    OBVIOUS
  <2>1. Present' = Present /\ HasNode' = HasNode /\ (f \in Present <=> disk[f] # 0)
    BY <1>2 DEF Present, HasNode
  <2>2. syms \in [Files -> Version] /\ \A e \in Files \ {f} : syms'[e] = syms[e]
    BY <1>2 DEF GraphInv, GraphType
  <2>3. Pruned'
    BY <1>2, <2>1, <2>2 DEF Generated, Pruned
  <2>4. \A e \in Present \ (new.todo \cup new.now) : syms'[e] = disk[e]
    BY <1>2, <1>4, <2>1, <2>2 DEF Generated, Present
  <2> QED BY <1>2, <1>4, <1>5, <2>1, <2>3, <2>4 DEF Generated
<1> QED BY <1>2, <1>4, <1>5, <1>6, GeneratingKeeps DEF Generating

LEMMA AddSymbolsKeeps ==
  ASSUME GraphInv, NEW r \in Runners, NEW f \in Files, AddSymbols(r, f) PROVE GraphInv'
<1>1. PICK new : new = [run[r] EXCEPT !.now = {}]
  OBVIOUS
<1>2. /\ run[r].at = "symbols" /\ f \in run[r].now /\ run' = [run EXCEPT ![r] = new]
      /\ syms' = [syms EXCEPT ![f] = IF nodes[f] # 0 THEN disk[f] ELSE @]
      /\ UNCHANGED <<disk, nodes, links, exact>>
  BY <1>1 DEF AddSymbols, Go
<1>3. /\ new \in Run /\ new.alone = run[r].alone /\ new.at = "symbols" /\ new.files = run[r].files
      /\ new.todo = run[r].todo /\ new.now = {} /\ run'[r] = new
  BY <1>1, <1>2 DEF GraphInv, GraphType, Run
<1>4. /\ syms \in [Files -> Version] /\ syms' \in [Files -> Version]
      /\ \A e \in Files \ {f} : syms'[e] = syms[e]
      /\ nodes[f] # 0 => syms'[f] = disk[f]
  BY <1>2 DEF GraphInv, GraphType
<1>5. Generated(r) => Generated(r)'
  <2> SUFFICES ASSUME Generated(r) PROVE Generated(r)'
    OBVIOUS
  <2>1. Present' = Present /\ HasNode' = HasNode
    BY <1>2 DEF Present, HasNode
  <2>2. f \in Present /\ nodes[f] # 0
    BY <1>2 DEF Generated, Pruned, HasNode, Present
  <2>3. Pruned'
    BY <1>2, <1>4, <2>1, <2>2 DEF Generated, Pruned
  <2>4. \A e \in Present \ (new.todo \cup new.now) : syms'[e] = disk[e]
    BY <1>2, <1>3, <1>4, <2>2 DEF Generated, Present
  <2> QED BY <1>2, <1>3, <2>1, <2>3, <2>4 DEF Generated
<1> QED
  <2>1. nodes' \in [Files -> Version] /\ links' \subseteq Files \X Files
    BY <1>2 DEF GraphInv, GraphType
  <2> QED BY <1>2, <1>3, <1>4, <1>5, <2>1, GeneratingKeeps DEF Generating

LEMMA SymbolsDoneKeeps ==
  ASSUME GraphInv, NEW r \in Runners, SymbolsDone(r) PROVE GraphInv'
<1>1. PICK new : new = [run[r] EXCEPT !.at = "links", !.todo = run[r].files]
  OBVIOUS
<1>2. /\ run[r].at = "symbols" /\ run[r].now = {} /\ run[r].todo = {}
      /\ run' = [run EXCEPT ![r] = new] /\ UNCHANGED <<disk, nodes, syms, links, exact>>
  BY <1>1 DEF SymbolsDone, Go, graph
<1>3. /\ new \in Run /\ new.alone = run[r].alone /\ new.at = "links" /\ new.files = run[r].files
      /\ new.todo = run[r].files /\ new.now = {} /\ run'[r] = new
  BY <1>1, <1>2 DEF GraphInv, GraphType, Run, Generating
<1>4. Generated(r) => Generated(r)'
  <2> SUFFICES ASSUME Generated(r) PROVE Generated(r)'
    OBVIOUS
  <2>1. Present' = Present /\ HasNode' = HasNode
    BY <1>2 DEF Present, HasNode
  <2>2. Pruned /\ Pruned'
    BY <1>2, <2>1 DEF Generated, Pruned
  <2>3. \A f \in Files : syms[f] = disk[f]
    BY <1>2, <2>2 DEF Generated, Pruned, Present
  <2> QED BY <1>2, <1>3, <2>1, <2>2, <2>3 DEF Generated, Generating
<1> QED
  <2>1. nodes' \in [Files -> Version] /\ syms' \in [Files -> Version] /\ links' \subseteq Files \X Files
    BY <1>2 DEF GraphInv, GraphType
  <2> QED BY <1>2, <1>3, <1>4, <2>1, GeneratingKeeps DEF Generating

LEMMA LinkKeeps ==
  ASSUME GraphInv, NEW r \in Runners, NEW f \in Files, Link(r, f) PROVE GraphInv'
<1>1. PICK new : new = [run[r] EXCEPT !.todo = @ \ {f}]
  OBVIOUS
<1>2. /\ run[r].at = "links" /\ f \in run[r].todo /\ run' = [run EXCEPT ![r] = new]
      /\ links' = IF disk[f] = 0 THEN links ELSE Linked(f)
      /\ UNCHANGED <<disk, nodes, syms, exact>>
  BY <1>1 DEF Link, Go
<1>3. /\ new \in Run /\ new.alone = run[r].alone /\ new.at = "links" /\ new.files = run[r].files
      /\ new.todo = run[r].todo \ {f} /\ new.now = {} /\ run'[r] = new
  BY <1>1, <1>2 DEF GraphInv, GraphType, Run
<1>4. /\ HasNode \subseteq Files /\ links \subseteq Files \X Files
      /\ \A e, g \in Files : <<e, g>> \in Linked(f) <=>
                              IF e = f THEN f \in HasNode /\ g \in Imports[f][disk[f]] \cap HasNode
                              ELSE <<e, g>> \in links
      /\ Linked(f) \subseteq Files \X Files
  BY DEF Linked, HasNode, GraphInv, GraphType
<1>5. Generated(r) => Generated(r)'
  <2> SUFFICES ASSUME Generated(r) PROVE Generated(r)'
    OBVIOUS
  <2>1. Present' = Present /\ HasNode' = HasNode /\ (f \in Present <=> disk[f] # 0) /\ Present \subseteq Files
    BY <1>2 DEF Present, HasNode
  <2>2. Pruned
    BY <1>2 DEF Generated
  <2>3. links' \subseteq Present \X Present
    BY <1>2, <1>4, <2>1, <2>2 DEF Pruned
  <2>4. Pruned'
    BY <1>2, <2>1, <2>2, <2>3 DEF Pruned
  <2>5. ASSUME NEW e \in Present \ new.todo, NEW g \in Files
        PROVE  <<e, g>> \in links' <=> g \in Imports[e][disk[e]] \cap Present
    BY <1>2, <1>3, <1>4, <2>1, <2>2, <2>5 DEF Generated, Pruned
  <2> QED BY <1>2, <1>3, <2>1, <2>4, <2>5 DEF Generated
<1> QED
  <2>1. nodes' \in [Files -> Version] /\ syms' \in [Files -> Version] /\ links' \subseteq Files \X Files
    BY <1>2, <1>4 DEF GraphInv, GraphType
  <2> QED BY <1>2, <1>3, <1>5, <2>1, GeneratingKeeps DEF Generating

LEMMA FinishKeeps ==
  ASSUME GraphInv, NEW r \in Runners, Finish(r) PROVE GraphInv'
<1>1. /\ run[r].at = "links" /\ run[r].todo = {} /\ exact' = run[r].alone
      /\ run' = [run EXCEPT ![r] = Idle] /\ UNCHANGED <<disk, nodes, syms, links>>
  BY DEF Finish, Go, graph
<1>2. /\ run \in [Runners -> Run] /\ run' \in [Runners -> Run] /\ run'[r] = Idle
      /\ \A q \in Runners \ {r} : run'[q] = run[q]
  BY <1>1, IdleIsRun DEF GraphInv, GraphType
<1>3. GraphType'
  BY <1>1, <1>2, IdleIsRun DEF GraphInv, GraphType
<1>4. Present' = Present /\ HasNode' = HasNode /\ (Pruned' <=> Pruned) /\ (GraphIsDisk' <=> GraphIsDisk)
  BY <1>1 DEF Present, HasNode, Pruned, GraphIsDisk
<1>5. \A q \in Runners \ {r} : ~run[q].alone
  BY <1>1 DEF GraphInv, AloneInv, Waits, Waiting
<1>6. AloneInv'
  BY <1>2, <1>5, IdleIsRun DEF AloneInv
<1>7. ExactInv'
  <2> SUFFICES ASSUME run[r].alone PROVE GraphIsDisk /\ \A q \in Runners : Waits(q)'
    BY <1>1, <1>4 DEF ExactInv
  <2>1. Generated(r) /\ \A q \in Runners \ {r} : Waits(q)
    BY DEF GraphInv, AloneInv
  <2>2. \A q \in Runners : Waits(q)'
    BY <1>2, <2>1, IdleIsRun DEF Waits, Waiting
  <2>3. /\ Pruned /\ \A f \in Files : syms[f] = disk[f]
        /\ \A f \in Present, g \in Files : <<f, g>> \in links <=> g \in Imports[f][disk[f]] \cap Present
    BY <1>1, <2>1 DEF Generated
  <2>4. Present \subseteq Files /\ links \subseteq Present \X Present
    BY <2>3 DEF Present, Pruned
  <2>5. links = UNION {{f} \X (Imports[f][disk[f]] \cap Present) : f \in Present}
    BY <2>3, <2>4
  <2> QED BY <2>2, <2>3, <2>5 DEF GraphIsDisk, Pruned
<1> QED BY <1>3, <1>6, <1>7 DEF GraphInv

(* graph_generator.py: whatever runs failed half way, overlapped or saw files come *)
(* and go before it, a generation that nothing disturbs leaves the graph equal   *)
(* to the sources; for any files, imports, runners, edits and failures.         *)
THEOREM GenerationIsExact == CSpec => []UndisturbedRunIsExact
<1>1. CInit => GraphInv
  <2> SUFFICES ASSUME CInit PROVE GraphInv
    OBVIOUS
  <2>1. /\ disk \in [Files -> Version] /\ nodes \in [Files -> Version] /\ syms \in [Files -> Version]
        /\ links = {} /\ exact = FALSE
    BY DEF CInit, Version
  <2>2. run \in [Runners -> Run] /\ \A r \in Runners : run[r].now = {} /\ run[r].alone = FALSE
    BY IdleIsRun DEF CInit
  <2> QED BY <2>1, <2>2 DEF GraphInv, GraphType, AloneInv, ExactInv
<1>2. GraphInv /\ [CNext]_cvars => GraphInv'
  <2> SUFFICES ASSUME GraphInv, [CNext]_cvars PROVE GraphInv'
    OBVIOUS
  <2>1. ASSUME NEW r \in Runners, Step(r) PROVE GraphInv'
    BY <2>1, BeginKeeps, RecordHashesKeeps, ClearKeeps, WalkKeeps, AddNodesKeeps, PruneKeeps,
       DropSymbolsKeeps, AddSymbolsKeeps, LinkKeeps, SymbolsDoneKeeps, FinishKeeps DEF Step
  <2>2. CASE UNCHANGED <<disk, nodes, syms, links, run, exact>>
    BY <2>2, UntouchedKeeps
  <2>3. CASE Fire \/ BackoffEnds \/ UNCHANGED cvars
    BY <2>2, <2>3 DEF Fire, BackoffEnds, cvars, graph
  <2> QED BY <2>1, <2>3, EditKeeps, FailKeeps DEF CNext
<1>3. GraphInv => UndisturbedRunIsExact
  BY DEF GraphInv, ExactInv, UndisturbedRunIsExact
<1> QED BY <1>1, <1>2, <1>3, PTL DEF CSpec

(* A trail that leads to x, through files of D alone.                          *)
IsTrail(p, x, D) ==
  /\ p \in Seq(Files) /\ Len(p) \in Nat \ {0} /\ p[Len(p)] = x
  /\ \A i \in DOMAIN p : p[i] \in D

LEMMA TrailStarts == ASSUME NEW f \in Files PROVE IsTrail(<<f>>, f, {f})
BY DEF IsTrail

(* Where no file's name is part of another's, a trail is continued by any file    *)
(* that is not on it.                                                        *)
LEMMA TrailGrows ==
  ASSUME Inside = {}, NEW T, NEW p \in T, NEW y, NEW D, IsTrail(p, y, D),
         NEW x \in Files \ D, <<x, y>> \in links
  PROVE  Append(p, x) \in Grown(T) /\ IsTrail(Append(p, x), x, D \cup {x})
<1> DEFINE q == Append(p, x)
<1>1. q \in Seq(Files) /\ Len(q) = Len(p) + 1 /\ q[Len(q)] = x
      /\ \A i \in DOMAIN q : (i \in DOMAIN p /\ q[i] = p[i]) \/ q[i] = x
  BY DEF IsTrail
<1>2. IsTrail(q, x, D \cup {x})
  BY <1>1 DEF IsTrail
<1>3. x \in Steps(p)
  BY DEF IsTrail, Steps
<1> QED BY <1>2, <1>3 DEF Grown

LEMMA TrailsLead ==
  ASSUME NEW T \in SUBSET Seq(Files), NEW D, \A p \in T : Len(p) \in Nat \ {0} /\ p[Len(p)] \in D,
         D \subseteq Present, links \subseteq {e \in Present \X Present : e[2] \in Imports[e[1]][disk[e[1]]]}
  PROVE  /\ Grown(T) \subseteq Seq(Files)
         /\ \A p \in Grown(T) : Len(p) \in Nat \ {0} /\ p[Len(p)] \in WithImporters(D)
<1> SUFFICES ASSUME NEW p \in T, NEW g \in Steps(p)
             PROVE  LET q == Append(p, g) IN
                    q \in Seq(Files) /\ Len(q) \in Nat \ {0} /\ q[Len(q)] \in WithImporters(D)
  BY DEF Grown
<1>1. g \in Files /\ <<g, p[Len(p)]>> \in links /\ p \in Seq(Files) /\ p[Len(p)] \in D
  BY DEF Steps
<1>2. g \in WithImporters(D)
  BY <1>1 DEF WithImporters
<1> QED BY <1>1, <1>2

(* get_blast_radius finds the files whose imports lead to f in three steps: the     *)
(* shortest way from one of them repeats no file.                              *)
LEMMA TrailsFindDependents ==
  ASSUME GraphIsDisk, Inside = {}, NEW f \in Present
  PROVE  {p[Len(p)] : p \in Trails(f)} \ {f} = Dependents(f)
<1> DEFINE T0 == {<<f>>}
           T1 == Grown(T0)
           T2 == Grown(T1)
           T3 == Grown(T2)
           D0 == {f}
           D1 == WithImporters(D0)
           D2 == WithImporters(D1)
           D3 == WithImporters(D2)
<1>1. Trails(f) = T0 \cup T1 \cup T2 \cup T3 /\ Dependents(f) = D3 \ {f}
  BY DEF Trails, Dependents
<1>2. /\ links \subseteq {e \in Present \X Present : e[2] \in Imports[e[1]][disk[e[1]]]}
      /\ \A x, y \in Present : y \in Imports[x][disk[x]] => <<x, y>> \in links
      /\ Present \subseteq Files
  BY DEF GraphIsDisk, Present
<1>3. ASSUME NEW D \in SUBSET Present
      PROVE  /\ D \subseteq WithImporters(D) /\ WithImporters(D) \subseteq Present
             /\ \A x \in WithImporters(D) \ D : \E y \in D : <<x, y>> \in links
  BY <1>2 DEF WithImporters
<1>4. D0 \subseteq Present /\ D1 \subseteq Present /\ D2 \subseteq Present
      /\ D0 \subseteq D1 /\ D1 \subseteq D2 /\ D2 \subseteq D3
  BY <1>3
<1>5. ASSUME NEW p \in Trails(f)  PROVE p[Len(p)] \in D3
  <2> DEFINE Lead(T, D) == /\ T \subseteq Seq(Files)
                           /\ \A q \in T : Len(q) \in Nat \ {0} /\ q[Len(q)] \in D
  <2>1. Lead(T0, D0)
    BY <1>2
  <2>2. ASSUME NEW T, NEW D \in SUBSET Present, Lead(T, D)  PROVE Lead(Grown(T), WithImporters(D))
    BY <1>2, <2>2, TrailsLead
  <2>3. Lead(T1, D1) /\ Lead(T2, D2) /\ Lead(T3, D3)
    <3> HIDE DEF Lead
    <3> QED BY <1>4, <2>1, <2>2
  <2> HIDE DEF D0, D1, D2, D3, T0, T1, T2, T3
  <2> QED BY <1>1, <1>4, <2>1, <2>3
<1>6. ASSUME NEW x \in D3  PROVE \E p \in Trails(f) : p[Len(p)] = x
  <2> DEFINE Found(T, y, D) == \E p \in T : IsTrail(p, y, D)
  <2>1. Found(T0, f, D0)
    BY <1>2, TrailStarts
  <2>2. ASSUME NEW T, NEW D \in SUBSET Present, NEW y, Found(T, y, D),
               NEW z \in Present \ D, <<z, y>> \in links
        PROVE  Found(Grown(T), z, D \cup {z})
    <3>1. PICK p \in T : IsTrail(p, y, D)
      BY <2>2
    <3>2. z \in Files \ D
      BY <1>2, <2>2
    <3> QED BY <2>2, <3>1, <3>2, TrailGrows
  <2>3. ASSUME NEW T, NEW C, NEW D, NEW y, Found(T, y, C), C \subseteq D  PROVE Found(T, y, D)
    BY <2>3 DEF IsTrail
  <2> HIDE DEF Found
  <2>4. \A y \in D1 \ D0 : Found(T1, y, D1)
    <3> HIDE DEF T0, D0
    <3> SUFFICES ASSUME NEW y \in D1 \ D0 PROVE Found(T1, y, D1)
      OBVIOUS
    <3>1. PICK z \in D0 : <<y, z>> \in links
      BY <1>3, <1>4
    <3>2. Found(T0, z, D0)
      BY <2>1, <3>1 DEF D0
    <3>3. Found(T1, y, D0 \cup {y})
      <4> HIDE DEF D1
      <4> QED BY <1>3, <1>4, <2>2, <3>1, <3>2
    <3> QED BY <1>4, <2>3, <3>3
  <2>5. \A y \in D2 \ D1 : Found(T2, y, D2)
    <3> HIDE DEF T1, D1
    <3> SUFFICES ASSUME NEW y \in D2 \ D1 PROVE Found(T2, y, D2)
      OBVIOUS
    <3>1. PICK z \in D1 : <<y, z>> \in links
      BY <1>3, <1>4
    <3>2. z \notin D0
      <4>1. y \notin WithImporters(D0)
        BY DEF D1
      <4> QED BY <1>2, <1>4, <3>1, <4>1 DEF WithImporters
    <3>3. Found(T2, y, D1 \cup {y})
      BY <1>3, <1>4, <2>2, <2>4, <3>1, <3>2
    <3> QED BY <1>4, <2>3, <3>3
  <2>6. \A y \in D3 \ D2 : Found(T3, y, D3)
    <3> HIDE DEF T2, D2
    <3> SUFFICES ASSUME NEW y \in D3 \ D2 PROVE Found(T3, y, D3)
      OBVIOUS
    <3>1. PICK z \in D2 : <<y, z>> \in links
      BY <1>3, <1>4
    <3>2. z \notin D1
      <4>1. y \notin WithImporters(D1)
        BY DEF D2
      <4> QED BY <1>2, <1>4, <3>1, <4>1 DEF WithImporters
    <3>3. Found(T3, y, D2 \cup {y})
      BY <1>3, <1>4, <2>2, <2>5, <3>1, <3>2
    <3> QED BY <1>4, <2>3, <3>3
  <2>7. \E D : Found(T0, x, D) \/ Found(T1, x, D) \/ Found(T2, x, D) \/ Found(T3, x, D)
    <3> HIDE DEF D1, D2, D3, T0, T1, T2, T3
    <3> QED BY <2>1, <2>4, <2>5, <2>6
  <2> HIDE DEF T0, T1, T2, T3
  <2> QED BY <1>1, <2>7 DEF Found, IsTrail
<1> HIDE DEF T0, T1, T2, T3, D0, D1, D2, D3
<1> QED BY <1>1, <1>5, <1>6

(* tools/graph.py: what agents are told of a file after such a generation is what   *)
(* the sources say: whether it is there, its symbols, and which files depend on it. *)
(* Where the path of one file occurs in that of another, a dependent is missed      *)
(* (sqlite_graph.py:468).                                                     *)
THEOREM AnswersDoMatch ==
  ASSUME Inside = {}
  PROVE  CSpec => []AnswersMatchSources
<1>1. ASSUME exact => GraphIsDisk, exact, NEW f \in Files
      PROVE  /\ GetNode(f).found <=> f \in Present
             /\ QuerySymbols(f) = disk[f]
             /\ f \in Present => Impact(f).files = Dependents(f)
  <2>1. GraphIsDisk
    BY <1>1
  <2>2. nodes[f] # 0 <=> f \in Present
    BY <2>1 DEF GraphIsDisk, HasNode
  <2>3. f \in Present => Impact(f).files = Dependents(f)
    BY <2>1, <2>2, TrailsFindDependents DEF Impact
  <2>4. GetNode(f).found <=> f \in Present
    BY <2>2 DEF GetNode, NotIndexed
  <2> QED BY <2>1, <2>3, <2>4 DEF GraphIsDisk, QuerySymbols
<1>2. UndisturbedRunIsExact => AnswersMatchSources
  BY <1>1 DEF UndisturbedRunIsExact, AnswersMatchSources
<1> QED BY <1>2, GenerationIsExact, PTL

-----------------------------------------------------------------------------
(* The imports of Python (ImportResolution).                                   *)

(* A reply stands until something changes: it is what the files say.             *)
LinkInv ==
  /\ files \subseteq Sources
  /\ reply.lang = "py" => reply.file = Python(reply.import, reply.from, cache.packages[1])

(* indexer/imports.py: an import of Python is linked to the file that Python would   *)
(* load, if its first name was the project's own when the process first looked; and  *)
(* a link to another file comes of too many dots, or of a module beside the directory *)
(* of its name.  For any files, imports and changes of them.                     *)
THEOREM PythonDoesLink ==
  ASSUME None \notin Sources, Layouts \subseteq SUBSET Sources
  PROVE  MSpec => []PythonLinks
<1>1. MInit => LinkInv
  BY DEF MInit, LinkInv, NoReply
<1>2. LinkInv /\ [MNext]_mvars => LinkInv'
  <2> SUFFICES ASSUME LinkInv, [MNext]_mvars PROVE LinkInv'
    OBVIOUS
  <2>1. ASSUME UNCHANGED files, NEW parts, NEW packages
        PROVE  ModuleToPath(parts, packages)' = ModuleToPath(parts, packages)
    BY <2>1 DEF ModuleToPath, IsDir
  <2>2. CASE AskPython
    <3>1. PICK from, import :
            reply' = [lang |-> "py", import |-> import, from |-> from,
                      file |-> Python(import, from, cache'.packages[1])]
      BY <2>2 DEF AskPython
    <3>2. UNCHANGED files
      BY <2>2 DEF AskPython
    <3>3. /\ reply'.import = import /\ reply'.from = from
          /\ reply'.file = Python(import, from, cache'.packages[1])
      BY <3>1
    <3>4. PICK parts, packages : parts = Absolute(import, from) /\ packages = cache'.packages[1]
      OBVIOUS
    <3>5. reply'.file = ModuleToPath(parts, packages)
      BY <3>3, <3>4 DEF Python
    <3>6. ModuleToPath(parts, packages)' = ModuleToPath(parts, packages)
      BY <2>1, <3>2
    <3>7. Python(reply.import, reply.from, cache.packages[1])' = ModuleToPath(parts, packages)'
      BY <3>3, <3>4 DEF Python
    <3> QED BY <3>2, <3>5, <3>6, <3>7 DEF LinkInv
  <2>3. CASE AskTypeScript
    BY <2>3 DEF AskTypeScript, LinkInv
  <2>4. CASE Done \/ Change \/ Restart
    BY <2>4 DEF Done, Change, Restart, LinkInv, NoReply
  <2>5. CASE UNCHANGED mvars
    BY <2>1, <2>5 DEF mvars, LinkInv, Python
  <2> QED BY <2>2, <2>3, <2>4, <2>5 DEF MNext
<1>3. LinkInv => PythonLinks
  <2> SUFFICES ASSUME LinkInv, reply.lang = "py" PROVE PythonLinks
    BY DEF PythonLinks
  <2>1. PICK parts : parts = Absolute(reply.import, reply.from)
    OBVIOUS
  <2>2. reply.file = ModuleToPath(parts, cache.packages[1])
    BY <2>1 DEF LinkInv, Python
  <2>3. Means(parts) # None /\ Head(parts) \in cache.packages[1] => reply.file = Means(parts)
    BY <2>2 DEF Means, ModuleToPath
  <2>4. reply.file \in files => reply.file = Means(parts) \/ ~Below(parts)
    BY <2>2 DEF Means, ModuleToPath, LinkInv
  <2> QED BY <2>1, <2>3, <2>4 DEF PythonLinks
<1> QED BY <1>1, <1>2, <1>3, PTL DEF MSpec

-----------------------------------------------------------------------------
(* The playbooks (Playbooks).                                                 *)

Place == Dirs \X Types \X Names
Order == [at : {"idle", "look", "write"}, skill : Ids \cup {0}, type : Types \cup {""},
          force : BOOLEAN, saw : Int]

BooksType ==
  /\ book \in [Place -> Int]
  /\ order \in [Callers -> Order]
  /\ \A c \in Callers : order[c].at # "idle" => order[c].skill \in Ids /\ order[c].type \in Types
  /\ promoted \subseteq Ids \X Types

(* Who is about to write without force has seen that nothing is there; and what   *)
(* stands in the place of a promoted skill is that skill.                       *)
BooksInv ==
  /\ BooksType /\ robbed = FALSE
  /\ \A c \in Callers : order[c].at = "write" /\ order[c].saw # Nothing => order[c].force
  /\ \A p \in promoted : book[At(p[1], p[2])] = p[1]

LEMMA SkillPlaces ==
  ASSUME Skill \in Seq(STRING)
  PROVE  /\ Ids \subseteq Nat \ {0}
         /\ \A k \in Ids, t \in Types : At(k, t) \in Place
<1>1. Ids \subseteq Nat \ {0} /\ \A k \in Ids : Skill[k] \in Names
  BY DEF Ids, Names, ToSet
<1> QED BY <1>1 DEF At, Place, Dirs

LEMMA NoOrderIsOne == NoOrder \in Order /\ NoOrder.at = "idle"
<1>1. 0 \in Ids \cup {0} /\ "" \in Types \cup {""} /\ Nothing \in Int
  BY DEF Nothing
<1> QED BY <1>1 DEF NoOrder, Order

LEMMA OrderRead ==
  ASSUME BooksInv, NEW c \in Callers
  PROVE  order[c] \in Order
BY DEF BooksInv, BooksType

LEMMA OrderKeeps ==
  ASSUME BooksInv, NEW c \in Callers, NEW new \in Order,
         new.at # "idle" => new.skill \in Ids /\ new.type \in Types,
         new.at = "write" /\ new.saw # Nothing => new.force,
         order' = [order EXCEPT ![c] = new],
         book' \in [Place -> Int], robbed' = FALSE, promoted' \subseteq Ids \X Types,
         \A p \in promoted' : book'[At(p[1], p[2])] = p[1]
  PROVE  BooksInv'
<1>1. order' \in [Callers -> Order] /\ order'[c] = new /\ \A d \in Callers \ {c} : order'[d] = order[d]
  BY DEF BooksInv, BooksType
<1> QED BY <1>1 DEF BooksInv, BooksType, At

LEMMA PromoteKeeps ==
  ASSUME BooksInv, NEW c \in Callers, Promote(c) PROVE BooksInv'
<1>1. PICK k \in Ids, t \in Types, force \in BOOLEAN :
        order' = [order EXCEPT ![c] =
                    [NoOrder EXCEPT !.at = "look", !.skill = k, !.type = t, !.force = force]]
  BY DEF Promote
<1>2. PICK new : new = [NoOrder EXCEPT !.at = "look", !.skill = k, !.type = t, !.force = force]
  OBVIOUS
<1>3. new \in Order /\ new.at = "look" /\ new.skill \in Ids /\ new.type \in Types
  BY <1>2, NoOrderIsOne DEF Order
<1>4. UNCHANGED <<book, promoted, robbed>>
  BY DEF Promote
<1>5. /\ book' \in [Place -> Int] /\ robbed' = FALSE /\ promoted' \subseteq Ids \X Types
      /\ \A p \in promoted' : book'[At(p[1], p[2])] = p[1]
  BY <1>4 DEF BooksInv, BooksType
<1> QED BY <1>1, <1>2, <1>3, <1>5, OrderKeeps

LEMMA LookKeeps ==
  ASSUME BooksInv, NEW c \in Callers, Look(c), Skill \in Seq(STRING) PROVE BooksInv'
<1>1. PICK seen : seen = book[At(order[c].skill, order[c].type)]
  OBVIOUS
<1>2. PICK new : new = IF seen # Nothing /\ ~order[c].force THEN NoOrder
                       ELSE [order[c] EXCEPT !.at = "write", !.saw = seen]
  OBVIOUS
<1>3. /\ order[c].at = "look" /\ order' = [order EXCEPT ![c] = new]
      /\ UNCHANGED <<book, promoted, robbed>>
  BY <1>1, <1>2 DEF Look
<1>4. seen \in Int
  <2>1. order[c].skill \in Ids /\ order[c].type \in Types
    BY <1>3 DEF BooksInv, BooksType
  <2>2. At(order[c].skill, order[c].type) \in Place
    BY <2>1, SkillPlaces
  <2> QED BY <1>1, <2>2 DEF BooksInv, BooksType
<1>5. /\ new \in Order
      /\ new.at # "idle" => new.skill \in Ids /\ new.type \in Types
      /\ new.at = "write" /\ new.saw # Nothing => new.force
  <2>1. CASE seen # Nothing /\ ~order[c].force
    BY <1>2, <2>1, NoOrderIsOne
  <2>2. CASE ~(seen # Nothing /\ ~order[c].force)
    <3>1. new = [order[c] EXCEPT !.at = "write", !.saw = seen]
      BY <1>2, <2>2
    <3>2. order[c] \in Order /\ order[c].skill \in Ids /\ order[c].type \in Types
      BY <1>3, OrderRead DEF BooksInv, BooksType
    <3> QED BY <1>4, <2>2, <3>1, <3>2 DEF Order
  <2> QED BY <2>1, <2>2
<1>6. /\ book' \in [Place -> Int] /\ robbed' = FALSE /\ promoted' \subseteq Ids \X Types
      /\ \A p \in promoted' : book'[At(p[1], p[2])] = p[1]
  BY <1>3 DEF BooksInv, BooksType
<1> QED BY <1>3, <1>5, <1>6, OrderKeeps

(* A file that is written, and whatever was promoted into other places.           *)
LEMMA PlaceWritten ==
  ASSUME BooksInv, NEW x \in Place, NEW n \in Int, book' = [book EXCEPT ![x] = n],
         NEW p \in Still({x}), Skill \in Seq(STRING)
  PROVE  p \in Ids \X Types /\ book'[At(p[1], p[2])] = p[1]
<1>1. p \in promoted /\ At(p[1], p[2]) # x
  BY DEF Still
<1>2. p \in Ids \X Types /\ book[At(p[1], p[2])] = p[1]
  BY <1>1 DEF BooksInv, BooksType
<1>3. At(p[1], p[2]) \in Place
  BY <1>2, SkillPlaces
<1> QED BY <1>1, <1>2, <1>3 DEF BooksInv, BooksType

LEMMA WriteBookKeeps ==
  ASSUME BooksInv, NEW c \in Callers, WriteBook(c), Skill \in Seq(STRING) PROVE BooksInv'
<1>1. PICK k, t, x : k = order[c].skill /\ t = order[c].type /\ x = At(k, t)
  OBVIOUS
<1>2. order[c].at = "write" /\ order' = [order EXCEPT ![c] = NoOrder]
  BY DEF WriteBook
<1>3. k \in Ids /\ t \in Types /\ x \in Place /\ k \in Int
  BY <1>1, <1>2, SkillPlaces DEF BooksInv, BooksType
<1>4. /\ book' \in [Place -> Int] /\ robbed' = FALSE /\ promoted' \subseteq Ids \X Types
      /\ \A p \in promoted' : book'[At(p[1], p[2])] = p[1]
  <2>1. CASE UNCHANGED <<book, promoted, robbed>>
    BY <2>1 DEF BooksInv, BooksType
  <2>2. CASE /\ book' = [book EXCEPT ![x] = k] /\ promoted' = Still({x}) \cup {<<k, t>>}
             /\ robbed' = (robbed \/ (~order[c].force /\ order[c].saw = ByHand))
    <3>1. book' \in [Place -> Int] /\ book'[x] = k
      BY <1>3, <2>2 DEF BooksInv, BooksType
    <3>2. robbed' = FALSE
      <4>1. order[c].saw = ByHand => order[c].force
        BY <1>2 DEF BooksInv, ByHand, Nothing
      <4>2. robbed = FALSE
        BY DEF BooksInv
      <4> QED BY <2>2, <4>1, <4>2, Zenon
    <3>3. \A p \in Still({x}) : p \in Ids \X Types /\ book'[At(p[1], p[2])] = p[1]
      BY <1>3, <2>2, PlaceWritten
    <3>4. \A p \in promoted' : p \in Still({x}) \/ (p = <<k, t>> /\ p[1] = k /\ p[2] = t)
      BY <2>2
    <3>5. \A p \in promoted' : p \in Ids \X Types
      <4>1. <<k, t>> \in Ids \X Types
        BY <1>3
      <4> QED BY <3>3, <3>4, <4>1
    <3>6. \A p \in promoted' : book'[At(p[1], p[2])] = p[1]
      BY <1>1, <3>1, <3>3, <3>4
    <3> QED BY <3>1, <3>2, <3>5, <3>6
  <2> QED BY <1>1, <2>1, <2>2 DEF WriteBook
<1> QED BY <1>2, <1>4, NoOrderIsOne, OrderKeeps

LEMMA HandKeeps ==
  ASSUME BooksInv, Hand, Skill \in Seq(STRING) PROVE BooksInv'
<1>1. PICK x \in DOMAIN book, new \in {Nothing, ByHand} :
        book' = [book EXCEPT ![x] = new] /\ promoted' = Still({x})
  BY DEF Hand
<1>2. x \in Place /\ new \in Int
  BY <1>1 DEF BooksInv, BooksType, Nothing, ByHand
<1>3. book' \in [Place -> Int] /\ UNCHANGED <<order, robbed>>
  BY <1>1, <1>2 DEF Hand, BooksInv, BooksType
<1>4. \A p \in promoted' : p \in Ids \X Types /\ book'[At(p[1], p[2])] = p[1]
  BY <1>1, <1>2, PlaceWritten
<1> QED BY <1>3, <1>4 DEF BooksInv, BooksType, At

(* promote_skill_to_playbook and get_playbook: a skill that was promoted is served  *)
(* under its name, alone, and a call that was not forced overwrites no file that    *)
(* was there when it looked; for any callers, skills, task types and bundled files, *)
(* where the names of the bundled task types are in lower case.                  *)
THEOREM PromotedDoGetServed ==
  ASSUME Skill \in Seq(STRING), \A t \in DOMAIN Rules : Lower[t] = t
  PROVE  PBSpec => [](PromotedAreServed /\ NoHandIsRobbed)
<1>1. PBInit => BooksInv
  <2> SUFFICES ASSUME PBInit PROVE BooksInv
    OBVIOUS
  <2>1. book \in [Place -> Int] /\ promoted = {} /\ robbed = FALSE
    BY DEF PBInit, Place, Nothing
  <2>2. order \in [Callers -> Order] /\ \A c \in Callers : order[c].at = "idle"
    BY NoOrderIsOne DEF PBInit
  <2> QED BY <2>1, <2>2 DEF BooksInv, BooksType
<1>2. BooksInv /\ [PBNext]_yvars => BooksInv'
  <2> SUFFICES ASSUME BooksInv, [PBNext]_yvars PROVE BooksInv'
    OBVIOUS
  <2>1. CASE UNCHANGED <<book, order, promoted, robbed>>
    BY <2>1 DEF BooksInv, BooksType, At
  <2>2. CASE SetStatus \/ UNCHANGED yvars
    BY <2>1, <2>2 DEF SetStatus, yvars
  <2> QED BY <2>2, HandKeeps, PromoteKeeps, LookKeeps, WriteBookKeeps DEF PBNext
<1>3. BooksInv => PromotedAreServed /\ NoHandIsRobbed
  <2> SUFFICES ASSUME BooksInv, NEW p \in promoted,
                      p[2] \in DOMAIN Rules, book[<<"data", p[2], Skill[p[1]]>>] = Nothing
               PROVE  {r.from : r \in {x \in Served(p[2]) : x.file = Skill[p[1]]}} = {p[1]}
    BY DEF PromotedAreServed, NoHandIsRobbed, BooksInv
  <2>1. PICK k, t, name : k = p[1] /\ t = p[2] /\ name = Skill[p[1]]
    OBVIOUS
  <2>2. k \in Ids /\ t \in Types /\ name \in Names /\ k # Nothing
    <3>1. p \in Ids \X Types
      BY DEF BooksInv, BooksType
    <3> QED BY <2>1, <3>1, SkillPlaces DEF Names, ToSet, Nothing, Ids
  <2>3. book[<<"repo", t, name>>] = k /\ book[<<"data", t, name>>] = Nothing
    BY <2>1 DEF BooksInv, At
  <2>4. PICK own : own = [file |-> name, from |-> k, as |-> "any"]
    OBVIOUS
  <2>5. own \in Own(t)
    BY <2>2, <2>3, <2>4 DEF Own
  <2>6. \A r \in Own(t) : r.file = name => r = own
    <3>1. \A r \in Own(t) :
            \E n \in Names : \/ /\ book[<<"data", t, n>>] # Nothing
                              /\ r = [file |-> n, from |-> book[<<"data", t, n>>], as |-> "any"]
                           \/ r = [file |-> n, from |-> book[<<"repo", t, n>>], as |-> "any"]
      BY DEF Own
    <3>2. ASSUME NEW r \in Own(t), r.file = name PROVE r = own
      <4>1. PICK n \in Names :
              \/ /\ book[<<"data", t, n>>] # Nothing
                 /\ r = [file |-> n, from |-> book[<<"data", t, n>>], as |-> "any"]
              \/ r = [file |-> n, from |-> book[<<"repo", t, n>>], as |-> "any"]
        BY <3>1, <3>2
      <4>2. n = name
        BY <3>2, <4>1
      <4> QED BY <2>3, <2>4, <4>1, <4>2
    <3> QED BY <3>2
  <2>7. \A r \in Bundled(Rules[t] \ {s.file : s \in Own(t)}) : r.file # name
    BY <2>4, <2>5 DEF Bundled
  <2>8. Served(t) = Own(t) \cup Bundled(Rules[t] \ {s.file : s \in Own(t)})
    BY <2>1 DEF Served
  <2>9. {x \in Served(t) : x.file = name} = {own}
    BY <2>4, <2>5, <2>6, <2>7, <2>8
  <2> QED BY <2>1, <2>4, <2>9
<1> QED BY <1>1, <1>2, <1>3, PTL DEF PBSpec

-----------------------------------------------------------------------------
(* What a prompt is given (PromptContext).                                     *)

WriteStep == {"none", "add-manifest", "manifest", "add-digest", "digest"}
AskStep == {"idle", "manifest", "digest", "search", "done"}
Adding == wr[1] \in {"add-manifest", "add-digest"}

ContextType ==
  /\ status \in [Decisions -> {"none", "active", "retired"}]
  /\ wr \in WriteStep \X (Decisions \cup {0})
  /\ wr[1] = "none" => wr = NoWrite
  /\ wr # NoWrite => wr[2] \in Decisions
  /\ ask \in [at : AskStep, man : SUBSET Decisions, dig : SUBSET Decisions]
  /\ ask.at = "idle" => ask = NoAsk
  /\ met \in BOOLEAN /\ man \subseteq Decisions /\ dig \subseteq Decisions

(* An index that no failed update left behind lacks at most what is being written, *)
(* and has at most that besides what is active.                                 *)
IndexesFollow ==
  /\ Adding => status[wr[2]] = "active"
  /\ "manifest" \notin behind => man \subseteq Active \cup (IF wr[1] = "manifest" THEN {wr[2]} ELSE {})
  /\ "digest" \notin behind => Active \ (IF Adding THEN {wr[2]} ELSE {}) \subseteq dig

(* What was out of the indexes when the prompt came has not come back.           *)
GoneStayGone ==
  /\ \A d \in gone : d \in Decisions /\ status[d] = "retired" /\ d \notin man
  /\ ask.man \cap gone = {}

(* A prompt that no write has met reads one state of the project.                *)
ReadsOneState ==
  ask.at # "idle" /\ ~met =>
    /\ wr = NoWrite
    /\ ask.at \in {"digest", "search", "done"} => ask.man = man
    /\ ask.at \in {"search", "done"} => ask.dig = dig

ShownStand ==
  /\ ask.at # "done" => shown = {}
  /\ shown \cap gone = {}
  /\ ~met /\ behind = {} => shown \subseteq ask.dig

ContextInv == ContextType /\ IndexesFollow /\ GoneStayGone /\ ReadsOneState /\ ShownStand

(* What is shown was filed when the manifest was read, or was found just now.     *)
LEMMA BlockIsFound ==
  ASSUME NEW hits, NEW rank \in Ranks(hits)
  PROVE  Block(rank) \subseteq Decisions \cap (ask.man \cup hits)
<1>1. DOMAIN rank = hits
  BY DEF Ranks
<1>2. ASSUME NEW d \in Block(rank)  PROVE d \in Decisions /\ d \in ask.man \cup hits
  <2>1. d \in Decisions /\ Points(d, rank) > 0
    BY <1>2 DEF Block, Scored
  <2>2. CASE d \notin ask.man /\ d \notin DOMAIN rank
    <3>1. Points(d, rank) = 0 + 0
      BY <2>2 DEF Points
    <3> QED BY <2>1, <3>1
  <2> QED BY <2>1, <2>2, <1>1
<1> QED BY <1>2

LEMMA BlockOfNone == Block([d \in {} |-> 0]) \subseteq Decisions \cap ask.man
<1> DEFINE rank == [d \in {} |-> 0]
<1>2. ASSUME NEW d \in Block(rank)  PROVE d \in Decisions /\ d \in ask.man
  <2>1. d \in Decisions /\ Points(d, rank) > 0
    BY <1>2 DEF Block, Scored
  <2>2. CASE d \notin ask.man
    <3>1. Points(d, rank) = 0 + 0
      BY <2>2 DEF Points
    <3> QED BY <2>1, <3>1
  <2> QED BY <2>1, <2>2
<1> QED BY <1>2

LEMMA ContextBegins == PInit => ContextInv
<1> SUFFICES ASSUME PInit PROVE ContextInv
  OBVIOUS
<1> USE DEF PInit, NoWrite, NoAsk
<1>1. ContextType
  BY DEF ContextType, WriteStep, AskStep, Active
<1>2. IndexesFollow
  BY DEF IndexesFollow, Adding
<1>3. GoneStayGone /\ ReadsOneState /\ ShownStand
  BY DEF GoneStayGone, ReadsOneState, ShownStand
<1> QED BY <1>1, <1>2, <1>3 DEF ContextInv

(* A write begins: one decision changes, and what it was is known.               *)
LEMMA WriteKeeps ==
  ASSUME ContextInv, NEW step, NEW d \in Decisions, NEW st, Write(step, d, st),
         \/ step = "add-manifest" /\ st = "active" /\ status[d] = "none"
         \/ step = "manifest" /\ st = "retired" /\ status[d] = "active"
  PROVE  ContextInv'
<1> USE DEF reader
<1>1. ContextType'
  BY DEF ContextInv, ContextType, Write, WriteStep, NoWrite
<1>2. wr = NoWrite /\ wr' = <<step, d>> /\ status' = [status EXCEPT ![d] = st]
      /\ UNCHANGED <<man, dig, behind, ask, shown, gone>>
  BY DEF Write
<1>3. status \in [Decisions -> {"none", "active", "retired"}] /\ wr[1] = "none" /\ wr[2] = 0
  BY <1>2 DEF ContextInv, ContextType, NoWrite
<1>4. /\ wr'[1] = step /\ wr'[2] = d /\ status'[d] = st
      /\ \A e \in Decisions \ {d} : status'[e] = status[e]
  BY <1>2, <1>3
<1>5. IndexesFollow'
  <2>1. Adding' => status'[wr'[2]] = "active"
    BY <1>4 DEF Adding
  <2>2. "manifest" \notin behind' => man' \subseteq Active' \cup (IF wr'[1] = "manifest" THEN {wr'[2]} ELSE {})
    <3>1. "manifest" \notin behind => man \subseteq Active
      BY <1>3 DEF ContextInv, IndexesFollow
    <3>2. Active \subseteq Active' \cup (IF wr'[1] = "manifest" THEN {wr'[2]} ELSE {})
      BY <1>4 DEF Active
    <3> QED BY <1>2, <3>1, <3>2
  <2>3. "digest" \notin behind' => Active' \ (IF Adding' THEN {wr'[2]} ELSE {}) \subseteq dig'
    <3>1. "digest" \notin behind => Active \subseteq dig
      BY <1>3 DEF ContextInv, IndexesFollow, Adding
    <3>2. Active' \ (IF Adding' THEN {wr'[2]} ELSE {}) \subseteq Active
      BY <1>4 DEF Active, Adding
    <3> QED BY <1>2, <3>1, <3>2
  <2> QED BY <2>1, <2>2, <2>3 DEF IndexesFollow
<1>6. GoneStayGone'
  BY <1>2, <1>3, <1>4 DEF ContextInv, GoneStayGone
<1>7. ~met' => ask = NoAsk
  BY DEF Write
<1>8. ask = NoAsk => ask.at = "idle" /\ shown = {}
  BY DEF ContextInv, ShownStand, NoAsk
<1>9. ReadsOneState'
  BY <1>2, <1>7, <1>8 DEF ReadsOneState
<1>10. ShownStand'
  <2>1. shown' = shown /\ shown \cap gone = {} /\ (ask.at # "done" => shown = {})
    BY <1>2 DEF ContextInv, ShownStand
  <2> QED BY <1>2, <1>7, <1>8, <2>1 DEF ShownStand
<1> QED BY <1>1, <1>5, <1>6, <1>9, <1>10 DEF ContextInv

LEMMA ManifestKeeps == ContextInv /\ Manifest => ContextInv'
<1> SUFFICES ASSUME ContextInv, Manifest PROVE ContextInv'
  OBVIOUS
<1> USE DEF reader
<1>1. /\ wr \in WriteStep \X (Decisions \cup {0}) /\ wr[2] \in Decisions /\ wr # NoWrite
      /\ UNCHANGED <<status, dig, ask, shown, gone, met>>
  BY DEF ContextInv, ContextType, Manifest, NoWrite
<1>2. /\ wr'[1] = (IF wr[1] = "manifest" THEN "digest" ELSE "add-digest")
      /\ wr'[2] = wr[2] /\ wr[1] \in {"add-manifest", "manifest"}
      /\ wr' \in WriteStep \X (Decisions \cup {0})
  BY <1>1 DEF Manifest, WriteStep
<1>3. \/ man' = man /\ behind' = behind \cup {"manifest"}
      \/ wr[1] = "manifest" /\ man' = Active /\ behind' = behind \ {"manifest"}
      \/ wr[1] = "add-manifest" /\ man' = man \cup {wr[2]} /\ behind' = behind
  BY DEF Manifest, Updates, Recount
<1>4. ContextType'
  <2>1. Active \subseteq Decisions
    BY DEF Active
  <2>2. man' \subseteq Decisions
    BY <1>1, <1>3, <2>1 DEF ContextInv, ContextType
  <2> QED BY <1>1, <1>2, <2>2 DEF ContextInv, ContextType, NoWrite
<1>5. Active' = Active /\ Adding' = Adding
  BY <1>1, <1>2 DEF Active, Adding
<1>6. IndexesFollow'
  <2>1. Adding' => status'[wr'[2]] = "active"
    BY <1>1, <1>2, <1>5 DEF ContextInv, IndexesFollow
  <2>2. "manifest" \notin behind' => man' \subseteq Active
    <3>1. wr[1] = "add-manifest" => wr[2] \in Active
      BY <1>1 DEF ContextInv, IndexesFollow, Adding, Active
    <3> QED BY <1>3, <3>1 DEF ContextInv, IndexesFollow
  <2>3. "digest" \notin behind' => "digest" \notin behind
    BY <1>3
  <2> QED BY <1>1, <1>2, <1>5, <2>1, <2>2, <2>3 DEF ContextInv, IndexesFollow
<1>7. GoneStayGone'
  <2>1. ASSUME NEW d \in gone  PROVE d \notin man'
    <3>1. status[d] = "retired" /\ d \notin man
      BY <2>1 DEF ContextInv, GoneStayGone
    <3>2. d \notin Active
      BY <3>1 DEF Active
    <3>3. wr[1] = "add-manifest" => status[wr[2]] = "active"
      BY DEF ContextInv, IndexesFollow, Adding
    <3> QED BY <1>3, <3>1, <3>2, <3>3
  <2> QED BY <1>1, <2>1 DEF ContextInv, GoneStayGone
<1>8. ask.at = "idle" \/ met
  BY <1>1 DEF ContextInv, ReadsOneState
<1>9. ReadsOneState' /\ ShownStand'
  <2>1. ReadsOneState'
    BY <1>1, <1>8 DEF ReadsOneState
  <2>2. ask.at = "idle" => shown = {}
    BY DEF ContextInv, ShownStand
  <2>3. ShownStand'
    BY <1>1, <1>8, <2>2 DEF ContextInv, ShownStand
  <2> QED BY <2>1, <2>3
<1> QED BY <1>4, <1>6, <1>7, <1>9 DEF ContextInv

LEMMA DigestKeeps == ContextInv /\ Digest => ContextInv'
<1> SUFFICES ASSUME ContextInv, Digest PROVE ContextInv'
  OBVIOUS
<1> USE DEF reader
<1>1. /\ wr \in WriteStep \X (Decisions \cup {0}) /\ wr[2] \in Decisions /\ wr # NoWrite
      /\ UNCHANGED <<status, man, ask, shown, gone, met>> /\ wr' = NoWrite
      /\ wr[1] \in {"add-digest", "digest"}
  BY DEF ContextInv, ContextType, Digest, NoWrite
<1>3. \/ dig' = dig /\ behind' = behind \cup {"digest"}
      \/ dig' = Active /\ behind' = behind \ {"digest"}
      \/ wr[1] = "add-digest" /\ dig' = dig \cup {wr[2]} /\ behind' = behind
  BY DEF Digest, Updates
<1>4. ContextType'
  <2>1. Active \subseteq Decisions
    BY DEF Active
  <2>2. dig' \subseteq Decisions
    BY <1>1, <1>3, <2>1 DEF ContextInv, ContextType
  <2> QED BY <1>1, <2>2 DEF ContextInv, ContextType, NoWrite, WriteStep
<1>5. Active' = Active /\ ~Adding' /\ wr'[1] = "none"
  BY <1>1 DEF Active, Adding, NoWrite
<1>6. IndexesFollow'
  <2>1. "manifest" \notin behind' => man' \subseteq Active
    BY <1>1, <1>3 DEF ContextInv, IndexesFollow
  <2>2. "digest" \notin behind' => Active \subseteq dig'
    <3>1. CASE wr[1] = "add-digest"
      BY <1>3, <3>1 DEF ContextInv, IndexesFollow, Adding
    <3>2. CASE wr[1] = "digest"
      BY <1>1, <1>3, <3>2 DEF ContextInv, IndexesFollow, Adding
    <3> QED BY <1>1, <3>1, <3>2
  <2> QED BY <1>5, <2>1, <2>2 DEF IndexesFollow
<1>7. GoneStayGone'
  BY <1>1 DEF ContextInv, GoneStayGone
<1>8. ask.at = "idle" \/ met
  BY <1>1 DEF ContextInv, ReadsOneState
<1>9. ReadsOneState' /\ ShownStand'
  <2>1. ReadsOneState'
    BY <1>1, <1>8 DEF ReadsOneState
  <2>2. ask.at = "idle" => shown = {}
    BY DEF ContextInv, ShownStand
  <2>3. ShownStand'
    BY <1>1, <1>8, <2>2 DEF ContextInv, ShownStand
  <2> QED BY <2>1, <2>3
<1> QED BY <1>4, <1>6, <1>7, <1>9 DEF ContextInv

LEMMA PromptKeeps == ContextInv /\ Prompt => ContextInv'
<1> SUFFICES ASSUME ContextInv, Prompt PROVE ContextInv'
  OBVIOUS
<1>1. /\ ask = NoAsk /\ ask' = [NoAsk EXCEPT !.at = "manifest"] /\ met' = (wr # NoWrite)
      /\ UNCHANGED <<status, man, dig, wr, shown, behind>>
  BY DEF Prompt
<1>2. ask'.at = "manifest" /\ ask'.man = {} /\ ask'.dig = {}
      /\ ask' \in [at : AskStep, man : SUBSET Decisions, dig : SUBSET Decisions]
  BY <1>1 DEF NoAsk, AskStep
<1>3. ContextType'
  BY <1>1, <1>2 DEF ContextInv, ContextType
<1>4. IndexesFollow'
  <2>1. Active' = Active /\ Adding' = Adding
    BY <1>1 DEF Active, Adding
  <2> QED BY <1>1, <2>1 DEF ContextInv, IndexesFollow
<1>5. GoneStayGone'
  <2>1. ASSUME NEW d \in gone'  PROVE d \in Decisions /\ status[d] = "retired" /\ d \notin man
    <3>1. behind = {} /\ d \in Decisions /\ status[d] = "retired" /\ d # wr[2]
      BY <2>1 DEF Prompt
    <3>2. man \subseteq Active \cup {wr[2]}
      BY <3>1 DEF ContextInv, IndexesFollow
    <3> QED BY <3>1, <3>2 DEF Active
  <2> QED BY <1>1, <1>2, <2>1 DEF GoneStayGone
<1>6. ReadsOneState'
  BY <1>1, <1>2 DEF ReadsOneState
<1>7. ShownStand'
  <2>1. shown = {}
    BY <1>1 DEF ContextInv, ShownStand, NoAsk
  <2> QED BY <1>1, <2>1 DEF ShownStand
<1> QED BY <1>3, <1>4, <1>5, <1>6, <1>7 DEF ContextInv

LEMMA ReadsKeep == ContextInv /\ (ReadManifest \/ ReadDigest) => ContextInv'
<1> SUFFICES ASSUME ContextInv, ReadManifest \/ ReadDigest PROVE ContextInv'
  OBVIOUS
<1>1. UNCHANGED <<status, man, dig, wr, shown, behind, gone, met>>
  BY DEF ReadManifest, ReadDigest
<1>2. ask \in [at : AskStep, man : SUBSET Decisions, dig : SUBSET Decisions]
      /\ man \subseteq Decisions /\ dig \subseteq Decisions
  BY DEF ContextInv, ContextType
<1>3. ask' \in [at : AskStep, man : SUBSET Decisions, dig : SUBSET Decisions]
      /\ \/ ask.at = "manifest" /\ ask'.at = "digest" /\ ask'.man = man
         \/ ask.at = "digest" /\ ask'.at \in {"search", "done"} /\ ask'.man = ask.man /\ ask'.dig = dig
  BY <1>2 DEF ReadManifest, ReadDigest, AskStep
<1>4. ContextType'
  BY <1>1, <1>3 DEF ContextInv, ContextType
<1>5. IndexesFollow'
  <2>1. Active' = Active /\ Adding' = Adding
    BY <1>1 DEF Active, Adding
  <2> QED BY <1>1, <2>1 DEF ContextInv, IndexesFollow
<1>6. GoneStayGone'
  BY <1>1, <1>3 DEF ContextInv, GoneStayGone
<1>7. ReadsOneState'
  BY <1>1, <1>3 DEF ContextInv, ReadsOneState
<1>8. ShownStand'
  <2>1. shown = {}
    BY <1>3 DEF ContextInv, ShownStand
  <2> QED BY <1>1, <2>1 DEF ShownStand
<1> QED BY <1>4, <1>5, <1>6, <1>7, <1>8 DEF ContextInv

LEMMA SearchKeeps == ContextInv /\ Search => ContextInv'
<1> SUFFICES ASSUME ContextInv, Search PROVE ContextInv'
  OBVIOUS
<1>1. /\ ask.at = "search" /\ ask' = [ask EXCEPT !.at = "done"]
      /\ UNCHANGED <<status, man, dig, wr, behind, gone, met>>
  BY DEF Search
<1>2. shown' \subseteq Decisions \cap (ask.man \cup Active)
  <2>1. CASE \E rank \in Ranks({d \in Active : about[d].words}) : shown' = Block(rank)
    BY <2>1, BlockIsFound
  <2>2. CASE shown' = Block([d \in {} |-> 0])
    BY <2>2, BlockOfNone
  <2> QED BY <2>1, <2>2 DEF Search
<1>3. ask' \in [at : AskStep, man : SUBSET Decisions, dig : SUBSET Decisions]
      /\ ask'.at = "done" /\ ask'.man = ask.man /\ ask'.dig = ask.dig
  BY <1>1 DEF ContextInv, ContextType, AskStep
<1>4. ContextType'
  BY <1>1, <1>3 DEF ContextInv, ContextType
<1>5. IndexesFollow'
  <2>1. Active' = Active /\ Adding' = Adding
    BY <1>1 DEF Active, Adding
  <2> QED BY <1>1, <2>1 DEF ContextInv, IndexesFollow
<1>6. GoneStayGone'
  BY <1>1, <1>3 DEF ContextInv, GoneStayGone
<1>7. ReadsOneState'
  BY <1>1, <1>3 DEF ContextInv, ReadsOneState
<1>8. ShownStand'
  <2>1. shown' \cap gone = {}
    BY <1>2 DEF ContextInv, GoneStayGone, Active
  <2>2. ASSUME ~met, behind = {}  PROVE shown' \subseteq ask.dig
    <3>1. wr = NoWrite /\ ask.man = man /\ ask.dig = dig
      BY <1>1, <2>2 DEF ContextInv, ReadsOneState
    <3>2. wr[1] = "none"
      BY <3>1 DEF NoWrite
    <3>3. man \subseteq Active /\ Active \subseteq dig
      BY <2>2, <3>2 DEF ContextInv, IndexesFollow, Adding
    <3> QED BY <1>2, <3>1, <3>3
  <2> QED BY <1>1, <1>3, <2>1, <2>2 DEF ShownStand
<1> QED BY <1>4, <1>5, <1>6, <1>7, <1>8 DEF ContextInv

LEMMA AnswerKeeps == ContextInv /\ Answer => ContextInv'
<1> SUFFICES ASSUME ContextInv, Answer PROVE ContextInv'
  OBVIOUS
<1>1. /\ ask' = NoAsk /\ shown' = {} /\ gone' = {} /\ met' = FALSE
      /\ UNCHANGED <<status, man, dig, wr, behind>>
  BY DEF Answer
<1>4. ContextType'
  BY <1>1 DEF ContextInv, ContextType, NoAsk, AskStep
<1>5. IndexesFollow'
  <2>1. Active' = Active /\ Adding' = Adding
    BY <1>1 DEF Active, Adding
  <2> QED BY <1>1, <2>1 DEF ContextInv, IndexesFollow
<1>6. GoneStayGone' /\ ReadsOneState' /\ ShownStand'
  BY <1>1 DEF GoneStayGone, ReadsOneState, ShownStand, NoAsk
<1> QED BY <1>4, <1>5, <1>6 DEF ContextInv

LEMMA ContextKeeps == ContextInv /\ [PNext]_pvars => ContextInv'
<1> SUFFICES ASSUME ContextInv, [PNext]_pvars PROVE ContextInv'
  OBVIOUS
<1>1. CASE Add
  BY <1>1, WriteKeeps DEF Add
<1>2. CASE Retire
  BY <1>2, WriteKeeps DEF Retire, Active
<1>3. CASE UNCHANGED pvars
  BY <1>3 DEF pvars, ContextInv, ContextType, IndexesFollow, GoneStayGone, ReadsOneState,
     ShownStand, Active, Adding
<1> QED BY <1>1, <1>2, <1>3, ManifestKeeps, DigestKeeps, PromptKeeps, ReadsKeep, SearchKeeps,
          AnswerKeeps DEF PNext

(* policies/relevance_inject.py: no prompt is given a decision that a call had      *)
(* retired before it came, nor one without its words, but after a failed update of   *)
(* an index, or, for the words, beside a write.  For any decisions, scores, budget    *)
(* and number of writes and failures.                                            *)
THEOREM InjectedDoStand == PSpec => []InjectedStand
<1>1. ContextInv => InjectedStand
  BY DEF ContextInv, ShownStand, InjectedStand
<1> QED BY <1>1, ContextBegins, ContextKeeps, PTL DEF PSpec
=============================================================================

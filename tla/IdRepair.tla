------------------------------ MODULE IdRepair ------------------------------
(***************************************************************************)
(* mcp_server/storage/id_repair.py: what `normalize` makes of the records  *)
(* of a decisions file in which two decisions have the same id.            *)
(*                                                                         *)
(* A file is abstracted to its set of base records and its set of          *)
(* amendments (byte-identical lines are one).  A decision's content is     *)
(* abstracted to when and where it was recorded, which is also what orders *)
(* it and what its hash and uid identify it by: no two decisions have the  *)
(* same hash here.                                                         *)
(***************************************************************************)
EXTENDS Integers, FiniteSets

CONSTANTS Hosts, NoHost

ASSUME NoHostAssumption == NoHost \notin Hosts

Body == [at : Nat, host : Hosts]
NoBody == [at |-> 0, host |-> NoHost]

(* "D00000n" is [n, NoBody, 0].  An id hashed from a body is the prefix of   *)
(* its hash of width 11 + w.                                                 *)
Id == [n : Nat, of : {NoBody}, w : {0}] \cup [n : {0}, of : Body, w : Nat \ {0}]
NoId == [n |-> 0, of |-> NoBody, w |-> 0]
Numbered(k) == [n |-> k, of |-> NoBody, w |-> 0]
Hashed(b, k) == [n |-> 0, of |-> b, w |-> k]

Base == [id : Id, body : Body]

(* An amendment of the record called `id`, made in commit nr.  `about` is its *)
(* `_amendment_to_uid` and `next` its superseded_by; rows written before 4.0  *)
(* have neither a host nor a uid edge.  `meant` and `nextMeant` are history:  *)
(* the decisions its author was shown.                                       *)
Note == [id : Id, host : Hosts \cup {NoHost}, nr : Nat, about : Body \cup {NoBody},
         meant : Body, next : Id, nextMeant : Body \cup {NoBody},
         amb : BOOLEAN, nextAmb : BOOLEAN]

File == [bases : SUBSET Base, notes : SUBSET Note]
Empty == [bases |-> {}, notes |-> {}]

-----------------------------------------------------------------------------
(* Base records are renumbered so that an id has one holder.                 *)

Holders(f, id) == {r.body : r \in {q \in f.bases : q.id = id}}

(* Mutant: the youngest decision wins.                                       *)
WinnerYoungest(f, id) ==
  CHOOSE b \in Holders(f, id) : \A c \in Holders(f, id) : c.at <= b.at

(* _order_key: the oldest keeps the id; the host and hashes break ties, and  *)
(* there are none here.                                                      *)
Winner(f, id) ==
  CHOOSE b \in Holders(f, id) : \A c \in Holders(f, id) : b.at <= c.at

Lost(f) == {r \in f.bases : r.body # Winner(f, r.id)}

Widths(f, b) == {r.id.w : r \in {q \in f.bases : q.id.of = b}}

(* _mint_loser_id: the shortest prefix that no base record has for an id.    *)
NewId(f, b) ==
  Hashed(b, CHOOSE w \in 1 .. Cardinality(Widths(f, b)) + 1 :
              /\ w \notin Widths(f, b)
              /\ \A v \in 1 .. w - 1 : v \in Widths(f, b))

(* Mutants: losers are left out; losers keep their id.                       *)
MovedBasesDropped(f) == f.bases \ Lost(f)
MovedBasesKept(f) == f.bases

MovedBases(f) ==
  (f.bases \ Lost(f)) \cup {[r EXCEPT !.id = NewId(f, r.body)] : r \in Lost(f)}

-----------------------------------------------------------------------------
(* Amendments and successors follow the decision they were written for, if   *)
(* that can be told.                                                         *)

LosersOf(f, id, host) == {r \in Lost(f) : r.id = id /\ r.body.host = host}

(* One loser had that id and came from that host, and the winner did not.    *)
Follows(f, id, host) ==
  /\ Cardinality(LosersOf(f, id, host)) = 1
  /\ Winner(f, id).host # host

LoserOf(f, id, host) == (CHOOSE r \in LosersOf(f, id, host) : TRUE).body

(* by_uid: the amendment names a loser by content.                           *)
Named(f, n) == \E r \in Lost(f) : r.body = n.about

MovedTo(f, n) ==
  CASE Named(f, n)              -> NewId(f, n.about)
    [] ~Named(f, n) /\ Follows(f, n.id, n.host)
                                -> NewId(f, LoserOf(f, n.id, n.host))
    [] OTHER                    -> n.id

Split(f, id) == \E r \in Lost(f) : r.id = id

(* Mutant: a row without a host is nobody's guess.                           *)
AmbiguousHostsOnly(f, n) ==
  /\ ~Named(f, n)
  /\ ~Follows(f, n.id, n.host)
  /\ LosersOf(f, n.id, n.host) # {}

(* ... and a guess is flagged.                                               *)
Ambiguous(f, n) ==
  /\ ~Named(f, n)
  /\ ~Follows(f, n.id, n.host)
  /\ \/ LosersOf(f, n.id, n.host) # {}
     \/ Split(f, n.id) /\ n.host = NoHost

(* Mutant: successors are not repointed.                                     *)
NextOfKept(f, n) == n.next

(* _rewrite_references                                                       *)
NextOf(f, n) ==
  IF Split(f, n.next) /\ Follows(f, n.next, n.host)
  THEN NewId(f, LoserOf(f, n.next, n.host))
  ELSE n.next

MovedNote(f, n) ==
  [n EXCEPT !.id      = MovedTo(f, n),
            !.amb     = @ \/ Ambiguous(f, n),
            !.next    = NextOf(f, n),
            !.nextAmb = @ \/ (Split(f, n.next) /\ ~Follows(f, n.next, n.host))]

Normalize(f) ==
  [bases |-> MovedBases(f), notes |-> {MovedNote(f, n) : n \in f.notes}]

(* Byte-identical duplicates are one record already.                         *)
Collided(f, id) == Cardinality(Holders(f, id)) > 1
Collides(f) == \E r \in f.bases : Collided(f, r.id)

(* _union_dedup *)
UnionDedup(f, g) == [bases |-> f.bases \cup g.bases, notes |-> f.notes \cup g.notes]
=============================================================================

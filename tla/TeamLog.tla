------------------------------ MODULE TeamLog ------------------------------
(***************************************************************************)
(* decisions.jsonl in the clones of a team.  Members record, amend and     *)
(* supersede decisions in their own clone (decisions_store.py), and git    *)
(* brings the files together: through the merge driver that `codevira      *)
(* repair-ids --install` registers (cli_repair.cmd_merge_driver) or, in a  *)
(* clone that has not registered it, as text, to be repaired later with    *)
(* `codevira repair-ids --apply` (decisions_store.repair_ids).             *)
(*                                                                         *)
(* git itself is external: a commit is a number, a clone knows the commits *)
(* in its history, and git merges only when neither history contains the   *)
(* other.  Every operation commits what it did.                            *)
(***************************************************************************)
EXTENDS IdRepair, FiniteSetsExt

(* A team: its clones, the host of each (clones may share one), the clones   *)
(* that have the merge driver, those that run a release before 4.0, and the  *)
(* bound on the commits that all of them make.                               *)
CONSTANT Teams

ASSUME TeamAssumption ==
  \A t \in Teams :
    /\ t.host \in [t.clones -> Hosts]
    /\ t.drivers \subseteq t.clones
    /\ t.older \subseteq t.clones
    /\ t.commits \in Nat

VARIABLES
  team,      \* the team whose clones these are
  file,      \* file[c]: the clone's decisions.jsonl
  known,     \* known[c]: the commits in c's history
  commits,   \* number of commits made
  recorded,  \* every decision that was ever recorded
  noted      \* the commits that amended something

vars == <<team, file, known, commits, recorded, noted>>

Clones == team.clones
HostOf == team.host
Drivers == team.drivers
Older == team.older
MaxCommits == team.commits

Init ==
  /\ team \in Teams
  /\ file = [c \in Clones |-> Empty]
  /\ known = [c \in Clones |-> {}]
  /\ commits = 0
  /\ recorded = {} /\ noted = {}

Commit(c, f, history) ==
  /\ commits < MaxCommits
  /\ commits' = commits + 1
  /\ UNCHANGED team
  /\ file' = [file EXCEPT ![c] = f]
  /\ known' = [known EXCEPT ![c] = history \cup {commits + 1}]

(* append_with_generated_id: hashed ids do not count.                        *)
NextNum(f) == 1 + Max({r.id.n : r \in f.bases} \cup {0})

NewBody(c) == [at |-> commits + 1, host |-> HostOf[c]]
NewBase(c) == [id |-> Numbered(NextNum(file[c])), body |-> NewBody(c)]

Record(c) ==
  /\ Commit(c, [file[c] EXCEPT !.bases = @ \cup {NewBase(c)}], known[c])
  /\ recorded' = recorded \cup {NewBody(c)}
  /\ UNCHANGED noted

(* The merged view shows the last base record that has an id, _base_uid      *)
(* hashes the first: two records if there are two.                           *)
ShownAndFirst(f, id) ==
  {p \in Holders(f, id) \X Holders(f, id) : Collided(f, id) => p[1] # p[2]}

NewNote(c, id, shown, first) ==
  [id |-> id, nr |-> commits + 1,
   host  |-> IF c \in Older THEN NoHost ELSE HostOf[c],
   about |-> IF c \in Older THEN NoBody ELSE first,
   meant |-> shown, next |-> NoId, nextMeant |-> NoBody,
   amb |-> FALSE, nextAmb |-> FALSE]

(* mark_protected, mark_outdated, set_flag, reaffirm: one amendment.         *)
Amend(c) ==
  /\ \E r \in file[c].bases :
       \E p \in ShownAndFirst(file[c], r.id) :
         Commit(c, [file[c] EXCEPT !.notes = @ \cup {NewNote(c, r.id, p[1], p[2])}],
                known[c])
  /\ noted' = noted \cup {commits + 1}
  /\ UNCHANGED recorded

(* The merged view of a collided id may have lost the amendment that says so. *)
Superseded(f, id) == ~Collided(f, id) /\ \E n \in f.notes : n.id = id /\ n.next # NoId

(* supersede: a new decision, and an amendment of the old one that points to it. *)
Supersede(c) ==
  /\ \E r \in file[c].bases :
       /\ ~Superseded(file[c], r.id)
       /\ \E p \in ShownAndFirst(file[c], r.id) :
            Commit(c,
                   [bases |-> file[c].bases \cup {NewBase(c)},
                    notes |-> file[c].notes \cup
                                {[NewNote(c, r.id, p[1], p[2]) EXCEPT
                                    !.next = NewBase(c).id, !.nextMeant = NewBody(c)]}],
                   known[c])
  /\ recorded' = recorded \cup {NewBody(c)}
  /\ noted' = noted \cup {commits + 1}

(* repair-ids --apply: nothing is written when nothing collides.             *)
Repair(c) ==
  /\ Collides(file[c])
  /\ Commit(c, Normalize(file[c]), known[c])
  /\ UNCHANGED <<recorded, noted>>

(* git: c's history is part of d's.                                          *)
FastForward(c, d) ==
  /\ known[c] \subseteq known[d] /\ known[c] # known[d]
  /\ file' = [file EXCEPT ![c] = file[d]]
  /\ known' = [known EXCEPT ![c] = known[d]]
  /\ UNCHANGED <<team, commits, recorded, noted>>

Diverged(c, d) == ~(known[c] \subseteq known[d]) /\ ~(known[d] \subseteq known[c])

(* git runs the driver on ours and theirs; the common ancestor is not read.  *)
DriverMerge(c, d) ==
  /\ c \in Drivers
  /\ Diverged(c, d)
  /\ Commit(c, Normalize(UnionDedup(file[c], file[d])), known[c] \cup known[d])
  /\ UNCHANGED <<recorded, noted>>

(* git without the driver: the lines of both sides.                          *)
TextMerge(c, d) ==
  /\ c \notin Drivers
  /\ Diverged(c, d)
  /\ Commit(c, UnionDedup(file[c], file[d]), known[c] \cup known[d])
  /\ UNCHANGED <<recorded, noted>>

Pull(c, d) == FastForward(c, d) \/ DriverMerge(c, d) \/ TextMerge(c, d)

(* The bound MaxCommits has been reached and every clone is up to date.      *)
Exhausted == commits = MaxCommits /\ UNCHANGED vars

Next ==
  \/ Exhausted
  \/ \E c \in Clones : Record(c) \/ Amend(c) \/ Supersede(c) \/ Repair(c)
  \/ \E c, d \in Clones : Pull(c, d)

Spec == Init /\ [][Next]_vars

-----------------------------------------------------------------------------
TypeOK ==
  /\ file \in [Clones -> File]
  /\ known \in [Clones -> SUBSET (1 .. commits)]
  /\ commits \in 0 .. MaxCommits
  /\ recorded \subseteq Body
  /\ noted \subseteq 1 .. commits

IdsDistinct(f) == \A r, s \in f.bases : r.id = s.id => r = s

(* Where some merges are textual, a repair or a driver merge still leaves    *)
(* every id with one decision.                                               *)
RepairsResolve ==
  [][\A c \in Clones :
       /\ ~IdsDistinct(file'[c])
       /\ file'[c] # file[c]
       => ~Repair(c) /\ \A d \in Clones : ~DriverMerge(c, d)]_vars

(* What is in a clone's history is in its file: neither a decision nor an    *)
(* amendment is lost in a merge or repair.                                   *)
NothingLost ==
  \A c \in Clones :
    /\ \A b \in recorded : b.at \in known[c] => \E r \in file[c].bases : r.body = b
    /\ \A k \in noted \cap known[c] : \E n \in file[c].notes : n.nr = k

(* Likewise, an id that named a decision in a clone names that decision or an *)
(* older one ever after: nothing recorded later takes over what people wrote  *)
(* down.                                                                     *)
IdsStayWithTheOlder ==
  [][\A c \in Clones : \A r \in file[c].bases :
       \E s \in file'[c].bases : s.id = r.id /\ s.body.at <= r.body.at]_vars

(* "a re-merge can only surface collisions from genuinely NEW records"       *)
(* (id_repair.py:20-21): a decision is in a file once.                       *)
OneCopyEach ==
  \A c \in Clones : \A r, s \in file[c].bases : r.body = s.body => r = s

(* "nothing silently moves is_protected/is_outdated onto the wrong           *)
(* engineer's decision" (id_repair.py:375-376): where ids are distinct, an   *)
(* amendment that is not flagged is attached to what its author was shown.   *)
AmendmentsStay ==
  \A c \in Clones : IdsDistinct(file[c]) =>
    \A n \in file[c].notes :
      n.amb \/ \E r \in file[c].bases : r.id = n.id /\ r.body = n.meant

(* Two clones at most, on hosts of their own, where every merge is the driver's. *)
Apart ==
  /\ Drivers = Clones
  /\ \A c, d \in Clones : HostOf[c] = HostOf[d] => c = d
  /\ \A c, d, e \in Clones : c = d \/ d = e \/ c = e

(* Between two such clones an amendment stays with the decision its author was  *)
(* shown, or is flagged; with a third clone, or two on one host, it need not.   *)
AmendmentsStayApart == Apart => AmendmentsStay

(* The same of the successor that an amendment names.                        *)
SuccessorsStay ==
  \A c \in Clones : IdsDistinct(file[c]) =>
    \A n \in file[c].notes :
      n.next = NoId \/ n.nextAmb \/ \E r \in file[c].bases : r.id = n.next /\ r.body = n.nextMeant
=============================================================================

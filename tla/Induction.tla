------------------------------ MODULE Induction -------------------------------
(* `codevira induce-skills` (cli_induce.py): sessions whose decisions were kept   *)
(* are put together by task type and tags, and three that go together make a      *)
(* skill.  Sessions and outcomes are read one after the other and nothing keeps    *)
(* others from logging, or the user from thinking for a while.  The procedure's   *)
(* text is left out.                                                         *)
EXTENDS Integers, Sequences, FiniteSets, SequencesExt

CONSTANTS
  Rows,        \* rows of sessions.jsonl: session, type, ids; NoType when none is given
  NoType,
  Tags,        \* Tags[d]: the tags of a decision
  Kept,        \* outcomes to begin with
  MinCluster,  \* _MIN_CLUSTER_SIZE
  MaxRows, MaxEvents, MaxInductions   \* bounds

Ids == DOMAIN Tags

VARIABLES
  sessions,    \* sessions.jsonl
  event,       \* event[d]: the last of outcomes.jsonl
  ind,         \* a run: where it is, the rows and outcomes it read, what is left
  induced,     \* the skills recorded with source "induced"
  proposed,    \* induction_proposals.jsonl
  events, inductions

ivars == <<sessions, event, ind, induced, proposed, events, inductions>>

Resting == [at |-> "idle", rows |-> <<>>, seen |-> [d \in Ids |-> "none"], left |-> {}]

InInit ==
  /\ sessions = <<>> /\ event \in Kept
  /\ ind = Resting /\ induced = {} /\ proposed = {}
  /\ events = 0 /\ inductions = 0

(* write_session_log: one session may be logged several times.                   *)
LogSession ==
  /\ Len(sessions) < MaxRows
  /\ \E row \in Rows : sessions' = Append(sessions, row)
  /\ UNCHANGED <<event, ind, induced, proposed, events, inductions>>

(* The observer of git appends an event; one that changes nothing is left out.     *)
Classify ==
  /\ events < MaxEvents /\ events' = events + 1
  /\ \E d \in Ids, o \in {"kept", "reverted"} :
       event[d] # o /\ event' = [event EXCEPT ![d] = o]
  /\ UNCHANGED <<sessions, ind, induced, proposed, inductions>>

-----------------------------------------------------------------------------
Productive(row, seen) ==
  LET classified == {d \in row.ids : seen[d] # "none"}
      kept == {d \in row.ids : seen[d] = "kept"} IN
  /\ row.type # NoType /\ classified # {}
  /\ 10 * Cardinality(kept) >= 8 * Cardinality(classified)

TagsOf(row) == UNION {Tags[d] : d \in row.ids}

(* Mutant: sessions without tags are alike to none.                             *)
AlikeIfTagged(S, T) ==
  S \cup T # {} /\ 2 * Cardinality(S \cap T) >= Cardinality(S \cup T)

(* _jaccard, at _TAG_JACCARD_THRESHOLD.                                        *)
Alike(S, T) == 2 * Cardinality(S \cap T) >= Cardinality(S \cup T)

(* A row joins the first cluster it is like, and brings its tags; or begins one.   *)
Joined(clusters, i, row) ==
  LET like == {c \in DOMAIN clusters : Alike(TagsOf(row), clusters[c].tags)} IN
  IF like = {} THEN Append(clusters, [rows |-> {i}, tags |-> TagsOf(row)])
  ELSE LET c == CHOOSE c \in like : \A e \in like : c <= e IN
       [clusters EXCEPT ![c] = [rows |-> @.rows \cup {i}, tags |-> @.tags \cup TagsOf(row)]]

Clusters(rows, seen, type) ==
  FoldLeft(LAMBDA acc, i : IF rows[i].type = type /\ Productive(rows[i], seen)
                           THEN Joined(acc, i, rows[i]) ELSE acc,
           <<>>, [i \in DOMAIN rows |-> i])

(* _build_proposals.                                                           *)
Proposals(rows, seen) ==
  UNION {{[type |-> t, rows |-> c.rows, tags |-> c.tags] :
            c \in {x \in ToSet(Clusters(rows, seen, t)) : Cardinality(x.rows) >= MinCluster}} :
          t \in {rows[i].type : i \in DOMAIN rows}}

BeginInduction ==
  /\ ind.at \in {"idle", "nothing"} /\ inductions < MaxInductions /\ inductions' = inductions + 1
  /\ sessions # <<>>
  /\ ind' = [Resting EXCEPT !.at = "outcomes", !.rows = sessions]
  /\ UNCHANGED <<sessions, event, induced, proposed, events>>

ReadOutcomes ==
  /\ ind.at = "outcomes"
  /\ LET found == Proposals(ind.rows, event) IN
       ind' = [ind EXCEPT !.at = IF found = {} THEN "nothing" ELSE "propose",
                          !.seen = event, !.left = found]
  /\ UNCHANGED <<sessions, event, induced, proposed, events, inductions>>

(* Without --apply; an error ends it before the rest is written.                  *)
WriteProposals ==
  /\ ind.at = "propose"
  /\ \E written \in SUBSET ind.left : proposed' = proposed \cup written
  /\ ind' = Resting
  /\ UNCHANGED <<sessions, event, induced, events, inductions>>

(* With it: each is recorded as it is, or skipped, by the user or by an error.      *)
Apply ==
  /\ ind.at \in {"propose", "apply"}
  /\ \E p \in ind.left :
       /\ induced' \in {induced, induced \cup {[seen |-> ind.seen] @@ p}}
       /\ ind' = IF ind.left = {p} THEN Resting
                 ELSE [ind EXCEPT !.left = @ \ {p}, !.at = "apply"]
  /\ UNCHANGED <<sessions, event, proposed, events, inductions>>

InNext ==
  \/ LogSession \/ Classify
  \/ BeginInduction \/ ReadOutcomes \/ WriteProposals \/ Apply
InSpec == InInit /\ [][InNext]_ivars

-----------------------------------------------------------------------------
(* Three productive rows of one type and the same tags are never all lost: whatever *)
(* other sessions draw them into different clusters, one of the three is in a       *)
(* cluster that is large enough (cli_induce.py:20).                            *)
AlikeAreProposed ==
  ind.at \in {"propose", "nothing"} =>
    LET good == {i \in DOMAIN ind.rows : Productive(ind.rows[i], ind.seen)}
        given == UNION {p.rows : p \in ind.left} IN
    \A i \in good :
      LET same == {j \in good : /\ ind.rows[j].type = ind.rows[i].type
                                /\ TagsOf(ind.rows[j]) = TagsOf(ind.rows[i])} IN
      Cardinality(same) >= 3 => same \cap given # {}

(* An induced skill rests on three rows of one task type, and no decision of theirs *)
(* stood as reverted when the outcomes were read unless four others were kept.      *)
InducedHaveEvidence ==
  \A s \in induced :
    /\ Cardinality(s.rows) >= 3
    /\ \A i \in s.rows :
         LET ids == sessions[i].ids IN
         /\ sessions[i].type = s.type
         /\ \E d \in ids : s.seen[d] = "kept"
         /\ Cardinality(ids) < 5 => \A d \in ids : s.seen[d] # "reverted"
=============================================================================

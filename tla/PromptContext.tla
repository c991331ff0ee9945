---------------------------- MODULE PromptContext ----------------------------
(* The decisions that a prompt is given: policies/relevance_inject.py.  It reads *)
(* the manifest, then the digest, then searches the words of the prompt; no     *)
(* lock spans the three, while decisions are recorded and retired.  Scores are  *)
(* in thousandths, outcomes and ages in percent.                             *)
EXTENDS Integers, FiniteSetsExt

CONSTANTS
  Decisions,    \* the ids, 1 .. n, in the order in which they are minted
  Profiles,     \* tags and files that the prompt names (0 .. n), whether it
                \*   shares a word, the outcome, the recency, the length of the line
  Old,          \* bound: decisions that were there before
  MaxShown,     \* inject_max_decisions
  Budget,       \* inject_max_tokens, in lengths of lines
  MaxWrites, MaxFails

MinScore == 100
Floor == 10
Neutral == 50

VARIABLES
  about,      \* about[d], a profile
  status,     \* decisions.jsonl, merged: none, active or retired
  man, dig,   \* the ids filed in manifest.yaml; those in digest.jsonl
  wr,         \* what a writer has still to do: <<step, decision>>
  ask,        \* where the prompt is, and what it has read
  shown,
  writes, fails,
  behind,     \* history: an index that a failed update left behind
  gone,       \* history: retired, and out of the indexes, when the prompt came
  met         \* history: a write was under way during the prompt

pvars == <<about, status, man, dig, wr, ask, shown, writes, fails, behind, gone, met>>
reader == <<ask, shown, gone>>

Active == {d \in Decisions : status[d] = "active"}
NoWrite == <<"none", 0>>
NoAsk == [at |-> "idle", man |-> {}, dig |-> {}]

PInit ==
  /\ about \in [Decisions -> Profiles]
  /\ status = [d \in Decisions |-> IF d <= Old THEN "active" ELSE "none"]
  /\ man = Active /\ dig = Active
  /\ wr = NoWrite /\ ask = NoAsk /\ shown = {}
  /\ writes = 0 /\ fails = 0 /\ behind = {} /\ gone = {} /\ met = FALSE

-----------------------------------------------------------------------------
(* A decision is appended, then filed, then put into the digest; one is retired, *)
(* then manifest and digest are rebuilt.  Each update may fail, and is logged.  *)
Write(step, d, st) ==
  /\ wr = NoWrite /\ writes < MaxWrites /\ writes' = writes + 1
  /\ status' = [status EXCEPT ![d] = st]
  /\ wr' = <<step, d>>
  /\ met' = (met \/ ask # NoAsk)
  /\ UNCHANGED <<about, man, dig, fails, behind, reader>>

Add ==
  \E d \in Decisions :
    /\ status[d] = "none" /\ \A e \in Decisions : e < d => status[e] # "none"
    /\ Write("add-manifest", d, "active")

Retire == \E d \in Active : Write("manifest", d, "retired")

(* Mutant: what is retired stays in the manifest.                            *)
RecountAll == {d \in Decisions : status[d] # "none"}
(* manifest.regenerate.                                                      *)
Recount == Active

Updates(index, ok) ==
  IF ok THEN UNCHANGED fails
  ELSE /\ fails < MaxFails /\ fails' = fails + 1
       /\ behind' = behind \cup {index}

Manifest ==
  /\ wr[1] \in {"add-manifest", "manifest"}
  /\ \/ /\ Updates("manifest", TRUE)
        /\ IF wr[1] = "manifest" THEN man' = Recount /\ behind' = behind \ {"manifest"}
           ELSE man' = man \cup {wr[2]} /\ UNCHANGED behind
     \/ Updates("manifest", FALSE) /\ UNCHANGED man
  /\ wr' = <<IF wr[1] = "manifest" THEN "digest" ELSE "add-digest", wr[2]>>
  /\ UNCHANGED <<about, status, dig, writes, met, reader>>

Digest ==
  /\ wr[1] \in {"add-digest", "digest"}
  /\ \/ /\ Updates("digest", TRUE)
        /\ IF wr[1] = "digest" THEN dig' = Active /\ behind' = behind \ {"digest"}
           ELSE dig' = dig \cup {wr[2]} /\ UNCHANGED behind
     \/ Updates("digest", FALSE) /\ UNCHANGED dig
  /\ wr' = NoWrite
  /\ UNCHANGED <<about, status, man, writes, met, reader>>

-----------------------------------------------------------------------------
Prompt ==
  /\ ask = NoAsk
  /\ ask' = [NoAsk EXCEPT !.at = "manifest"]
  /\ met' = (wr # NoWrite)
  /\ gone' = IF behind # {} THEN {}
             ELSE {d \in Decisions : status[d] = "retired" /\ d # wr[2]}
  /\ UNCHANGED <<about, status, man, dig, wr, shown, writes, fails, behind>>

(* _load_indexes; nothing is looked for in a project without decisions.         *)
ReadManifest ==
  /\ ask.at = "manifest"
  /\ ask' = [ask EXCEPT !.at = "digest", !.man = man]
  /\ UNCHANGED <<about, status, man, dig, wr, shown, writes, fails, behind, gone, met>>

ReadDigest ==
  /\ ask.at = "digest"
  /\ ask' = [ask EXCEPT !.at = IF ask.man = {} THEN "done" ELSE "search", !.dig = dig]
  /\ UNCHANGED <<about, status, man, dig, wr, shown, writes, fails, behind, gone, met>>

Percent(outcome) ==
  CASE outcome = "kept" -> 100 [] outcome = "modified" -> 60
    [] outcome = "reverted" -> 20 [] OTHER -> Neutral

(* freshness: what git shows of a decision, and its age.                       *)
Fresh(d) == (Percent(about[d].outcome) * about[d].recency) \div 100

(* The tags and files that name a decision, and its place among the hits.      *)
Points(d, rank) ==
  (IF d \in ask.man THEN 400 * (about[d].tags + about[d].files) ELSE 0)
    + (IF d \in DOMAIN rank THEN 200 \div 2^(rank[d] - 1) ELSE 0)

(* Mutant: the outcome counts twice.                                         *)
ScoreSquared(d, rank) ==
  LET w == IF d \in ask.dig THEN (Fresh(d) * Percent(about[d].outcome)) \div 100 ELSE Neutral IN
  (Points(d, rank) * (IF w > Floor THEN w ELSE Floor)) \div 100

Score(d, rank) ==
  LET w == IF d \in ask.dig THEN Fresh(d) ELSE Neutral IN
  (Points(d, rank) * (IF w > Floor THEN w ELSE Floor)) \div 100

Scored(rank) == {d \in Decisions : Points(d, rank) > 0 /\ Score(d, rank) >= MinScore}

Outranks(e, d, rank) ==
  \/ Score(e, rank) > Score(d, rank)
  \/ Score(e, rank) = Score(d, rank) /\ e < d

Length(S) == MapThenSumSet(LAMBDA d : about[d].length, S)

(* Mutant: the first ids are taken, whatever their score.                      *)
BlockOfFirst(rank) ==
  LET top == {d \in Scored(rank) : Cardinality({e \in Scored(rank) : e < d}) < MaxShown} IN
  {d \in top : Length({e \in top : e <= d}) <= Budget}

(* _render_block: of the best, by their ids, what fits before the first that does *)
(* not.                                                                      *)
Block(rank) ==
  LET top == {d \in Scored(rank) :
                Cardinality({e \in Scored(rank) : Outranks(e, d, rank)}) < MaxShown} IN
  {d \in top : Length({e \in top : e <= d}) <= Budget}

(* search drops what is not active any more, in an order that is left open; if it *)
(* fails, tags and files are left.                                           *)
Ranks(hits) == {r \in [hits -> 1 .. Cardinality(hits)] : \A d, e \in hits : r[d] = r[e] => d = e}

Search ==
  /\ ask.at = "search"
  /\ \/ \E rank \in Ranks({d \in Active : about[d].words}) : shown' = Block(rank)
     \/ shown' = Block([d \in {} |-> 0])
  /\ ask' = [ask EXCEPT !.at = "done"]
  /\ UNCHANGED <<about, status, man, dig, wr, writes, fails, behind, gone, met>>

Answer ==
  /\ ask.at = "done"
  /\ ask' = NoAsk /\ shown' = {} /\ gone' = {} /\ met' = FALSE
  /\ UNCHANGED <<about, status, man, dig, wr, writes, fails, behind>>

PNext ==
  \/ Add \/ Retire \/ Manifest \/ Digest
  \/ Prompt \/ ReadManifest \/ ReadDigest \/ Search \/ Answer

PSpec == PInit /\ [][PNext]_pvars

-----------------------------------------------------------------------------
(* No prompt is given a decision that a call had retired before it came, and no  *)
(* decision without its words; but if an update failed, or if, for the words,   *)
(* a write was under way: manifest and digest are read one after the other.     *)
InjectedStand ==
  ask.at = "done" /\ behind = {} =>
    /\ shown \cap gone = {}
    /\ ~met => shown \subseteq ask.dig

(* A decision whose tag or file the prompt names, and whose outcome and age leave *)
(* it a quarter of its weight, is left out for better ones only, or because the  *)
(* lines do not fit: the threshold and the floor below the weights are not it.   *)
LeftOutForAReason ==
  ask.at = "done" /\ behind = {} /\ ~met =>
    \A d \in Active \ shown :
      about[d].tags + about[d].files > 0 /\ Fresh(d) >= 25 =>
        \/ Length(Active) > Budget
        \/ Cardinality({e \in Active \ {d} : Score(e, [x \in {} |-> 0]) + 200
                                               >= Score(d, [x \in {} |-> 0])}) >= MaxShown
=============================================================================

--------------------------- MODULE DecisionTools ----------------------------
(***************************************************************************)
(* The tools that agents call on the decision store: mcp_server/tools/     *)
(* learning.py, check_conflict.py and search.py over decisions_store.py,    *)
(* and decision_replay.py.  record_decision looks first for a decision     *)
(* that says the same, replaces it if it finds one, and else records; the  *)
(* queries read the index and the merged view, the session brief twice.    *)
(* Nothing is locked from the look to the write, and a client may die.     *)
(***************************************************************************)
EXTENDS Sequences, FiniteSetsExt, Wording

CONSTANTS
  Agents,
  Tasks,        \* Tasks[c]: what c may ask for: op, text, dnr and force
  Prefix,       \* the words that supersede_decision puts before a text
  Seeds,        \* the stores to begin with: sequences of text and do_not_revert
  Limit,        \* bound: check_conflict's limit (10)
  BriefSize,    \* bound: decisions of a session brief (3)
  MaxDecisions, MaxWrites

VARIABLES
  dec,      \* the merged view of decisions.jsonl.  `touched` is history: the
            \*   moment when it last changed, `since` when it was last protected
  step, task,   \* where each agent is, and what it was asked
  moment        \* history: writes so far

tvars == <<dec, step, task, moment>>

Queries == {"search", "list", "timeline", "brief"}

ASSUME ToolsAssumption ==
  /\ Limit \in Nat /\ IsFiniteSet(Prefix)
  /\ \A c \in Agents : \A r \in Tasks[c] :
       /\ r.op \in {"record", "supersede"} \cup Queries /\ IsFiniteSet(r.text)
       /\ r.dnr \in BOOLEAN /\ r.force \in BOOLEAN
  /\ \A seed \in Seeds :
       /\ DOMAIN seed = 1 .. Len(seed) /\ Len(seed) \in Nat
       /\ \A i \in DOMAIN seed : IsFiniteSet(seed[i].text) /\ seed[i].dnr \in BOOLEAN

Ids == DOMAIN dec
Standing(i) == dec[i].next = 0 /\ ~dec[i].out

New(text, dnr, now) ==
  [text |-> text, dnr |-> dnr, out |-> FALSE, reverted |-> FALSE, next |-> 0,
   touched |-> now, since |-> now]

NoTask == [op |-> "none", text |-> {}, dnr |-> FALSE, force |-> FALSE, old |-> 0, new |-> 0,
           begun |-> 0, found |-> {}, gone |-> {}, twins |-> {}, unsure |-> FALSE]

TInit ==
  /\ \E seed \in Seeds : dec = [i \in DOMAIN seed |-> New(seed[i].text, seed[i].dnr, 0)]
  /\ step = [c \in Agents |-> "idle"]
  /\ task = [c \in Agents |-> NoTask]
  /\ moment = 0

Go(c, where, what) == step' = [step EXCEPT ![c] = where] /\ task' = [task EXCEPT ![c] = what]
End(c) == Go(c, "idle", NoTask)
Writes == moment < MaxWrites /\ moment' = moment + 1

-----------------------------------------------------------------------------
(* The index finds what shares a word; how hits rank is left open, that only   *)
(* the first ones come back is not.  The dead are dropped after the cut.      *)
Matches(text) == {i \in Ids : dec[i].text \cap text # {}}
Firsts(S, n) == IF Cardinality(S) <= n THEN {S} ELSE kSubset(n, S)
Found(text, n) ==
  UNION {Firsts({i \in H : Standing(i)}, n) : H \in Firsts(Matches(text), 2 * n)}

(* Mutant: what is protected counts as a duplicate like any other.            *)
DuplicatesAll(F, text) == {i \in F : Classify(text, dec[i].text, dec[i].dnr) = "duplicate"}

(* check_conflict: what is protected is a conflict, which is only reported.   *)
Duplicates(F, text) ==
  {i \in F : ~dec[i].dnr /\ Classify(text, dec[i].text, FALSE) = "duplicate"}

(* A share of at least 0.75 of the words.                                     *)
Same(a, b) == 4 * Cardinality(a \cap b) >= 3 * Cardinality(a \cup b)

(* Mutant: more than that.                                                    *)
StrongAbove(D, text) ==
  {i \in D : 4 * Cardinality(dec[i].text \cap text) > 3 * Cardinality(dec[i].text \cup text)}

Strong(D, text) == {i \in D : Same(dec[i].text, text)}

-----------------------------------------------------------------------------
Given(c, r, where, old) ==
  Go(c, where, [NoTask EXCEPT !.op = r.op, !.dnr = r.dnr, !.force = r.force, !.old = old,
                 !.begun = IF r.op = "record" THEN moment ELSE 0,
                 !.text = r.text \cup IF r.op = "supersede" THEN Prefix ELSE {},
                 !.twins = IF r.op # "record" THEN {}
                           ELSE {i \in Ids : /\ Standing(i) /\ ~dec[i].dnr
                                             /\ Same(dec[i].text, r.text)
                                             /\ ~NegationDisagrees(dec[i].text, r.text)},
                 !.gone = IF r.op \in {"record", "supersede"} THEN {}
                          ELSE {i \in Ids : IF r.op = "timeline" THEN dec[i].next # 0
                                            ELSE ~Standing(i)}])

BeginRecord(c) ==
  /\ step[c] = "idle" /\ Len(dec) < MaxDecisions /\ moment < MaxWrites
  /\ \E r \in Tasks[c] :
       r.op = "record" /\ Given(c, r, IF r.force THEN "record" ELSE "check", 0)
  /\ UNCHANGED <<dec, moment>>

(* supersede_decision: whoever calls it has seen the old one.                 *)
BeginReplace(c) ==
  /\ step[c] = "idle" /\ Len(dec) < MaxDecisions /\ moment < MaxWrites
  /\ \E r \in Tasks[c], i \in Ids : r.op = "supersede" /\ Given(c, r, "look", i)
  /\ UNCHANGED <<dec, moment>>

(* One strong duplicate is to be replaced.  A check that raises is passed over. *)
Compare(c) ==
  /\ step[c] = "check"
  /\ LET text == task[c].text IN
     \/ \E F \in Found(text, 2 * Limit) : \E D \in Firsts(Duplicates(F, text), Limit) :
          \/ Strong(D, text) = {} /\ Go(c, "record", task[c])
          \/ \E i \in Strong(D, text) : Go(c, "look", [task[c] EXCEPT !.old = i])
     \/ Go(c, "record", [task[c] EXCEPT !.unsure = TRUE])
  /\ UNCHANGED <<dec, moment>>

(* supersede() refuses what has a successor by now: record_decision then        *)
(* records beside it, supersede_decision fails.                              *)
Look(c) ==
  /\ step[c] = "look"
  /\ IF dec[task[c].old].next = 0 THEN Go(c, "record", task[c])
     ELSE IF task[c].op = "record" THEN Go(c, "record", [task[c] EXCEPT !.old = 0])
     ELSE End(c)
  /\ UNCHANGED <<dec, moment>>

Record(c) ==
  /\ step[c] = "record" /\ Len(dec) < MaxDecisions
  /\ Writes
  /\ dec' = Append(dec, New(task[c].text, task[c].dnr, moment'))
  /\ IF task[c].old = 0 THEN End(c)
     ELSE Go(c, "amend", [task[c] EXCEPT !.new = Len(dec')])

Amend(c) ==
  /\ step[c] = "amend"
  /\ Writes
  /\ dec' = [dec EXCEPT ![task[c].old].next = task[c].new, ![task[c].old].touched = moment']
  /\ End(c)

(* set_decision_flag and mark_decision_outdated, which refuses to retire what   *)
(* is protected; of those that change something.                             *)
Flag ==
  /\ Writes
  /\ \E i \in Ids :
       \/ \E b \in BOOLEAN \ {dec[i].dnr} :
            dec' = [dec EXCEPT ![i].dnr = b, ![i].touched = moment',
                               ![i].since = IF b THEN moment' ELSE 0]
       \/ \E b \in BOOLEAN \ {dec[i].out}, force \in BOOLEAN :
            /\ b => force \/ ~dec[i].dnr
            /\ dec' = [dec EXCEPT ![i].out = b, ![i].touched = moment']
  /\ task' = [c \in Agents |-> [task[c] EXCEPT !.gone = {i \in @ : dec[i].next # 0 \/ dec'[i].out}]]
  /\ UNCHANGED step

(* The outcome that git shows, written as an amendment.                       *)
Outcome ==
  /\ Writes
  /\ \E i \in Ids : ~dec[i].reverted /\ dec' = [dec EXCEPT ![i].reverted = TRUE]
  /\ UNCHANGED <<step, task>>

-----------------------------------------------------------------------------
Latest(S, n) == {i \in S : Cardinality({j \in S : j > i}) < n}

(* A query is about a text; a brief, about what is to be done next.           *)
BeginQuery(c) ==
  /\ step[c] = "idle"
  /\ \E r \in Tasks[c] : r.op \in Queries /\ Given(c, r, "find", 0)
  /\ UNCHANGED <<dec, moment>>

Show(c, S) ==
  /\ Go(c, "reply", [task[c] EXCEPT !.found = S])
  /\ UNCHANGED <<dec, moment>>

Reply(c) == step[c] = "reply" /\ End(c) /\ UNCHANGED <<dec, moment>>

Search(c) ==
  /\ step[c] = "find" /\ task[c].op = "search"
  /\ \E F \in Found(task[c].text, Limit) : Show(c, F)

List(c) ==
  /\ step[c] = "find" /\ task[c].op = "list"
  /\ Show(c, Latest({i \in Ids : Standing(i)}, Limit))

(* build_timeline leaves out what was superseded, not what is outdated.       *)
Timeline(c) ==
  /\ step[c] = "find" /\ task[c].op = "timeline"
  /\ Show(c, Latest({i \in Ids : dec[i].next = 0}, Limit))

(* get_session_context searches for the focus, if there is one, ...            *)
Focus(c) ==
  /\ step[c] = "find" /\ task[c].op = "brief"
  /\ \E F \in Found(task[c].text, Limit) \cup {{}} :
       Go(c, "fill", [task[c] EXCEPT !.found = {i \in F : ~dec[i].reverted}])
  /\ UNCHANGED <<dec, moment>>

(* Mutant: the rest of the brief is whatever is newest.                       *)
FillNewest(c) ==
  /\ step[c] = "fill"
  /\ \E S \in Firsts(task[c].found \cup Latest(Ids, 2 * Limit), BriefSize) : Show(c, S)

(* ... and fills up, from a later look, with the newest; how they rank is left   *)
(* open.                                                                     *)
Fill(c) ==
  /\ step[c] = "fill"
  /\ LET more == {i \in Latest({j \in Ids : Standing(j)}, 2 * Limit) : ~dec[i].reverted}
         all == IF Cardinality(task[c].found) < BriefSize THEN task[c].found \cup more
                ELSE task[c].found
     IN  \E S \in Firsts(all, BriefSize) : Show(c, S)

Die(c) ==
  /\ step[c] \in {"check", "look", "record", "amend"}
  /\ End(c)
  /\ UNCHANGED <<dec, moment>>

TNext ==
  \/ \E c \in Agents :
       \/ BeginRecord(c) \/ BeginReplace(c) \/ Compare(c) \/ Look(c) \/ Record(c) \/ Amend(c)
       \/ BeginQuery(c) \/ Search(c) \/ List(c) \/ Timeline(c) \/ Focus(c) \/ Fill(c)
       \/ Reply(c) \/ Die(c)
  \/ Flag \/ Outcome

TSpec == TInit /\ [][TNext]_tvars

-----------------------------------------------------------------------------
(* record_decision, unforced, replaces one of the decisions that say the same    *)
(* when one stood unprotected as it began; but if another call changed one of  *)
(* them meanwhile, if its check raised, or if search finds more than it looks  *)
(* at ("Superseded near-duplicate instead of recording a twin").  A text without *)
(* words matches nothing.                                                    *)
TwinsGiveWayStep ==
  \A c \in Agents :
    /\ task[c].op = "record" /\ step[c] \in {"record", "amend"} /\ step'[c] = "idle"
    /\ dec' # dec
    /\ task[c].text # {} /\ task[c].twins # {} /\ ~task[c].force /\ ~task[c].unsure
    /\ Cardinality(Matches(task[c].text)) <= Limit
    => \/ task[c].old \in Ids /\ dec'[task[c].old].next = task[c].new
       \/ \E i \in Ids : Same(dec[i].text, task[c].text) /\ dec[i].touched > task[c].begun

(* And it replaces by itself only what was unprotected at some moment since it  *)
(* began: a lock outranks a twin.                                            *)
LocksOutrankStep ==
  \A c \in Agents :
    task[c].op = "record" /\ step[c] = "amend" /\ dec' # dec /\ step'[c] = "idle" =>
      LET old == dec[task[c].old] IN old.dnr => old.since > task[c].begun

TwinsGiveWay == [][TwinsGiveWayStep /\ LocksOutrankStep]_tvars

(* What a search, a list or a brief shows stood when it began, or later; what a  *)
(* timeline shows had no successor then.                                     *)
AnswersStand ==
  \A c \in Agents : step[c] = "reply" => task[c].found \cap task[c].gone = {}
=============================================================================

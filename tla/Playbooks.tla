------------------------------ MODULE Playbooks -------------------------------
(* Skills that become playbooks (promote_skill_to_playbook, tools/skills.py) and   *)
(* what an agent is given for a task (get_playbook, tools/playbook.py).  Nothing    *)
(* keeps a teammate from writing a file between the look and the write.           *)
EXTENDS Integers, Sequences, FiniteSets, SequencesExt

CONSTANTS
  Callers,
  Skill,       \* Skill[k]: the name of the file that skill k would have
  Types,       \* task types that callers pass
  Lower,       \* Lower[t]: in lower case
  Rules,       \* PLAYBOOKS: the bundled files of a task type
  Agnostic,    \* _LANGUAGE_AGNOSTIC_RULES
  Variants,    \* <<file, language>> of bundled files; "generic" is a language
  Languages,   \* of config.yaml
  MaxCalls, MaxHands

Dirs == {"data", "repo"}     \* _project_playbook_dirs, in this order
Ids == DOMAIN Skill
Names == ToSet(Skill) \cup UNION {Rules[t] : t \in DOMAIN Rules}

VARIABLES
  state,       \* state[k]: active, archived or superseded
  book,        \* book[dir, type, name]: 0, or the skill it came from, or -1
  language,
  order,       \* a caller's promotion
  promoted,    \* history: <<skill, type>> of calls that returned, whose files stand
  robbed,      \* history: written by hand before an unforced call looked, and lost
  calls, hands

yvars == <<state, book, language, order, promoted, robbed, calls, hands>>

Nothing == 0
ByHand == -1
Bundle == -2
NoOrder == [at |-> "idle", skill |-> 0, type |-> "", force |-> FALSE, saw |-> Nothing]

PBInit ==
  /\ state = [k \in Ids |-> "active"]
  /\ book = [x \in Dirs \X Types \X Names |-> Nothing]
  /\ language \in Languages
  /\ order = [c \in Callers |-> NoOrder]
  /\ promoted = {} /\ robbed = FALSE /\ calls = 0 /\ hands = 0

At(k, type) == <<"repo", type, Skill[k]>>
Still(places) == {p \in promoted : At(p[1], p[2]) \notin places}

-----------------------------------------------------------------------------
(* A failure archives a skill, a success revives it; another one supersedes it.     *)
SetStatus ==
  /\ \E k \in Ids, s \in {"active", "archived", "superseded"} :
       /\ state[k] \notin {s, "superseded"}
       /\ state' = [state EXCEPT ![k] = s]
  /\ UNCHANGED <<book, language, order, promoted, robbed, calls, hands>>

(* A teammate writes a file, or pulls it; or removes it.                          *)
Hand ==
  /\ hands < MaxHands /\ hands' = hands + 1
  /\ \E x \in DOMAIN book, new \in {Nothing, ByHand} :
       /\ book[x] # new
       /\ book' = [book EXCEPT ![x] = new]
       /\ promoted' = Still({x})
  /\ UNCHANGED <<state, language, order, robbed, calls>>

(* The skill is read: a superseded one is refused, an archived one unless forced.   *)
Promote(c) ==
  /\ order[c].at = "idle" /\ calls < MaxCalls /\ calls' = calls + 1
  /\ \E k \in Ids, t \in Types, force \in BOOLEAN :
       /\ state[k] = "active" \/ (state[k] = "archived" /\ force)
       /\ order' = [order EXCEPT ![c] =
                      [NoOrder EXCEPT !.at = "look", !.skill = k, !.type = t, !.force = force]]
  /\ UNCHANGED <<state, book, language, promoted, robbed, hands>>

(* Mutant: any file may be overwritten.                                         *)
LookAway(c) ==
  /\ order[c].at = "look"
  /\ order' = [order EXCEPT ![c].at = "write", ![c].saw = book[At(order[c].skill, order[c].type)]]
  /\ UNCHANGED <<state, book, language, promoted, robbed, calls, hands>>

(* Is there such a file?                                                       *)
Look(c) ==
  LET seen == book[At(order[c].skill, order[c].type)] IN
  /\ order[c].at = "look"
  /\ order' = [order EXCEPT ![c] = IF seen # Nothing /\ ~@.force THEN NoOrder
                                   ELSE [@ EXCEPT !.at = "write", !.saw = seen]]
  /\ UNCHANGED <<state, book, language, promoted, robbed, calls, hands>>

(* atomic_write_text replaces what is there, or fails.                            *)
WriteBook(c) ==
  LET o == order[c]  x == At(o.skill, o.type) IN
  /\ o.at = "write"
  /\ order' = [order EXCEPT ![c] = NoOrder]
  /\ \/ /\ book' = [book EXCEPT ![x] = o.skill]
        /\ promoted' = Still({x}) \cup {<<o.skill, o.type>>}
        /\ robbed' = (robbed \/ (~o.force /\ o.saw = ByHand))
     \/ UNCHANGED <<book, promoted, robbed>>
  /\ UNCHANGED <<state, language, calls, hands>>

PBNext ==
  \/ SetStatus \/ Hand
  \/ \E c \in Callers : Promote(c) \/ Look(c) \/ WriteBook(c)
PBSpec == PBInit /\ [][PBNext]_yvars

-----------------------------------------------------------------------------
(* get_playbook, of a task type in lower case: the files, whom each is from and    *)
(* the variant.  Those of the project come first, the data directory's before      *)
(* the repository's.                                                         *)
Own(type) ==
  LET in(dir, names) == {[file |-> n, from |-> book[<<dir, type, n>>], as |-> "any"] :
                           n \in {m \in names : book[<<dir, type, m>>] # Nothing}} IN
  in("data", Names) \cup in("repo", {n \in Names : book[<<"data", type, n>>] = Nothing})

(* Which variant of a bundled file suits the language; the plain ones are Python's.  *)
Variant(name) ==
  IF name \in Agnostic \/ language \in {"unknown", "python"} THEN {"any"}
  ELSE IF <<name, language>> \in Variants THEN {language}
  ELSE IF <<name, "generic">> \in Variants THEN {"generic"} ELSE {}

Bundled(names) ==
  UNION {{[file |-> n, from |-> Bundle, as |-> v] : v \in Variant(n)} : n \in names}

(* Mutant: what is bundled is served beside what replaces it.                    *)
ServedWhole(type) ==
  LET t == Lower[type] IN
  IF t \notin DOMAIN Rules THEN {} ELSE Own(t) \cup Bundled(Rules[t])

Served(type) ==
  LET t == Lower[type] IN
  IF t \notin DOMAIN Rules THEN {}
  ELSE Own(t) \cup Bundled(Rules[t] \ {r.file : r \in Own(t)})

(* A promoted skill is served as the playbook of its task until its file is         *)
(* written anew, and no bundled file beside it under its name; but if the task     *)
(* type is not one that get_playbook knows, in lower case, or if the data          *)
(* directory has a file of the name.                                           *)
PromotedAreServed ==
  \A p \in promoted :
    LET name == Skill[p[1]] IN
    p[2] \in DOMAIN Rules /\ book[<<"data", p[2], name>>] = Nothing =>
      {r.from : r \in {x \in Served(p[2]) : x.file = name}} = {p[1]}

(* "a teammate's hand-written playbook isn't clobbered silently" (skills.py:282):   *)
(* a call that was not forced overwrites only what was written since it looked.    *)
NoHandIsRobbed == ~robbed
=============================================================================

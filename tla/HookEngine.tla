----------------------------- MODULE HookEngine -----------------------------
(***************************************************************************)
(* The hooks of an AI tool, and the policies that answer them              *)
(* (mcp_server/engine, wiring/claude_code_hooks.py): before an edit the     *)
(* decision lock, the anti-regression and the blast-radius policies may     *)
(* deny it, and one that raises counts as allow.                             *)
(*                                                                         *)
(* One source file is edited, a sequence of lines: the first line of a      *)
(* symbol is the symbol, any other line is a word.  It parses, and an edit  *)
(* is small enough to be compared.                                          *)
(***************************************************************************)
EXTENDS Naturals, Sequences, FiniteSets, SequencesExt

CONSTANTS
  Editors,
  Symbols, Words, NoSymbol,
  Decisions,          \* those on the file: numbers, in the order of recording
  SymbolOf, WordsOf,  \* the symbol a decision is about, or NoSymbol; its words
  FixWords,           \* the words of each bug fix recorded for the file
  ManyCallers,        \* the file's blast radius reaches the threshold
  LockLimit,          \* locked decisions looked at, 20 in the code
  MinShared,          \* shared words that make a conflict, 2 in the code
  Texts,              \* contents to begin with
  MaxLines, MaxAttempts, MaxRaised   \* bounds

NoEdit == [kind |-> "none", before |-> <<>>, after |-> <<>>]

VARIABLES
  text, locked,
  pending,     \* the edit that a session's tool was allowed to make
  sure,        \* the lock was evaluated on all locks and on what is still there
  attempts, raised

evars == <<text, locked, pending, sure, attempts, raised>>

Contents == BoundedSeq(Symbols \cup Words, MaxLines)

ASSUME HookAssumption ==
  /\ MaxLines \in Nat /\ Texts \subseteq Contents
  /\ SymbolOf \in [Decisions -> Symbols \cup {NoSymbol}]

-----------------------------------------------------------------------------
(* What an edit does to the file: a passage that occurs once is replaced, a    *)
(* line wherever it occurs.                                                  *)
Occurrences(b) == {i \in 1 .. Len(text) - Len(b) + 1 : SubSeq(text, i, i + Len(b) - 1) = b}

Place(e) == CHOOSE i \in Occurrences(e.before) : TRUE
Span(e) == Place(e) .. Place(e) + Len(e.before) - 1

Result(e) ==
  CASE e.kind = "write" -> e.after
    [] e.kind # "write" /\ Cardinality(Occurrences(e.before)) = 1 ->
         SubSeq(text, 1, Place(e) - 1) \o e.after
           \o SubSeq(text, Place(e) + Len(e.before), Len(text))
    [] OTHER -> FlattenSeq([i \in DOMAIN text |->
                  IF <<text[i]>> = e.before THEN e.after ELSE <<text[i]>>])

(* The lines S of b stand in a, in their order.                              *)
Within(S, b, a) == \E h \in [S -> DOMAIN a] :
  /\ \A i \in S : a[h[i]] = b[i]
  /\ \A i, j \in S : i < j => h[i] < h[j]

(* A symbol's lines: from its first to the next symbol's.                    *)
Region(s) == {i \in DOMAIN text : \E k \in 1 .. i :
                text[k] = s /\ \A l \in k + 1 .. i : text[l] \notin Symbols}

-----------------------------------------------------------------------------
(* decision_lock.  The locks it looks at are the newest.                     *)
Seen == {d \in locked : Cardinality({x \in locked : x > d}) < LockLimit}

PureInsertion(e) == Within(DOMAIN e.before, e.before, e.after)

(* The span of an edit is known where its text occurs once.                  *)
Determinate(e) == e.before # <<>> /\ Cardinality(Occurrences(e.before)) = 1

(* Mutant: the last line of the span is left out.                            *)
TouchedShort(e) == {s \in Symbols : Region(s) \cap (Place(e) .. Place(e) + Len(e.before) - 2) # {}}

Touched(e) == {s \in Symbols : Region(s) \cap Span(e) # {}}

Changed(e) == ToSet(e.before) \cup ToSet(e.after)

Conflicts(d, e) ==
  \/ SymbolOf[d] # NoSymbol /\ Determinate(e) /\ SymbolOf[d] \in Touched(e)
  \/ WordsOf[d] = {}
  \/ Cardinality(Changed(e) \cap WordsOf[d]) >= MinShared

DecisionLock(e) ==
  IF Seen = {} THEN "allow"
  ELSE IF PureInsertion(e) \/ \A d \in Seen : ~Conflicts(d, e) THEN "warn" ELSE "block"

(* anti_regression: code is deleted from a file with fixes, or the words of a  *)
(* fix come back.                                                            *)
Reverts(e, words) ==
  \/ e.after = <<>>
  \/ Cardinality(words \cap ToSet(e.after)) > Cardinality(words \cap ToSet(e.before))

AntiRegression(e) ==
  IF e.kind # "write" /\ \E w \in FixWords : Reverts(e, w) THEN "block" ELSE "allow"

(* blast_radius: a signature goes or changes in a file with many callers.     *)
BlastRadius(e) ==
  IF ManyCallers /\ \E s \in ToSet(e.before) \cap Symbols : s \notin ToSet(e.after)
  THEN "block" ELSE "allow"

Policies == {"decision_lock", "anti_regression", "blast_radius"}
Evaluate(p, e) ==
  CASE p = "decision_lock" -> DecisionLock(e)
    [] p = "anti_regression" -> AntiRegression(e)
    [] p = "blast_radius" -> BlastRadius(e)

(* dispatch: one block denies, whatever else there is; what raises allows.    *)
Denied(e, raising) == \E p \in Policies \ raising : Evaluate(p, e) = "block"

-----------------------------------------------------------------------------
EInit ==
  /\ text \in Texts /\ locked = {}
  /\ pending = [s \in Editors |-> NoEdit] /\ sure = [s \in Editors |-> FALSE]
  /\ attempts = 0 /\ raised = 0

(* A client records a locked decision on the file, or unlocks it.            *)
SwitchLock(d) ==
  /\ locked' = IF d \in locked THEN locked \ {d} ELSE locked \cup {d}
  /\ sure' = [s \in Editors |-> FALSE]
  /\ UNCHANGED <<text, pending, attempts, raised>>

(* The edits a tool may make: a passage that occurs once, a line wherever it   *)
(* occurs, or the whole file.                                                *)
Edits ==
  LET new == {<<>>} \cup {<<x>> : x \in Symbols \cup Words}
                    \cup {<<x, y>> : x, y \in Symbols \cup Words}
      passages == {b \in {SubSeq(text, i, j) : i, j \in DOMAIN text} : b # <<>>}
  IN  {e \in [kind : {"one"}, before : passages, after : new] :
         Cardinality(Occurrences(e.before)) = 1}
      \cup [kind : {"all"}, before : {<<x>> : x \in ToSet(text)}, after : new]
      \cup [kind : {"write"}, before : {text}, after : new]

(* PreToolUse: the policies are asked.                                       *)
Ask(s) ==
  /\ pending[s] = NoEdit /\ attempts < MaxAttempts
  /\ attempts' = attempts + 1
  /\ \E e \in Edits, raising \in {{}} \cup {{p} : p \in Policies} :
       /\ e.before # e.after /\ Result(e) \in Contents
       /\ raised + Cardinality(raising) <= MaxRaised
       /\ raised' = raised + Cardinality(raising)
       /\ IF Denied(e, raising) THEN UNCHANGED <<pending, sure>>
          ELSE /\ pending' = [pending EXCEPT ![s] = e]
               /\ sure' = [sure EXCEPT ![s] = /\ "decision_lock" \notin raising
                                              /\ Determinate(e) /\ Seen = locked]
  /\ UNCHANGED <<text, locked>>

(* The tool makes the edit, if its text is still there.                      *)
Apply(s) ==
  /\ pending[s] # NoEdit
  /\ pending' = [pending EXCEPT ![s] = NoEdit]
  /\ IF /\ pending[s].kind = "one" => Cardinality(Occurrences(pending[s].before)) = 1
        /\ Result(pending[s]) \in Contents
     THEN text' = Result(pending[s]) /\ sure' = [x \in Editors |-> FALSE]
     ELSE UNCHANGED <<text, sure>>
  /\ UNCHANGED <<locked, attempts, raised>>

ENext ==
  \/ \E d \in Decisions : SwitchLock(d)
  \/ \E s \in Editors : Ask(s) \/ Apply(s)
ESpec == EInit /\ [][ENext]_evars

-----------------------------------------------------------------------------
(* In block mode an edit that was let through takes no line of a symbol that   *)
(* a locked decision is about, if the policy did not fail, the edit's place    *)
(* could be told, there were no more locks than it looks at, and neither the   *)
(* file nor a lock changed while the edit was pending: spans, regions and the  *)
(* test for pure insertions agree (decision_lock.py:181-331).                *)
LockedSymbolsStandStep ==
  \A s \in Editors, d \in locked :
    /\ pending[s] # NoEdit /\ pending'[s] = NoEdit /\ sure[s]
    /\ SymbolOf[d] # NoSymbol
    => Within(Region(SymbolOf[d]), text, text')
LockedSymbolsStand == [][LockedSymbolsStandStep]_evars
=============================================================================

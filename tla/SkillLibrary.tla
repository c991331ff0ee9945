--------------------------- MODULE SkillLibrary ----------------------------
(***************************************************************************)
(* The procedures a project has learnt, skills.jsonl (mcp_server/storage/   *)
(* skills_store.py, tools/skills.py), and the observation of git that       *)
(* reinforces them (storage/outcomes_writer.py).                           *)
(*                                                                         *)
(* Every change reads the merged view and then appends a row, which a       *)
(* reader folds in: nothing keeps other calls out in between.  observe_all  *)
(* classifies each decision, marks the skills of its session, appends an    *)
(* amendment where the outcome is new, and appends all the new events to    *)
(* outcomes.jsonl at the end.                                              *)
(***************************************************************************)
EXTENDS Integers, Sequences, FiniteSets, FiniteSetsExt

CONSTANTS
  Clients,         \* clients; one of them observes git
  Observer,
  Sessions,       \* the decisions of the project: each with the skills of its session
  MaxFailures,   \* DEFAULT_MAX_CONSECUTIVE_FAILURES
  MaxSkills, MaxSkillCalls, MaxHeads   \* bounds: skills, calls, moves of HEAD

(* A client observes.                                                         *)
ASSUME SkillAssumption == Observer \in Clients /\ Sessions \in Seq(SUBSET Nat)

Outcomes == {"kept", "modified", "reverted"}

VARIABLES
  slog,          \* skills.jsonl
  outcome,       \* outcome[d]: the outcome of d in decisions.jsonl, merged
  events,        \* outcomes.jsonl
  verdict,       \* what git says of each decision at HEAD
  upc, ask,      \* where a client is, and its call
  round,         \* observe_all: the decision it is at and its outcome, the skills
                 \* to mark, the outcomes it read, the events to append
  skillCalls, heads
skvars == <<slog, outcome, events, verdict, upc, ask, round, skillCalls, heads>>

(* set holds the fields that a row carries; `since` is history: how long the   *)
(* file was when the call began.                                             *)
Row(id, base, set, since) == [id |-> id, base |-> base, set |-> set, since |-> since]

Skills(l) == {l[i].id : i \in {j \in DOMAIN l : l[j].base}}
Field(l, id, f) ==
  l[Max({i \in DOMAIN l : l[i].id = id /\ f \in DOMAIN l[i].set})].set[f]
View(l, id) == [status |-> Field(l, id, "status"), consec |-> Field(l, id, "consec"),
                keep |-> Field(l, id, "keep")]

NoAsk == [op |-> "none", id |-> 0, win |-> FALSE, since |-> 0, view |-> <<>>, new |-> 0]
NoRound == [d |-> 0, v |-> "none", todo |-> {}, seen |-> <<>>, fresh |-> <<>>]

SInit ==
  /\ slog = <<>> /\ events = <<>>
  /\ outcome = [d \in DOMAIN Sessions |-> "none"]
  /\ verdict \in [DOMAIN Sessions -> Outcomes]
  /\ upc = [u \in Clients |-> "idle"] /\ ask = [u \in Clients |-> NoAsk]
  /\ round = NoRound
  /\ skillCalls = 0 /\ heads = 0

SGoto(u, label) == upc' = [upc EXCEPT ![u] = label]

NewSkill(keep, since) ==
  Row(Cardinality(Skills(slog)) + 1, TRUE,
      [status |-> "active", consec |-> 0, keep |-> keep], since)

-----------------------------------------------------------------------------
StartCall(u, request) ==
  /\ upc[u] = "idle" /\ skillCalls < MaxSkillCalls
  /\ skillCalls' = skillCalls + 1
  /\ ask' = [ask EXCEPT ![u] = request]
  /\ UNCHANGED <<slog, outcome, events, verdict, round, heads>>

(* record_skill, of explicit or induced skills.                              *)
RecordSkill(u) ==
  /\ upc[u] = "idle" /\ skillCalls < MaxSkillCalls /\ Cardinality(Skills(slog)) < MaxSkills
  /\ skillCalls' = skillCalls + 1
  /\ \E keep \in BOOLEAN : slog' = Append(slog, NewSkill(keep, Len(slog)))
  /\ UNCHANGED <<outcome, events, verdict, upc, ask, round, heads>>

BeginMark(u) ==
  /\ \E id \in Skills(slog), win \in BOOLEAN :
       StartCall(u, [NoAsk EXCEPT !.op = "mark", !.id = id, !.win = win, !.since = Len(slog)])
  /\ SGoto(u, "read")

BeginSupersede(u) ==
  /\ Cardinality(Skills(slog)) < MaxSkills
  /\ \E id \in Skills(slog) :
       StartCall(u, [NoAsk EXCEPT !.op = "supersede", !.id = id, !.since = Len(slog)])
  /\ SGoto(u, "read")

(* get(): the merged view of the skill.                                      *)
ReadSkill(u) ==
  /\ upc[u] = "read"
  /\ ask' = [ask EXCEPT ![u].view = View(slog, ask[u].id)]
  /\ SGoto(u, ask[u].op)
  /\ UNCHANGED <<slog, outcome, events, verdict, round, skillCalls, heads>>

(* Mutant: any success brings a skill back.                                  *)
MarkedActive(view, win) ==
  IF win THEN [consec |-> 0, status |-> "active"]
  ELSE [consec |-> view.consec + 1,
        status |-> IF /\ view.status = "active" /\ ~view.keep
                      /\ view.consec + 1 >= MaxFailures
                   THEN "archived" ELSE view.status]

(* What mark_used makes of the view.  Protected skills are not archived.      *)
Marked(view, win) ==
  IF win THEN [consec |-> 0,
               status |-> IF view.status = "archived" THEN "active" ELSE view.status]
  ELSE [consec |-> view.consec + 1,
        status |-> IF /\ view.status = "active" /\ ~view.keep
                      /\ view.consec + 1 >= MaxFailures
                   THEN "archived" ELSE view.status]

EndCall(u) == SGoto(u, "idle") /\ ask' = [ask EXCEPT ![u] = NoAsk]

MarkUsed(u) ==
  /\ upc[u] = "mark"
  /\ slog' = Append(slog, Row(ask[u].id, FALSE, Marked(ask[u].view, ask[u].win), ask[u].since))
  /\ IF u = Observer /\ round.d # 0
     THEN SGoto(u, "observe") /\ ask' = [ask EXCEPT ![u] = NoAsk]
     ELSE EndCall(u)
  /\ UNCHANGED <<outcome, events, verdict, round, skillCalls, heads>>

(* supersede: the successor is recorded, the old row amended, and the          *)
(* successor told whom it replaces.                                          *)
SupersedeRecord(u) ==
  /\ upc[u] = "supersede"
  /\ Cardinality(Skills(slog)) < MaxSkills
  /\ slog' = Append(slog, NewSkill(FALSE, ask[u].since))
  /\ ask' = [ask EXCEPT ![u].new = Cardinality(Skills(slog)) + 1]
  /\ SGoto(u, "retire")
  /\ UNCHANGED <<outcome, events, verdict, round, skillCalls, heads>>

SupersedeRetire(u) ==
  /\ upc[u] = "retire"
  /\ slog' = Append(slog, Row(ask[u].id, FALSE,
                              [status |-> "superseded", next |-> ask[u].new], ask[u].since))
  /\ SGoto(u, "backref")
  /\ UNCHANGED <<outcome, events, verdict, ask, round, skillCalls, heads>>

SupersedeBackref(u) ==
  /\ upc[u] = "backref"
  /\ slog' = Append(slog, Row(ask[u].new, FALSE, [supersedes |-> ask[u].id], ask[u].since))
  /\ EndCall(u)
  /\ UNCHANGED <<outcome, events, verdict, round, skillCalls, heads>>

-----------------------------------------------------------------------------
(* observe_all.                                                              *)

At(d, seen, fresh) ==
  IF d > Len(Sessions) THEN [NoRound EXCEPT !.d = d, !.fresh = fresh]
  ELSE [d |-> d, v |-> verdict[d], seen |-> seen, fresh |-> fresh,
        todo |-> IF verdict[d] = "modified" THEN {} ELSE Sessions[d] \cap Skills(slog)]

BeginObserve ==
  /\ upc[Observer] = "idle" /\ skillCalls < MaxSkillCalls
  /\ skillCalls' = skillCalls + 1
  /\ round' = At(1, outcome, <<>>)
  /\ SGoto(Observer, "observe")
  /\ UNCHANGED <<slog, outcome, events, verdict, ask, heads>>

(* Each skill of the session is marked, known outcome or not.                *)
MarkNext ==
  /\ upc[Observer] = "observe"
  /\ \E id \in round.todo :
       /\ ask' = [ask EXCEPT ![Observer] =
                    [NoAsk EXCEPT !.op = "mark", !.id = id, !.win = round.v = "kept",
                                  !.since = Len(slog)]]
       /\ round' = [round EXCEPT !.todo = @ \ {id}]
  /\ SGoto(Observer, "read")
  /\ UNCHANGED <<slog, outcome, events, verdict, skillCalls, heads>>

(* Mutant: the event carries what git says by now.                           *)
SettleLate ==
  /\ upc[Observer] = "observe" /\ round.todo = {} /\ round.d <= Len(Sessions)
  /\ LET new == round.seen[round.d] # round.v IN
       /\ outcome' = IF new THEN [outcome EXCEPT ![round.d] = round.v] ELSE outcome
       /\ round' = At(round.d + 1, round.seen,
                      IF new THEN Append(round.fresh, <<round.d, verdict[round.d]>>)
                      ELSE round.fresh)
  /\ UNCHANGED <<slog, events, verdict, upc, ask, skillCalls, heads>>

Settle ==
  /\ upc[Observer] = "observe" /\ round.todo = {} /\ round.d <= Len(Sessions)
  /\ LET new == round.seen[round.d] # round.v IN
       /\ outcome' = IF new THEN [outcome EXCEPT ![round.d] = round.v] ELSE outcome
       /\ round' = At(round.d + 1, round.seen,
                      IF new THEN Append(round.fresh, <<round.d, round.v>>) ELSE round.fresh)
  /\ UNCHANGED <<slog, events, verdict, upc, ask, skillCalls, heads>>

AppendEvents ==
  /\ upc[Observer] = "observe" /\ round.d > Len(Sessions)
  /\ events' = events \o round.fresh
  /\ round' = NoRound
  /\ SGoto(Observer, "idle")
  /\ UNCHANGED <<slog, outcome, verdict, ask, skillCalls, heads>>

(* HEAD moves: git may say something else.                                   *)
MoveHead ==
  /\ heads < MaxHeads
  /\ heads' = heads + 1
  /\ \E d \in DOMAIN Sessions : \E v \in Outcomes \ {verdict[d]} :
       verdict' = [verdict EXCEPT ![d] = v]
  /\ UNCHANGED <<slog, outcome, events, upc, ask, round, skillCalls>>

SNext ==
  \/ BeginObserve \/ MarkNext \/ Settle \/ AppendEvents \/ MoveHead
  \/ \E u \in Clients :
       \/ RecordSkill(u) \/ BeginMark(u) \/ BeginSupersede(u) \/ ReadSkill(u) \/ MarkUsed(u)
       \/ SupersedeRecord(u) \/ SupersedeRetire(u) \/ SupersedeBackref(u)
SSpec == SInit /\ [][SNext]_skvars

-----------------------------------------------------------------------------
(* Only a call that overlapped the supersession of a skill brings it back: the *)
(* first row to do so was written by a call that had begun before.           *)
OnlyOverlapsRevive ==
  \A k \in DOMAIN slog :
    LET says(i) == IF "status" \in DOMAIN slog[i].set THEN slog[i].set.status ELSE "silent"
        back == {i \in k + 1 .. Len(slog) :
                   slog[i].id = slog[k].id /\ says(i) \in {"active", "archived"}} IN
      says(k) = "superseded" /\ back # {} => slog[Min(back)].since < k

(* Between two rounds the last event of a decision is its outcome: the          *)
(* amendments, appended on the way, and the events, appended at the end, agree *)
(* even if HEAD moved under the round.                                       *)
EventsFollowOutcomes ==
  round = NoRound => \A d \in DOMAIN Sessions :
    LET mine == {i \in DOMAIN events : events[i][1] = d} IN
      outcome[d] = IF mine = {} THEN "none" ELSE events[Max(mine)][2]
=============================================================================

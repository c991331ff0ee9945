----------------------------- MODULE SessionLog -----------------------------
(***************************************************************************)
(* The end of a turn (engine/policies/session_log_enforcer.py,              *)
(* engine/wiring/claude_code_hooks.py): a session that leaves commits but   *)
(* no session log since its start is refused the end of its turn, once.     *)
(***************************************************************************)
EXTENDS Naturals

CONSTANTS Sessions, MaxMisses

VARIABLES
  turn,        \* idle, working, or again: working since its end was refused
  started,     \* the session's start is on record
  committed, logged,  \* since then, by anyone
  refusals,    \* history: ends refused in this turn
  misses       \* starts that could not be recorded

tvars == <<turn, started, committed, logged, refusals, misses>>

TInit ==
  /\ turn = [s \in Sessions |-> "idle"]
  /\ started = [s \in Sessions |-> FALSE]
  /\ committed = started /\ logged = started
  /\ refusals = [s \in Sessions |-> 0] /\ misses = 0

(* SessionStart, also after a compaction or a resume: the last one counts.    *)
Begin(s) ==
  /\ turn[s] = "idle" \/ started[s]
  /\ \/ /\ started' = [started EXCEPT ![s] = TRUE]
        /\ committed' = [committed EXCEPT ![s] = FALSE]
        /\ logged' = [logged EXCEPT ![s] = FALSE]
        /\ UNCHANGED misses
     \/ /\ misses < MaxMisses /\ misses' = misses + 1
        /\ UNCHANGED <<started, committed, logged>>
  /\ UNCHANGED <<turn, refusals>>

Prompt(s) ==
  /\ turn[s] = "idle"
  /\ turn' = [turn EXCEPT ![s] = "working"] /\ refusals' = [refusals EXCEPT ![s] = 0]
  /\ UNCHANGED <<started, committed, logged, misses>>

CommitWork ==
  /\ committed' = [s \in Sessions |-> TRUE]
  /\ UNCHANGED <<turn, started, logged, refusals, misses>>

(* Logs are matched by time, not by session.                                 *)
WriteLog ==
  /\ logged' = [s \in Sessions |-> TRUE]
  /\ UNCHANGED <<turn, started, committed, refusals, misses>>

Gap(s) == started[s] /\ committed[s] /\ ~logged[s]

(* Mutant: stop_hook_active is not looked at.                                *)
StopAgain(s) ==
  /\ turn[s] # "idle"
  /\ IF Gap(s)
     THEN turn' = [turn EXCEPT ![s] = "again"] /\ refusals' = [refusals EXCEPT ![s] = @ + 1]
     ELSE turn' = [turn EXCEPT ![s] = "idle"] /\ UNCHANGED refusals
  /\ UNCHANGED <<started, committed, logged, misses>>

(* Stop: a gap refuses the end once; the next one is let go with a message.    *)
Stop(s) ==
  /\ turn[s] # "idle"
  /\ IF Gap(s) /\ turn[s] = "working"
     THEN turn' = [turn EXCEPT ![s] = "again"] /\ refusals' = [refusals EXCEPT ![s] = @ + 1]
     ELSE turn' = [turn EXCEPT ![s] = "idle"] /\ UNCHANGED refusals
  /\ UNCHANGED <<started, committed, logged, misses>>

TNext ==
  \/ CommitWork \/ WriteLog
  \/ \E s \in Sessions : Begin(s) \/ Prompt(s) \/ Stop(s)
TSpec == TInit /\ [][TNext]_tvars

(* A turn is refused its end at most once, whatever is committed, logged or   *)
(* started anew in between, so that a policy the AI cannot satisfy does not   *)
(* loop (session_log_enforcer.py:52-56, claude_code_hooks.py:313-321).        *)
TurnsEnd == \A s \in Sessions : refusals[s] <= 1
=============================================================================

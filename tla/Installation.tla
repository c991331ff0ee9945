---------------------------- MODULE Installation ----------------------------
(***************************************************************************)
(* What codevira leaves on a machine outside the tools' server lists, and   *)
(* how it is taken away: `setup` (mcp_server/setup_wizard.py), `hooks        *)
(* install | uninstall` (cli_hooks_admin.py) and `uninstall`                *)
(* (cli_uninstall.py).  Each works through a plan made at its start; a step  *)
(* may fail, which the next steps do not mind, and the process may die.     *)
(***************************************************************************)
EXTENDS Integers, Sequences, SequencesExt, FiniteSets

CONSTANTS Sites,
          Events,              \* _HOOK_EVENTS
          MaxRuns, MaxHitches   \* bounds: commands run, steps that fail or kill

ASSUME InstallAssumption == IsFiniteSet(Sites) /\ IsFiniteSet(Events)

(* What a project may hold: .codevira, .codevira-cache, the block of          *)
(* AGENTS.md and those of files that older releases wrote.                   *)
Parts == {"store", "cache", "block", "nudge"}

VARIABLES home,        \* ~/.codevira exists
          tracked,     \* the projects in its global.db
          parts,       \* parts[p]: what project p holds
          scripts,     \* the hook scripts under ~/.claude/hooks
          registered,  \* the events whose hook settings.json runs
          claude,      \* ~/.claude.json names codevira
          todo,        \* what is left of the plan of the command that runs
          cmd, failed, \* that command, and whether a step of it has failed
          report,      \* what the last `uninstall` said
          planned,     \* history: the projects it knew of
          ever,        \* history: the projects that were tracked
          hitch,       \* history: a step failed or a process died, and no command
                       \* has ended without failure since
          runs, hitches
nvars == <<home, tracked, parts, scripts, registered, claude, todo, cmd, failed,
           report, planned, ever, hitch, runs, hitches>>
machine == <<home, tracked, parts, scripts, registered, claude>>

Step(op, arg) == [op |-> op, arg |-> arg]
AllSteps(op, S) == SetToSeq({Step(op, x) : x \in S})

NInit ==
  /\ home = FALSE /\ tracked = {}
  /\ parts \in [Sites -> {{}, {"nudge"}}]
  /\ scripts = {} /\ registered = {} /\ claude = FALSE
  /\ todo = <<>> /\ cmd = "none" /\ failed = FALSE
  /\ report = "none" /\ planned = {} /\ ever = {} /\ hitch = FALSE
  /\ runs = 0 /\ hitches = 0

Run(c, plan) ==
  /\ cmd = "none" /\ runs < MaxRuns
  /\ runs' = runs + 1
  /\ cmd' = c /\ todo' = plan /\ failed' = FALSE
  /\ report' = "none"
  /\ UNCHANGED <<machine, ever, hitch, hitches>>

(* `init` of a project: the store, the registration with Claude Code, and at   *)
(* the end the row of global.db; AGENTS.md and the cache come with its use.    *)
InitProject ==
  /\ \E p \in Sites :
       Run("init", <<Step("add", <<p, "store">>), Step("claude", TRUE),
                     Step("track", p), Step("add", <<p, "block">>),
                     Step("add", <<p, "cache">>)>>)
  /\ UNCHANGED planned

(* Mutant: the scripts that are there are not planned for again, the others    *)
(* neither when there are any.                                               *)
SetupPlanOnce ==
  <<Step("claude", TRUE)>>
    \o (IF scripts = {} THEN AllSteps("script", Events) ELSE <<>>)
    \o <<Step("register", Events)>>

(* build_setup_plan: servers, the scripts, then their registration.           *)
SetupPlan == <<Step("claude", TRUE)>> \o AllSteps("script", Events) \o <<Step("register", Events)>>

Setup == Run("setup", SetupPlan) /\ UNCHANGED planned

(* Refreshing the scripts registers nothing.                                 *)
HooksInstall == Run("hooks", AllSteps("script", Events)) /\ UNCHANGED planned

HooksUninstall ==
  /\ scripts # {} \/ registered # {}
  /\ Run("unhook", AllSteps("unscript", scripts)
                   \o (IF registered = {} THEN <<>> ELSE <<Step("unregister", Events)>>))
  /\ UNCHANGED planned

-----------------------------------------------------------------------------

(* _build_uninstall_plan: global.db is read for the projects.                *)
InProject(p) ==
  LET Found(part) == IF part \in parts[p] THEN <<Step("remove", <<p, part>>)>> ELSE <<>>
  IN  Found("store") \o Found("cache") \o Found("block") \o Found("nudge")

UninstallPlan(keepData) ==
  (IF home /\ ~keepData THEN <<Step("remove-home", 0)>> ELSE <<>>)
    \o (IF claude THEN <<Step("claude", FALSE)>> ELSE <<>>)
    \o AllSteps("unscript", scripts)
    \o (IF registered = {} THEN <<>> ELSE <<Step("unregister", Events)>>)
    \o (IF keepData \/ ~home THEN <<>>
        ELSE FlattenSeq([i \in 1 .. Cardinality(tracked) |-> InProject(SetToSeq(tracked)[i])]))

Uninstall(keepData) ==
  /\ Run(IF keepData THEN "forget" ELSE "uninstall", UninstallPlan(keepData))
  /\ planned' = IF home THEN tracked ELSE {}

-----------------------------------------------------------------------------
Done(s) ==
  /\ home' = CASE s.op = "remove-home" -> FALSE
               [] s.op = "track" -> TRUE
               [] OTHER -> home
  /\ tracked' = CASE s.op = "remove-home" -> {}
                  [] s.op = "track" -> tracked \cup {s.arg}
                  [] OTHER -> tracked
  /\ parts' = CASE s.op = "add" -> [parts EXCEPT ![s.arg[1]] = @ \cup {s.arg[2]}]
                [] s.op = "remove" -> [parts EXCEPT ![s.arg[1]] = @ \ {s.arg[2]}]
                [] OTHER -> parts
  /\ scripts' = CASE s.op = "script" -> scripts \cup {s.arg}
                  [] s.op = "unscript" -> scripts \ {s.arg}
                  [] OTHER -> scripts
  /\ registered' = CASE s.op = "register" -> registered \cup s.arg
                     [] s.op = "unregister" -> registered \ s.arg
                     [] OTHER -> registered
  /\ claude' = IF s.op = "claude" THEN s.arg ELSE claude
  /\ ever' = IF s.op = "track" THEN ever \cup {s.arg} ELSE ever

Proceed ==
  /\ todo # <<>>
  /\ todo' = Tail(todo)
  /\ \/ Done(Head(todo)) /\ UNCHANGED <<failed, hitch, hitches>>
     \/ /\ hitches < MaxHitches
        /\ hitches' = hitches + 1 /\ failed' = TRUE /\ hitch' = TRUE
        /\ UNCHANGED <<machine, ever>>
  /\ UNCHANGED <<cmd, report, planned, runs>>

(* "Nothing to remove" or everything removed; or failures, or with data kept.  *)
End ==
  /\ cmd # "none" /\ todo = <<>>
  /\ cmd' = "none"
  /\ report' = IF cmd # "uninstall" THEN "none" ELSE IF failed THEN "failed" ELSE "clean"
  /\ hitch' = (hitch /\ (failed \/ cmd \notin {"setup", "unhook"}))
  /\ UNCHANGED <<machine, todo, failed, planned, ever, runs, hitches>>

Die ==
  /\ cmd # "none" /\ hitches < MaxHitches
  /\ hitches' = hitches + 1 /\ hitch' = TRUE
  /\ cmd' = "none" /\ todo' = <<>> /\ failed' = FALSE
  /\ UNCHANGED <<machine, report, planned, ever, runs>>

NNext ==
  \/ InitProject \/ Setup \/ HooksInstall \/ HooksUninstall
  \/ \E keepData \in BOOLEAN : Uninstall(keepData)
  \/ Proceed \/ End \/ Die
NSpec == NInit /\ [][NNext]_nvars

-----------------------------------------------------------------------------
(* Claude Code runs no hook whose script is missing, between commands and after *)
(* a setup or a removal of the hooks that did not fail, whatever failed or was *)
(* killed before.                                                            *)
HooksResolve == cmd = "none" /\ ~hitch => registered \subseteq scripts

(* "Nothing to remove -- system already clean": it is, for every project that was *)
(* ever tracked.                                                             *)
CleanIsClean == report = "clean" => \A p \in ever : parts[p] = {}
=============================================================================

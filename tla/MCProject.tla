----------------------------- MODULE MCProject -----------------------------
(* A project beside its stores, one part of it at a time: `part` says which,  *)
(* and the others stay as they begin.  Most parts whose properties are proved are  *)
(* extended, the others instantiated.                                        *)
EXTENDS Integers, Sequences, FiniteSets, TLC, Roadmap, Installation, SessionLog,
        FixHistory, FirstContact, Registry, Migrations, IdeConfig, HookEngine, Binding

CONSTANTS Components, a, b, f, g

VARIABLES
  part,
  roadmap2, lock2, rpc2, seen2, placed2, roadmapCalls2,
  disk, hashes, nodes, syms, links, run, timer, queued, failures, backoff, exact,
  edits, faults,
  mem, learned, aside, archives, carrying, sec, written, trips, mishaps, lateLines,
  layout, tsconfig, remembered, reply, changes,
  state, book, language, order, promoted, robbed, promotions, hands

(* Roadmap: two writers; and one with a reader, whose saves may undo one of its. *)
Rr == INSTANCE Roadmap
        WITH Writers <- {1}, Readers <- {2}, MaxCalls <- 4,
             file <- roadmap2, lock <- lock2, rpc <- rpc2, seen <- seen2,
             placed <- placed2, roadmapCalls <- roadmapCalls2
twovars == <<roadmap2, lock2, rpc2, seen2, placed2, roadmapCalls2>>

(* Two files, of which one version each imports the other.                   *)
MCImports == (f :> [v \in 0 .. 2 |-> IF v = 1 THEN {g} ELSE {}])
               @@ (g :> [v \in 0 .. 2 |-> IF v = 2 THEN {f} ELSE {}])

(* A server's watcher against `codevira index --full`; and alone, with failures. *)
Xr == INSTANCE CodeIndex
        WITH Files <- {f, g}, Runners <- {"watch", "rebuild"}, Threshold <- 1,
             Imports <- MCImports, Inside <- {}, MaxVersion <- 2, MaxEdits <- 2, MaxFaults <- 0
Xw == INSTANCE CodeIndex
        WITH Files <- {f, g}, Runners <- {"watch"}, Threshold <- 1,
             Imports <- MCImports, Inside <- {}, MaxVersion <- 2, MaxEdits <- 3, MaxFaults <- 2

(* IdeConfig: two calls of codevira; and one, while Claude Code writes its file. *)
MCKey == (1 :> "codevira-a") @@ (2 :> "codevira-b")
MCRequests == {<<"setup", 1>>, <<"init", 2>>, <<"untrack", 1>>, <<"register", 0>>, <<"fix", 0>>}
MCBroken == <<"ag2", "garbled">>
I1 == INSTANCE IdeConfig
        WITH Callers <- {a}, BusyFiles <- {"claude"}, MaxEdits <- 3, MaxToolWrites <- 1
ASSUME ConfigsAssumption == IdeConfigAssumption /\ I1!IdeConfigAssumption

(* HookEngine: a file of three lines, edited by two sessions; one decision is   *)
(* about a symbol, one about the whole file, and only the newest lock is looked at. *)
MCSymbolOf == <<"A", "none">>
MCWordsOf == <<{"v"}, {"v", "w"}>>
MCTexts == {<<"A", "v", "B">>, <<"A", "v", "v">>}

(* FixHistory: commits of one file or two.                                    *)
MCChanges == {[files |-> {"f"}, fix |-> TRUE], [files |-> {"f", "g"}, fix |-> TRUE]}

(* Migrations: a server in the main worktree and one in a linked worktree.  An  *)
(* older release moved the main store away with its log, or with a copy of it at  *)
(* ~/.codevira only; or the main store is in git, and the worktree's has more.    *)
MCRootOf == <<"main", "wt">>
MCWorlds ==
  LET main == <<"repo", "main">>  wt == <<"repo", "wt">>
      away == <<"orphan", "main">>  moved == <<"central", "main">> IN
  {[log |-> (away :> <<1>>) @@ (wt :> <<2>>), configs |-> {away, moved, wt},
    shared |-> FALSE, moved |-> {"main"}, decided |-> 2],
   [log |-> (moved :> <<1, 2>>), configs |-> {moved},
    shared |-> FALSE, moved |-> {"main"}, decided |-> 2],
   [log |-> (main :> <<1>>) @@ (wt :> <<1, 2>>), configs |-> {main, wt},
    shared |-> TRUE, moved |-> {}, decided |-> 2]}

(* An archive from another machine, with a file and a row.                    *)
W == INSTANCE Transfer
       WITH Files <- {"decisions", "skills"}, Signals <- {"s"},
            Foreign <- {[mem |-> ("decisions" :> {9}) @@ ("skills" :> {}), rows |-> "s" :> 2]},
            MaxLines <- 2, MaxClock <- 1, MaxCommands <- 3, MaxFaults <- 1,
            job <- carrying, commands <- trips, faults <- mishaps, late <- lateLines
ASSUME ArchivesAssumption == W!TransferAssumption

(* FirstContact: a server started in project 1, which came by git clone with its *)
(* store in the repository; project 2 has a .codevira directory and was never    *)
(* opted in.                                                                 *)
MCSeed == [d \in {"central", "legacy"} \X {1, 2} |->
             IF d = <<"legacy", 1>> THEN {"config", "shared"} ELSE {}]

(* Registry: two clones of one repository.                                    *)
MCRemote == ("p" :> "r") @@ ("q" :> "r")

(* Binding: home/projects/{repo/src, other}: projects may have been opted in by   *)
(* mistake.                                                                  *)
MCUp ==
  LET top == <<"projects", "home">> IN
  [d \in {"home", "projects", "repo", "src", "other"} |->
     IF d = "home" THEN <<"home">> ELSE IF d = "projects" THEN top
     ELSE IF d = "src" THEN <<"src", "repo">> \o top ELSE <<d>> \o top]
MCTrees ==
  {[d \in DOMAIN MCUp |-> IF d = "home" THEN {"codevira"} ELSE IF d = "projects" THEN top
                          ELSE IF d = "repo" THEN repo ELSE IF d = "other" THEN other
                          ELSE {"package"}] :
     top \in SUBSET {"codevira"}, repo \in {{}, {"git"}, {"codevira", "git"}},
     other \in {{"git"}, {"codevira"}}}
MCWorkspaces == {<<"src">>, <<"home", "repo">>, <<"src", "other">>}

(* A project of Python files, or of TypeScript, that gets one of the other or   *)
(* loses one, or another tsconfig.json.                                       *)
MCPython ==
  {<<<<"a">>, "py">>, <<<<"a">>, "init">>, <<<<"a", "b">>, "py">>, <<<<"a", "b">>, "init">>,
   <<<<"a", "b", "c">>, "py">>}
MCTypeScript ==
  {<<<<"a", "b">>, "ts">>, <<<<"a">>, "index">>, <<<<"s", "b">>, "ts">>, <<<<"a">>, "ts">>,
   <<<<"b">>, "ts">>}
MCConfigs ==
  {[base |-> <<>>, alias |-> <<>>], [base |-> <<"a">>, alias |-> <<>>],
   [base |-> <<>>, alias |-> <<<<<<>>, <<"a">>>>, <<<<"@">>, <<"s">>>>>>]}
MCImport(level, names) == [level |-> level, parts |-> names]
O == INSTANCE ImportResolution
       WITH Sources <- MCPython \cup MCTypeScript,
            Layouts <- SUBSET MCPython \cup SUBSET MCTypeScript,
            Watched <- {"s"}, Skipped <- {"docs"}, Forms <- <<"ts", "index">>,
            Configs <- MCConfigs, MaxChanges <- 1,
            PyImports <- {MCImport(0, <<"a">>), MCImport(0, <<"a", "b">>),
                          MCImport(0, <<"a", "b", "c">>), MCImport(1, <<"b">>),
                          MCImport(2, <<"a", "b">>), MCImport(1, <<>>)},
            TsImports <- {MCImport(0, <<"@", "b">>), MCImport(0, <<"b">>), MCImport(0, <<"a">>),
                          MCImport(1, <<"b">>), MCImport(1, <<>>), MCImport(2, <<>>)},
            files <- layout, config <- tsconfig, cache <- remembered

(* Two skills of one name, that of a bundled file.                            *)
B == INSTANCE Playbooks
       WITH Callers <- {a, b}, Skill <- <<"git", "git">>, Types <- {"commit", "Commit"},
            Lower <- [t \in {"commit", "Commit"} |-> "commit"],
            Rules <- "commit" :> {"git"}, Agnostic <- {}, Languages <- {"python", "go"},
            Variants <- {<<"git", "generic">>}, MaxCalls <- 2, MaxHands <- 1,
            calls <- promotions

roadmaps == <<rvars, roadmap2, lock2, rpc2, seen2, placed2, roadmapCalls2>>
indexing == <<disk, hashes, nodes, syms, links, run, timer, queued, failures,
              backoff, exact, edits, faults>>
transfers == <<mem, learned, aside, archives, carrying, sec, written, trips, mishaps,
               lateLines>>
imports == <<layout, tsconfig, remembered, reply, changes>>
playbooks == <<state, book, language, order, promoted, robbed, promotions, hands>>
allvars == <<part, roadmaps, indexing, ivars, nvars, evars, tvars, fvars, gvars,
             transfers, fcvars, rgvars, bvars, imports, playbooks>>

(* A part that is not the one starts in one state only.                       *)
MCInit ==
  /\ part \in Components
  /\ RInit /\ Rr!RInit
  /\ IF part \in {"index", "index-fails"} THEN TRUE ELSE disk = [x \in {f, g} |-> 0]
  /\ IF part = "index" THEN Xr!CInit ELSE Xw!CInit
  /\ IF part = "tool-writes" THEN I1!IInit ELSE IInit
  /\ IF part = "install" THEN TRUE ELSE parts = [p \in {1, 2} |-> {}]
  /\ NInit
  /\ IF part = "hooks" THEN TRUE ELSE text = <<"A", "v", "B">>
  /\ EInit
  /\ TInit
  /\ FInit
  /\ GInit
  /\ part = "starts" \/ found.shared
  /\ W!TRInit
  /\ FCInit
  /\ IF part = "registry" THEN TRUE ELSE dir = [d \in DataDirs |-> {}]
  /\ RGInit
  /\ IF part = "binding" THEN TRUE
     ELSE marks = (CHOOSE tree \in MCTrees : TRUE) /\ mode = "http" /\ cwd = "src" /\ workspace = <<"src">>
  /\ BInit
  /\ IF part = "imports" THEN TRUE ELSE layout = {} /\ tsconfig = [base |-> <<>>, alias |-> <<>>]
  /\ O!MInit
  /\ IF part = "playbooks" THEN TRUE ELSE language = "python"
  /\ B!PBInit

Move ==
  \/ /\ \/ part = "roadmap" /\ RNext /\ UNCHANGED twovars
        \/ part = "roadmap-read" /\ Rr!RNext /\ UNCHANGED rvars
     /\ UNCHANGED <<indexing, ivars, nvars, evars, tvars, fvars, gvars, transfers,
                    fcvars, rgvars, bvars, imports, playbooks>>
  \/ /\ \/ part = "index" /\ Xr!CNext
        \/ part = "index-fails" /\ Xw!CNext
     /\ UNCHANGED <<roadmaps, ivars, nvars, evars, tvars, fvars, gvars, transfers,
                    fcvars, rgvars, bvars, imports, playbooks>>
  \/ /\ \/ part = "tools" /\ INext
        \/ part = "tool-writes" /\ I1!INext
     /\ UNCHANGED <<roadmaps, indexing, nvars, evars, tvars, fvars, gvars, transfers,
                    fcvars, rgvars, bvars, imports, playbooks>>
  \/ /\ part = "install" /\ NNext
     /\ UNCHANGED <<roadmaps, indexing, ivars, evars, tvars, fvars, gvars, transfers,
                    fcvars, rgvars, bvars, imports, playbooks>>
  \/ /\ part = "hooks" /\ ENext
     /\ UNCHANGED <<roadmaps, indexing, ivars, nvars, tvars, fvars, gvars, transfers,
                    fcvars, rgvars, bvars, imports, playbooks>>
  \/ /\ part = "turns" /\ TNext
     /\ UNCHANGED <<roadmaps, indexing, ivars, nvars, evars, fvars, gvars, transfers,
                    fcvars, rgvars, bvars, imports, playbooks>>
  \/ /\ part = "fixes" /\ FNext
     /\ UNCHANGED <<roadmaps, indexing, ivars, nvars, evars, tvars, gvars, transfers,
                    fcvars, rgvars, bvars, imports, playbooks>>
  \/ /\ part = "starts" /\ GNext
     /\ UNCHANGED <<roadmaps, indexing, ivars, nvars, evars, tvars, fvars, transfers,
                    fcvars, rgvars, bvars, imports, playbooks>>
  \/ /\ part = "transfer" /\ W!TRNext
     /\ UNCHANGED <<roadmaps, indexing, ivars, nvars, evars, tvars, fvars, gvars,
                    fcvars, rgvars, bvars, imports, playbooks>>
  \/ /\ part = "contact" /\ FCNext
     /\ UNCHANGED <<roadmaps, indexing, ivars, nvars, evars, tvars, fvars, gvars,
                    transfers, rgvars, bvars, imports, playbooks>>
  \/ /\ part = "registry" /\ RGNext
     /\ UNCHANGED <<roadmaps, indexing, ivars, nvars, evars, tvars, fvars, gvars,
                    transfers, fcvars, bvars, imports, playbooks>>
  \/ /\ part = "binding" /\ BNext
     /\ UNCHANGED <<roadmaps, indexing, ivars, nvars, evars, tvars, fvars, gvars,
                    transfers, fcvars, rgvars, imports, playbooks>>
  \/ /\ part = "imports" /\ O!MNext
     /\ UNCHANGED <<roadmaps, indexing, ivars, nvars, evars, tvars, fvars, gvars,
                    transfers, fcvars, rgvars, bvars, playbooks>>
  \/ /\ part = "playbooks" /\ B!PBNext
     /\ UNCHANGED <<roadmaps, indexing, ivars, nvars, evars, tvars, fvars, gvars,
                    transfers, fcvars, rgvars, bvars, imports>>

MCNext == Move /\ UNCHANGED part
MCSpec == MCInit /\ [][MCNext]_allvars

(* What calls of codevira, sessions, processes and tasks do is the same.       *)
MCSymmetry == Permutations({a, b})

-----------------------------------------------------------------------------
(* The properties of the parts, under the names they have there.             *)

(* What is made of something else agrees with it.  A run that nothing disturbs    *)
(* leaves the graph equal to the sources, and then queries say what they say; an   *)
(* import means the file that its language loads; a skill that became a playbook  *)
(* is served, and one written by hand stays; an archive that is brought in         *)
(* undisturbed leaves what was exported, and a line of an agent is in memory or in  *)
(* a backup, but for known causes.                                            *)
CopiesAgree ==
  /\ part \in {"index", "index-fails"} => Xr!UndisturbedRunIsExact /\ Xr!AnswersMatchSources
  /\ part = "imports" => O!PythonLinks /\ O!TypeScriptLinks
  /\ part = "playbooks" => B!PromotedAreServed /\ B!NoHandIsRobbed
  /\ part = "transfer" => W!ImportsArriveWhole /\ W!NothingOverwritten
=============================================================================

---------------------------- MODULE FirstContact ----------------------------
(* How a project becomes one that codevira tracks (auto_init.py,             *)
(* _repair_init.py, opt_in.py, paths.py, `codevira init`).  A server that     *)
(* serves several projects is bound by the files its tools are called with;   *)
(* its first call for a project that is opted in repairs the data directory   *)
(* and starts a thread that writes the configuration, registers the project,  *)
(* builds the graph and starts a second thread with the full index.  Users     *)
(* run codevira beside it; servers and commands end at any step.              *)
EXTENDS Integers, FiniteSets

CONSTANTS Projects, Home,    \* Home: the project the server is started in
          Folders,           \* projects that have a .codevira directory
          Seed,              \* what directories have at first: functions
          SameRemote,        \* whether the projects are clones of one another
          MaxStops, MaxErrors, MaxCommands

VARIABLES
  has,       \* has[d]: which of config, shared (git_shared), meta
             \*   (metadata.json) and marker (.registered) are in directory d
  graph,     \* graph[d]: the projects whose files the graph is about
  inGlobal,      \* projects in global.db
  bound,     \* set_project_dir
  cache,     \* _data_dir_cache: {} or the directory
  optCache,     \* _opt_in_cache
  begun,     \* _init_started
  contactJob,       \* where a tool call of the server, and a command, is
  initThread, indexThread,             \* the two threads of the server
  opted, healed, astray,     \* history
  stops, errors, commands

process == <<bound, cache, optCache, begun>>
histories == <<opted, healed, astray>>
counts == <<stops, errors, commands>>
fcvars == <<has, graph, inGlobal, process, contactJob, initThread, indexThread, histories, counts>>

Central(p) == <<"central", p>>       \* ~/.codevira/projects/<key>
Legacy(p) == <<"legacy", p>>         \* <project>/.codevira
Dirs == {Central(p) : p \in Projects} \cup {Legacy(p) : p \in Projects}

(* paths._resolve_data_dir: its own directory, then the one in the repository,  *)
(* then one of a project with the same remote.                                *)
Clones(h, p) ==
  {Central(q) : q \in {q \in Projects \ {p} : SameRemote /\ {"config", "meta"} \subseteq h[Central(q)]}}
Resolve(h, p) ==
  IF "config" \in h[Central(p)] THEN Central(p)
  ELSE IF "config" \in h[Legacy(p)] THEN Legacy(p)
  ELSE IF Clones(h, p) # {} THEN CHOOSE d \in Clones(h, p) : TRUE
  ELSE Central(p)

Things == {"config", "shared", "meta", "marker"}
(* The server's project is one of them.  Whatever is under ~/.codevira came with *)
(* a config, and nothing is marked as registered while global.db is empty.      *)
ASSUME ContactAssumption ==
  /\ Home \in Projects /\ Seed \in [Dirs -> SUBSET Things]
  /\ \A d \in Dirs : "marker" \notin Seed[d]
  /\ \A p \in Projects :
       Seed[Central(p)] # {} => "config" \in Seed[Central(p)] \cup Seed[Legacy(p)]

OptedIn(p) == "config" \in has[Legacy(p)] \cup has[Central(p)]

(* get_data_dir: what was resolved holds once it has a config; until then it    *)
(* is resolved again when the project has one.                                *)
DataDir(p) ==
  IF cache[p] # {} /\ \A d \in cache[p] : "config" \in has[d] \/ ~OptedIn(p)
  THEN CHOOSE d \in cache[p] : TRUE ELSE Resolve(has, p)

(* Mutant: the directory counts as a sign that the project is tracked.         *)
AllowedByFolder(p) == p \in optCache \/ OptedIn(p) \/ p \in Folders
(* opt_in.activation_allowed                                                  *)
Allowed(p) == p \in optCache \/ OptedIn(p)

NoTask == [at |-> "none"]
NoneCached == [p \in Projects |-> {}]
At(where, p, d) == [at |-> where, root |-> p, dir |-> d]
Give(d, what) == has' = [has EXCEPT ![d] = @ \cup what]
May == errors < MaxErrors /\ errors' = errors + 1

FCInit ==
  /\ has = Seed
  /\ graph = [d \in Dirs |-> {}]
  /\ inGlobal = {}
  /\ bound = Home /\ cache = NoneCached /\ optCache = {} /\ begun = FALSE
  /\ contactJob = [a \in {"server", "command"} |-> NoTask]
  /\ initThread = NoTask /\ indexThread = NoTask
  /\ opted = {p \in Projects : OptedIn(p)}
  /\ healed = {} /\ astray = {}
  /\ stops = 0 /\ errors = 0 /\ commands = 0

-----------------------------------------------------------------------------
(* server.call_tool: the binding, the gate, ensure_project_initialized.        *)
Call(p) ==
  /\ contactJob["server"] = NoTask
  /\ p = bound \/ p \in Folders
  /\ bound' = p
  /\ LET fresh == IF p = bound THEN cache ELSE NoneCached IN
     IF ~Allowed(p) THEN cache' = fresh /\ UNCHANGED <<optCache, contactJob>>
     ELSE /\ optCache' = optCache \cup {p}
          /\ IF begun THEN cache' = fresh /\ UNCHANGED contactJob
             ELSE LET d == IF p = bound THEN DataDir(p) ELSE Resolve(has, p) IN
                  /\ cache' = [fresh EXCEPT ![p] = {d}]
                  /\ contactJob' = [contactJob EXCEPT !["server"] = At("config", p, d)]
  /\ UNCHANGED <<has, graph, inGlobal, begun, initThread, indexThread, histories, counts>>

(* cli.main: any command but init repairs a directory that exists.             *)
Command(p) ==
  /\ contactJob["command"] = NoTask /\ commands < MaxCommands
  /\ commands' = commands + 1
  /\ LET d == Resolve(has, p) IN
       /\ has[d] # {} \/ graph[d] # {}
       /\ OptedIn(p)
       /\ contactJob' = [contactJob EXCEPT !["command"] = At("config", p, d)]
  /\ UNCHANGED <<has, graph, inGlobal, process, initThread, indexThread, histories, stops, errors>>

-----------------------------------------------------------------------------
(* repair_incomplete_init                                                     *)
Go(a, where) == contactJob' = [contactJob EXCEPT ![a].at = where]

WriteConfig(a) ==
  /\ contactJob[a].at = "config"
  /\ Give(contactJob[a].dir, {"config"})
  /\ Go(a, "meta")
  /\ UNCHANGED <<graph, inGlobal, process, initThread, indexThread, histories, counts>>

WriteMetadata(a) ==
  /\ contactJob[a].at = "meta"
  /\ Give(contactJob[a].dir, {"meta"})
  /\ Go(a, IF "marker" \in has[contactJob[a].dir] THEN "decide" ELSE "register")
  /\ UNCHANGED <<graph, inGlobal, process, initThread, indexThread, histories, counts>>

(* Mutant: the marker is set before the row.                                  *)
RegisterMarked(a) ==
  /\ contactJob[a].at = "register"
  /\ Give(contactJob[a].dir, {"marker"})
  /\ Go(a, "mark")
  /\ UNCHANGED <<graph, inGlobal, process, initThread, indexThread, histories, counts>>

(* A row, if there is none; a database that fails leaves no marker.            *)
Register(a) ==
  /\ contactJob[a].at = "register"
  /\ \/ inGlobal' = inGlobal \cup {contactJob[a].root} /\ Go(a, "mark") /\ UNCHANGED errors
     \/ May /\ Go(a, "unsure") /\ UNCHANGED inGlobal
  /\ UNCHANGED <<has, graph, process, initThread, indexThread, histories, stops, commands>>

Mark(a) ==
  /\ contactJob[a].at = "mark"
  /\ Give(contactJob[a].dir, {"marker"})
  /\ Go(a, "decide")
  /\ UNCHANGED <<graph, inGlobal, process, initThread, indexThread, histories, counts>>

(* The heavy part is owed while the graph is empty; once per process.          *)
Decide(a) ==
  /\ contactJob[a].at \in {"decide", "unsure"}
  /\ healed' = healed \cup IF contactJob[a].at = "decide" THEN {<<contactJob[a].root, contactJob[a].dir>>} ELSE {}
  /\ contactJob' = [contactJob EXCEPT ![a] = NoTask]
  /\ IF a = "server"
     THEN /\ begun' = TRUE
          /\ initThread' = IF graph[contactJob[a].dir] # {} THEN NoTask
                       ELSE At("config", contactJob[a].root, contactJob[a].dir)
     ELSE UNCHANGED <<begun, initThread>>
  /\ UNCHANGED <<has, graph, inGlobal, bound, cache, optCache, indexThread, opted, astray, counts>>

-----------------------------------------------------------------------------
(* _run_background_init: the configuration is written over what is there.      *)
ThreadConfig ==
  /\ initThread.at = "config"
  /\ has' = [has EXCEPT ![initThread.dir] = (@ \ {"shared"}) \cup {"config", "meta"}]
  /\ cache' = [cache EXCEPT ![initThread.root] = {}]
  /\ initThread' = [initThread EXCEPT !.at = "register"]
  /\ UNCHANGED <<graph, inGlobal, bound, optCache, begun, contactJob, indexThread, histories, counts>>

ThreadRegister ==
  /\ initThread.at = "register"
  /\ \/ inGlobal' = inGlobal \cup {initThread.root} /\ UNCHANGED errors
     \/ May /\ UNCHANGED inGlobal
  /\ initThread' = [initThread EXCEPT !.at = "graph"]
  /\ UNCHANGED <<has, graph, process, contactJob, indexThread, histories, stops, commands>>

ThreadGraph ==
  /\ initThread.at = "graph"
  /\ \/ graph' = [graph EXCEPT ![initThread.dir] = @ \cup {initThread.root}] /\ UNCHANGED errors
     \/ May /\ UNCHANGED graph
  /\ initThread' = NoTask
  /\ indexThread' = At("resolve", initThread.root, initThread.dir)
  /\ UNCHANGED <<has, inGlobal, process, contactJob, histories, stops, commands>>

(* start_background_full_index takes no project: the new thread asks which one  *)
(* is bound, after another call may have changed it.                          *)
IndexResolve ==
  /\ indexThread.at = "resolve"
  /\ indexThread' = At("build", bound, DataDir(bound))
  /\ cache' = [cache EXCEPT ![bound] = {DataDir(bound)}]
  /\ astray' = astray \cup ({bound} \ {indexThread.root})
  /\ UNCHANGED <<has, graph, inGlobal, bound, optCache, begun, contactJob, initThread, opted, healed, counts>>

IndexBuild ==
  /\ indexThread.at = "build"
  /\ \/ graph' = [graph EXCEPT ![indexThread.dir] = {indexThread.root}] /\ UNCHANGED errors
     \/ May /\ UNCHANGED graph
  /\ indexThread' = NoTask
  /\ UNCHANGED <<has, inGlobal, process, contactJob, initThread, histories, stops, commands>>

-----------------------------------------------------------------------------
(* migrate_to_centralized, which servers and `codevira init` call first.       *)
Centralised(p) ==
  IF "config" \in has[Legacy(p)] /\ {"shared"} \cap has[Legacy(p)] = {}
     /\ "meta" \notin has[Central(p)]
  THEN [has EXCEPT ![Central(p)] = @ \cup has[Legacy(p)] \cup {"config", "meta"}]
  ELSE has

(* codevira init: its older half writes the data directory's config, whatever   *)
(* is there; the graph; the row and the metadata.                             *)
InitData(p) ==
  /\ contactJob["command"] = NoTask /\ commands < MaxCommands
  /\ commands' = commands + 1
  /\ LET h == Centralised(p)  d == Resolve(h, p) IN
       /\ has' = [h EXCEPT ![d] = (@ \ {"shared"}) \cup {"config"}]
       /\ \/ graph' = [graph EXCEPT ![d] = {p}] /\ UNCHANGED errors
          \/ May /\ UNCHANGED graph
       /\ contactJob' = [contactJob EXCEPT !["command"] = At("init", p, d)]
  /\ opted' = opted \cup {p}
  /\ UNCHANGED <<inGlobal, process, initThread, indexThread, healed, astray, stops>>

InitRegister ==
  /\ contactJob["command"].at = "init"
  /\ LET p == contactJob["command"].root IN
     \/ /\ inGlobal' = inGlobal \cup {p} /\ Give(contactJob["command"].dir, {"meta"})
        /\ UNCHANGED errors
     \/ May /\ UNCHANGED <<has, inGlobal>>
  /\ Go("command", "scaffold")
  /\ UNCHANGED <<graph, process, initThread, indexThread, histories, stops, commands>>

(* Its newer half writes the repository's config if there is none, and sets     *)
(* git_shared when asked to.                                                  *)
InitScaffold(shared) ==
  /\ contactJob["command"].at = "scaffold"
  /\ Give(Legacy(contactJob["command"].root), {"config"} \cup IF shared THEN {"shared"} ELSE {})
  /\ contactJob' = [contactJob EXCEPT !["command"] = NoTask]
  /\ UNCHANGED <<graph, inGlobal, process, initThread, indexThread, histories, counts>>

(* The server ends, with its threads, and starts again; or a command ends.     *)
Restart ==
  /\ stops < MaxStops /\ stops' = stops + 1
  /\ bound' = Home /\ cache' = NoneCached /\ optCache' = {} /\ begun' = FALSE
  /\ contactJob' = [contactJob EXCEPT !["server"] = NoTask]
  /\ initThread' = NoTask /\ indexThread' = NoTask
  /\ has' = Centralised(Home)
  /\ graph' = IF has' = has THEN graph
              ELSE [graph EXCEPT ![Central(Home)] = @ \cup graph[Legacy(Home)]]
  /\ UNCHANGED <<inGlobal, histories, errors, commands>>

Interrupt ==
  /\ contactJob["command"] # NoTask /\ stops < MaxStops /\ stops' = stops + 1
  /\ contactJob' = [contactJob EXCEPT !["command"] = NoTask]
  /\ UNCHANGED <<has, graph, inGlobal, process, initThread, indexThread, histories, errors, commands>>

FCNext ==
  \/ \E p \in Projects : Call(p) \/ Command(p) \/ InitData(p)
  \/ \E a \in DOMAIN contactJob :
       WriteConfig(a) \/ WriteMetadata(a) \/ Register(a) \/ Mark(a) \/ Decide(a)
  \/ ThreadConfig \/ ThreadRegister \/ ThreadGraph \/ IndexResolve \/ IndexBuild
  \/ InitRegister \/ \E shared \in BOOLEAN : InitScaffold(shared)
  \/ Restart \/ Interrupt
FCSpec == FCInit /\ [][FCNext]_fcvars

-----------------------------------------------------------------------------
(* "a single global MCP registration stays fully inert outside opted-in        *)
(* projects" (server.py:1684): what nobody ran `codevira init` in has nothing   *)
(* under ~/.codevira, through rebinding, restarts and the threads of other      *)
(* projects' initialisation; except where the index thread went astray.        *)
InertUntilOptedIn ==
  \A p \in Projects \ (opted \cup astray) :
    has[Central(p)] = {} /\ graph[Central(p)] = {} /\ p \notin inGlobal

(* A first contact that ran to its end left the project whole and in global.db, *)
(* whatever was killed half way before, or beside it.                         *)
ContactsHeal ==
  \A c \in healed : {"config", "meta"} \subseteq has[c[2]] /\ c[1] \in inGlobal

=============================================================================

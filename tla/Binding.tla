------------------------------- MODULE Binding -------------------------------
(***************************************************************************)
(* For which project a server answers a call: server.py, project_binding.py *)
(* and paths.py.  The first tool call asks the client for its workspace      *)
(* roots and waits for the reply, while others are handled; the answer binds *)
(* the whole process, as does a path in a call of a client without roots.    *)
(* Each request has a context that remembers the root it has resolved, and   *)
(* begins with a copy of the one in which the server was started.  Beside    *)
(* it, users run `codevira init`.                                           *)
(***************************************************************************)
EXTENDS Integers, Sequences, FiniteSetsExt

CONSTANTS
  Directories,
  Up,             \* Up[d]: the directories from d to the top of the file system
  Refused,        \* is_invalid_project_root: the home directory, system ones
  Marks,          \* the trees to begin with: which markers each directory has
  StartDirs,      \* directories in which a server is started
  Paths,          \* the files that tools are called with
  Workspaces,     \* what clients have open: sequences of directories
  Modes,          \* of "workspace", "desktop", "http", "pinned"
  Tasks, MaxRequests, MaxInits

Markers == {"codevira", "git", "package"}

(* The search for a project begins at the directory itself; no task is taken for *)
(* the one in which main() ran.                                               *)
ASSUME BindingAssumption ==
  /\ Up \in [Directories -> Seq(Directories)]
  /\ \A d \in Directories : Up[d] # <<>> /\ Up[d][1] = d
  /\ Marks \subseteq [Directories -> SUBSET Markers]
  /\ StartDirs \subseteq Directories /\ Paths \subseteq Directories
  /\ Workspaces \subseteq Seq(Directories)
  /\ Tasks \cap {"main", "nobody"} = {}

VARIABLES
  marks,          \* marks[d]: the markers that d has
  mode, cwd, workspace,
  mainRoot,       \* the root that main() resolved
  override,       \* _project_dir_override: {} or the directory
  attempted,      \* _roots_bind_attempted
  doing,          \* each task: whether it waits, and the path it was called with
  answered,       \* history: the task that was answered last, for which root, and
                  \*   the markers then
  heard,          \* history: {} or the marks when the roots came
  requests, folderInits

bvars == <<marks, mode, cwd, workspace, mainRoot, override, attempted, doing, answered, heard,
           requests, folderInits>>
fixed == <<mode, cwd, workspace, mainRoot>>

Tracked(tree) == {d \in Directories : "codevira" \in tree[d]} \ Refused
Repos(tree) == {d \in Directories : "git" \in tree[d]} \ Refused
WithMarker(tree) == {d \in Directories : tree[d] # {}} \ Refused

(* {} or the first of d and the directories above it that is in S.            *)
Nearest(d, S) ==
  LET hits == {i \in DOMAIN Up[d] : Up[d][i] \in S} IN
  IF hits = {} THEN {} ELSE {Up[d][Min(hits)]}

(* That one, or d itself.                                                     *)
NearestOr(d, S) ==
  LET n == Nearest(d, S) IN IF n = {} THEN d ELSE CHOOSE r \in n : TRUE

Discover(d, tree) == NearestOr(d, WithMarker(tree))

(* What an explicit pin, a binding or the start directory lead to.            *)
Resolved(o) == Discover(IF o = {} THEN cwd ELSE CHOOSE d \in o : TRUE, marks)

(* Mutant: the root that main() resolved, which every context inherits, is      *)
(* taken for the request's own.                                              *)
RootInherited(pin, t, o) == IF pin.owner \in {t, "main"} THEN pin.root ELSE Resolved(o)

(* get_project_root: a pin counts for the task that made it.                   *)
Root(pin, t, o) == IF pin.owner = t THEN pin.root ELSE Resolved(o)

(* Mutant: up to the next .codevira, whatever lies between.                    *)
EnclosingAny(d) ==
  IF d \in Tracked(marks) \cup Repos(marks) THEN d ELSE NearestOr(d, Tracked(marks))

(* A root without a marker of its own is walked up, as far as its repository.   *)
Enclosing(d) == NearestOr(d, Tracked(marks) \cup Repos(marks))

(* pick_project_root: the first tracked one, else the first repository, else   *)
(* the first.                                                                *)
Picked(roots) ==
  LET usable == {i \in DOMAIN roots : roots[i] \notin Refused}
      In(S) == {i \in usable : Enclosing(roots[i]) \in S}
      best == IF In(Tracked(marks)) # {} THEN In(Tracked(marks))
              ELSE IF In(Repos(marks)) # {} THEN In(Repos(marks)) ELSE usable
  IN  IF usable = {} THEN {} ELSE {Enclosing(roots[Min(best)])}

(* choose_binding: {} to stay.  A repository that is not tracked does not take   *)
(* the place of a project that is.                                           *)
Chosen(roots, root) ==
  {w \in Picked(roots) : \/ w \in Tracked(marks)
                         \/ w \in Repos(marks) /\ "codevira" \notin marks[root]}

NoPath == "none"
AtRest == [at |-> "idle", path |-> NoPath]
FromMain == [root |-> mainRoot, owner |-> "main"]
Cleared == [root |-> mainRoot, owner |-> "nobody"]

BInit ==
  /\ marks \in Marks /\ mode \in Modes /\ cwd \in StartDirs /\ workspace \in Workspaces
  /\ mainRoot = Discover(cwd, marks)
  /\ mode = "http" => mainRoot \notin Refused
  /\ override = IF mode = "pinned" THEN {cwd} ELSE {}
  /\ attempted = FALSE
  /\ doing = [t \in Tasks |-> AtRest]
  /\ answered = [task |-> "main", path |-> NoPath, root |-> mainRoot, tree |-> marks, early |-> FALSE]
  /\ heard = {}
  /\ requests = 0 /\ folderInits = 0

-----------------------------------------------------------------------------
Waiting == {t \in Tasks : doing[t].at = "asking"}

(* What follows has no await: _maybe_bind_from_tool_path, and the tool.  That a   *)
(* project which is not tracked gets a hint for an answer is in FirstContact.   *)
Respond(t, pin, o, path) ==
  LET here == Root(pin, t, o)
      target == IF mode # "desktop" \/ path = NoPath THEN {} ELSE Nearest(path, Tracked(marks))
      to == IF target \subseteq {here} THEN o ELSE target
      after == IF to = o THEN pin ELSE Cleared
  IN  /\ override' = to
      /\ answered' = [task |-> t, path |-> path, root |-> Root(after, t, to), tree |-> marks,
                      early |-> doing[t].at = "idle" /\ Waiting # {}]
      /\ doing' = [doing EXCEPT ![t] = AtRest]

(* The first call asks, unless the server is pinned or shared.                *)
CallTool(t, path) ==
  /\ doing[t].at = "idle" /\ requests < MaxRequests
  /\ requests' = requests + 1
  /\ mode # "desktop" => path = NoPath    \* others' paths are not looked at
  /\ attempted' = TRUE
  /\ \/ /\ ~attempted /\ mode \in {"workspace", "desktop"} /\ override = {}
        /\ doing' = [doing EXCEPT ![t] = [at |-> "asking", path |-> path]]
        /\ UNCHANGED <<override, answered>>
     \/ /\ attempted \/ mode \notin {"workspace", "desktop"} \/ override # {}
        /\ Respond(t, FromMain, override, path)
  /\ UNCHANGED <<marks, fixed, heard, folderInits>>

(* The roots have come; the task has resolved where it is, and keeps to that     *)
(* unless it binds.                                                          *)
Answer(t) ==
  /\ doing[t].at = "asking"
  /\ LET here == Root(FromMain, t, override)
         to == Chosen(workspace, here)
     IN  IF to \subseteq {here} THEN Respond(t, [root |-> here, owner |-> t], override, doing[t].path)
         ELSE Respond(t, Cleared, to, doing[t].path)
  /\ heard' = {marks}
  /\ UNCHANGED <<marks, fixed, attempted, requests, folderInits>>

(* No roots within two seconds: the server never asks again.                  *)
TimeOut(t) ==
  /\ doing[t].at = "asking"
  /\ Respond(t, [root |-> Root(FromMain, t, override), owner |-> t], override, doing[t].path)
  /\ UNCHANGED <<marks, fixed, attempted, heard, requests, folderInits>>

(* A resource is read for the project bound so far; it binds none.            *)
ReadResource(t) ==
  /\ doing[t].at = "idle" /\ requests < MaxRequests
  /\ requests' = requests + 1
  /\ answered' = [task |-> t, path |-> NoPath, root |-> Root(FromMain, t, override), tree |-> marks,
                  early |-> heard = {}]
  /\ UNCHANGED <<marks, fixed, override, attempted, doing, heard, folderInits>>

(* `codevira init` in another terminal.                                       *)
InitFolder(d) ==
  /\ folderInits < MaxInits /\ d \notin Refused /\ "codevira" \notin marks[d]
  /\ folderInits' = folderInits + 1
  /\ marks' = [marks EXCEPT ![d] = @ \cup {"codevira"}]
  /\ UNCHANGED <<fixed, override, attempted, doing, answered, heard, requests>>

BNext ==
  \/ \E t \in Tasks :
       \/ \E path \in Paths \cup {NoPath} : CallTool(t, path)
       \/ Answer(t) \/ TimeOut(t) \/ ReadResource(t)
  \/ \E d \in Directories : InitFolder(d)

BSpec == BInit /\ [][BNext]_bvars

-----------------------------------------------------------------------------
(* The tracked project a directory belongs to, if there is one: the innermost,  *)
(* and no repository lies between.                                           *)
ProjectOf(d, tree) ==
  {p \in Tracked(tree) : \E i \in DOMAIN Up[d] :
     /\ p = Up[d][i]
     /\ \A j \in 1 .. i - 1 : Up[d][j] \notin Tracked(tree) \cup Repos(tree)}
Open(tree) ==
  UNION {ProjectOf(workspace[i], tree) : i \in {j \in DOMAIN workspace : workspace[j] \notin Refused}}

(* Once the client's roots have come, calls are answered for a project the      *)
(* client had open then, if it had a tracked one open, the first call and those *)
(* begun after the reply ("the client's workspace IS the project"); and not    *)
(* for one that was tracked and lies outside of it, unless the server was       *)
(* started there.  A binding to the root it started in leaves it unbound, and   *)
(* follows what is initialised around its start directory later.              *)
CallsFollowTheClient ==
  mode = "workspace" /\ ~answered.early =>
    \A tree \in heard :
      LET home == Discover(cwd, answered.tree) IN
      /\ Open(tree) # {} => \/ answered.root \in Open(tree)
                            \/ Discover(cwd, tree) \in Open(tree) /\ answered.root = home
      /\ answered.root \in Tracked(tree) \ Open(tree) => answered.root = home

(* A path in a call of a client without roots decides, unless it leads out of   *)
(* every project.                                                            *)
PathsDecide ==
  mode = "desktop" /\ answered.path # NoPath =>
    LET n == Nearest(answered.path, Tracked(answered.tree)) IN n = {} \/ answered.root \in n

(* One client's roots never bind a server that others share, nor one that has    *)
(* been told: it answers for the root of its start directory, as it is then.   *)
OthersUnmoved ==
  mode \in {"http", "pinned"} => answered.root = Discover(cwd, answered.tree)

(* A call is answered for the project of the client, or the path, it came from. *)
CallsStayHome == CallsFollowTheClient /\ PathsDecide /\ OthersUnmoved
=============================================================================

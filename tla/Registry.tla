------------------------------ MODULE Registry ------------------------------
(* The projects codevira knows of on a machine, and the commands that forget  *)
(* them: rows of global.db, directories under ~/.codevira/projects, and the    *)
(* inventory that joins them by path, by git remote and by directory name      *)
(* (_project_inventory.py).  prune decides on a scan, waits for the user, and  *)
(* removes what it had found; archive, untrack and reset come between, and     *)
(* projects are cloned, deleted and put back.  Every opening of global.db      *)
(* keeps one row per remote.                                                 *)
EXTENDS Integers, FiniteSets

CONSTANTS Places,        \* as keys: a project's path
          Remote,          \* its git remote, or NoRemote
          NoRemote,
          MaxMoves,        \* how often a project is deleted or put back
          MaxAsked, MaxResists

VARIABLES
  here,       \* projects whose path exists
  registry,       \* the table projects: paths to remotes
  dir,        \* dir[d]: what directory d holds
  origin,     \* original_path in its metadata.json
  start,      \* {} or the `codevira init` that is half done
  plan,       \* what a prune is about to remove
  claimed,    \* history: registered, and neither it nor a clone withdrawn since
  orderly,       \* history: directories in good order when the plan was made
  moves, asked, resists

onDisk == <<dir, origin>>
tallies == <<moves, asked, resists>>
rgvars == <<here, registry, onDisk, start, plan, claimed, orderly, tallies>>

NoOrigin == "none"
ASSUME RegistryAssumption == NoOrigin \notin Places     \* it is no path

NoPlan == [what |-> "none", dirs |-> {}, paths |-> {}]
KeyDir(p) == <<"central", p>>
InRepo(p) == <<"repo", p>>
DataDirs == {KeyDir(p) : p \in Places} \cup {InRepo(p) : p \in Places}
SameRepo(p) == {q \in Places : q = p \/ (Remote[p] # NoRemote /\ Remote[q] = Remote[p])}

Without(r, S) == [q \in DOMAIN r \ S |-> r[q]]
MayResist == resists < MaxResists /\ resists' = resists + 1
Asked == asked < MaxAsked /\ asked' = asked + 1

Configured(p) == "config" \in dir[InRepo(p)] \cup dir[KeyDir(p)]

(* _resolve_data_dir: a clone without a config of its own shares a directory.   *)
DirOf(p) ==
  LET shared == {KeyDir(q) : q \in {q \in SameRepo(p) : /\ "config" \in dir[KeyDir(q)]
                                                       /\ origin[KeyDir(q)] # NoOrigin}} IN
  IF "config" \in dir[KeyDir(p)] THEN KeyDir(p)
  ELSE IF "config" \in dir[InRepo(p)] THEN InRepo(p)
  ELSE IF shared # {} THEN CHOOSE d \in shared : TRUE
  ELSE KeyDir(p)

(* GlobalDB(): of the rows with one remote any but one are deleted.            *)
Opened ==
  {Without(registry, L) : L \in {L \in SUBSET DOMAIN registry :
     \A q \in DOMAIN registry :
       LET alike == {o \in DOMAIN registry : o \in SameRepo(q) /\ registry[o] = registry[q]} IN
       IF registry[q] = NoRemote THEN q \notin L ELSE Cardinality(alike \ L) = 1}}

(* register_project: a remote that is known stays when none is given.           *)
Registered(r, p, remote) ==
  [q \in DOMAIN r \cup {p} |->
    IF q # p THEN r[q]
    ELSE IF remote = NoRemote /\ p \in DOMAIN r THEN r[p] ELSE remote]

-----------------------------------------------------------------------------
(* The inventory.                                                            *)
(* Mutant: a directory is matched with the row of its own path only.           *)
RowsOfPath(p) == DOMAIN registry \cap {p}
(* _inspect_disk: the rows that account for a project's directory.             *)
RowsOf(p) ==
  LET d == KeyDir(p)  known == DOMAIN registry \cap {origin[d]} IN
  IF known # {} THEN known
  ELSE IF origin[d] # NoOrigin /\ \E q \in DOMAIN registry : q \in SameRepo(origin[d]) /\ registry[q] # NoRemote
  THEN {q \in DOMAIN registry : q \in SameRepo(origin[d]) /\ registry[q] # NoRemote}
  ELSE DOMAIN registry \cap {p}

Status(p) ==
  IF RowsOf(p) # {} THEN (IF RowsOf(p) \cap here # {} THEN "tracked" ELSE "orphan")
  ELSE IF dir[KeyDir(p)] \cap {"config", "graph"} # {} \/ origin[KeyDir(p)] # NoOrigin THEN "ghost"
  ELSE "stale"

Exists(p) == dir[KeyDir(p)] # {} \/ origin[KeyDir(p)] # NoOrigin

(* empty_stale_dirs: a scan of fixes makes a directory too large to be swept.   *)
Sweepable(p) ==
  \/ Status(p) = "ghost"
  \/ Status(p) = "stale" /\ "fixes" \notin dir[KeyDir(p)]

InOrder == {KeyDir(p) : p \in {p \in here \cap claimed :
              origin[KeyDir(p)] = p /\ "config" \in dir[KeyDir(p)]}}

-----------------------------------------------------------------------------
(* Directories that older releases left, and a clone or two.                   *)
RGInit ==
  /\ here = Places
  /\ registry = [q \in {} |-> NoRemote]
  /\ dir \in [DataDirs -> {{}, {"graph"}, {"fixes"}}]
  /\ \A p \in Places : dir[InRepo(p)] = {}
  /\ origin = [d \in DataDirs |-> NoOrigin]
  /\ start = {} /\ plan = NoPlan
  /\ claimed = {} /\ orderly = {}
  /\ moves = 0 /\ asked = 0 /\ resists = 0

(* cmd_init: configuration and graph first.                                   *)
InitWrites(p) ==
  /\ start = {} /\ p \in here /\ Asked
  /\ dir' = [dir EXCEPT ![DirOf(p)] = @ \cup {"config", "graph"}]
  /\ start' = {[root |-> p, dir |-> DirOf(p)]}
  /\ UNCHANGED <<here, registry, origin, plan, claimed, orderly, moves, resists>>

(* Then the row, the metadata, and the repository's own configuration; or it    *)
(* ends before.                                                              *)
InitClaims ==
  /\ \E s \in start, r \in Opened :
       /\ registry' = Registered(r, s.root, Remote[s.root])
       /\ origin' = [origin EXCEPT ![s.dir] = s.root]
       /\ dir' = [dir EXCEPT ![InRepo(s.root)] = @ \cup {"config"}]
       /\ claimed' = claimed \cup {s.root}
  /\ start' = {}
  /\ UNCHANGED <<here, plan, orderly, tallies>>

InitEnds ==
  /\ start # {} /\ MayResist
  /\ start' = {}
  /\ UNCHANGED <<here, registry, onDisk, plan, claimed, orderly, moves, asked>>

(* register_current_project, when a server starts: without the remote.          *)
Serve(p) ==
  /\ p \in here /\ Configured(p)
  /\ \E r \in Opened : registry' = Registered(r, p, NoRemote)
  /\ claimed' = claimed \cup {p}
  /\ UNCHANGED <<here, onDisk, start, plan, orderly, tallies>>

(* repair_incomplete_init, and the thread that an empty graph starts.           *)
Contact(p) ==
  /\ p \in here /\ Configured(p)
  /\ LET d == DirOf(p)  light == "graph" \in dir[d] IN
     /\ dir' = [dir EXCEPT ![d] = @ \cup {"config", "marker", "graph"}]
     /\ origin' = [origin EXCEPT ![d] = IF light /\ @ # NoOrigin THEN @ ELSE p]
     /\ IF light /\ "marker" \in dir[d] THEN UNCHANGED <<registry, claimed>>
        ELSE /\ \E r \in Opened :
                  registry' = IF light /\ p \in DOMAIN r THEN r ELSE Registered(r, p, Remote[p])
             /\ claimed' = claimed \cup {p}
  /\ UNCHANGED <<here, start, plan, orderly, tallies>>

Leave(p) ==
  /\ p \in here /\ moves < MaxMoves /\ moves' = moves + 1
  /\ start = {}
  /\ here' = here \ {p}
  /\ UNCHANGED <<registry, onDisk, start, plan, claimed, orderly, asked, resists>>

Return(p) ==
  /\ p \notin here /\ moves < MaxMoves /\ moves' = moves + 1
  /\ here' = here \cup {p}
  /\ UNCHANGED <<registry, onDisk, start, plan, claimed, orderly, asked, resists>>

-----------------------------------------------------------------------------
Withdraw(S) == claimed' = claimed \ UNION {SameRepo(q) : q \in S}

(* projects archive: the row, by a path the inventory lists.                   *)
ArchiveRow(p) ==
  /\ Asked /\ p \in DOMAIN registry
  /\ registry' = Without(registry, {p})
  /\ Withdraw({p})
  /\ UNCHANGED <<here, onDisk, start, plan, orderly, moves, resists>>

Emptied(d, S) == [x \in DataDirs |-> IF x \in S THEN {} ELSE d[x]]
Forgotten(S) == [x \in DataDirs |-> IF x \in S THEN NoOrigin ELSE origin[x]]

Untrack(p) ==
  /\ Asked /\ Exists(p)
  /\ dir' = Emptied(dir, {KeyDir(p)}) /\ origin' = Forgotten({KeyDir(p)})
  /\ UNCHANGED <<here, registry, start, plan, claimed, orderly, moves, resists>>

(* reset --graph: what it removes is exported first, or it refuses.             *)
Reset(p) ==
  /\ Asked /\ p \in here /\ "graph" \in dir[DirOf(p)]
  /\ \E backup \in BOOLEAN :
       dir' = [dir EXCEPT ![DirOf(p)] = (@ \ {"graph"}) \cup
                                        IF backup THEN {"exports"} ELSE {}]
  /\ UNCHANGED <<here, registry, origin, start, plan, claimed, orderly, moves, resists>>

-----------------------------------------------------------------------------
(* prune: each of its passes scans, asks, and removes what the scan had found.  *)
Scan(what, dirs, paths) ==
  /\ plan = NoPlan /\ Asked
  /\ dirs # {} \/ paths # {}
  /\ plan' = [what |-> what, dirs |-> dirs, paths |-> paths]
  /\ orderly' = InOrder
  /\ UNCHANGED <<here, registry, onDisk, start, claimed, moves, resists>>

ScanGhosts ==
  Scan("ghosts", {KeyDir(p) : p \in {p \in Places : Exists(p) /\ Sweepable(p)}}, {})

ScanOrphans ==
  Scan("orphans", {KeyDir(p) : p \in {p \in Places : origin[KeyDir(p)] \notin here \cup {NoOrigin}}},
       DOMAIN registry \ here)

(* A directory of an orphan may resist; nothing is looked at again.             *)
RemovePlanned ==
  /\ plan # NoPlan
  /\ \E S \in SUBSET plan.dirs :
       /\ IF S = plan.dirs THEN UNCHANGED resists ELSE plan.what = "orphans" /\ MayResist
       /\ dir' = Emptied(dir, S) /\ origin' = Forgotten(S)
  /\ registry' = Without(registry, plan.paths)
  /\ Withdraw(plan.paths)
  /\ plan' = NoPlan /\ orderly' = {}
  /\ UNCHANGED <<here, start, moves, asked>>

Decline ==
  /\ plan # NoPlan
  /\ plan' = NoPlan /\ orderly' = {}
  /\ UNCHANGED <<here, registry, onDisk, start, claimed, tallies>>

RGNext ==
  \/ \E p \in Places :
       InitWrites(p) \/ Serve(p) \/ Contact(p) \/ Leave(p) \/ Return(p)
       \/ ArchiveRow(p) \/ Untrack(p) \/ Reset(p)
  \/ InitClaims \/ InitEnds
  \/ ScanGhosts \/ ScanOrphans \/ RemovePlanned \/ Decline
RGSpec == RGInit /\ [][RGNext]_rgvars

-----------------------------------------------------------------------------
(* prune takes no directory that was in good order when it looked: its project  *)
(* on disk, registered, and named in its metadata; nobody having archived the   *)
(* project or, since one row may stand for several clones, a clone of it.       *)
PrunesOnlyTheDeadStep ==
  plan' = NoPlan => \A d \in orderly : dir[d] # {} => dir'[d] # {} \/ plan = NoPlan
PrunesOnlyTheDead == [][PrunesOnlyTheDeadStep]_rgvars
=============================================================================

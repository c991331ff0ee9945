----------------------------- MODULE IdeConfig -----------------------------
(***************************************************************************)
(* The registration of codevira in the configuration files of AI tools      *)
(* (mcp_server/ide_inject.py, register_all.py, `untrack`, `doctor --fix`,   *)
(* `setup` and `init` where they register).  The files belong to the tools, *)
(* which write them too, not always in one step.  Every edit reads a file,  *)
(* changes what it has read, looks again whether the file parses, replaces  *)
(* it and reads it back; no lock is held from one to the next.             *)
(*                                                                         *)
(* "claude" is ~/.claude.json, which has servers for all and for each       *)
(* project; "desktop" and the two files of Antigravity have one flat map.   *)
(***************************************************************************)
EXTENDS Naturals, FiniteSets, FiniteSetsExt

CONSTANTS Callers,               \* processes of codevira
          Key,                   \* Key[p]: codevira-<name of p's directory>
          Requests,              \* the calls: <<"setup" | "init" | "untrack", project>>,
                                 \* <<"register", NoProject>>, <<"fix", NoProject>>
          Others,                \* what else a tool or its user keeps in a file
          BusyFiles,                  \* the files that their tools write meanwhile
          Broken,                \* a file that does not parse at first, with its state
          MaxEdits, MaxToolWrites   \* bounds

Flat == {"desktop", "ag1", "ag2"}
Surfaces == Flat \cup {"claude"}
Bare == "codevira"
NoProject == 0
Top == 0

(* Projects are numbered; what does not parse is known not to.                *)
IdeConfigAssumption ==
  /\ NoProject \notin Callers
  /\ DOMAIN Key \subseteq Nat \ {NoProject} /\ IsFiniteSet(DOMAIN Key)
  /\ Requests \subseteq ({"setup", "init", "untrack"} \X DOMAIN Key)
                         \cup ({"register", "fix"} \X {NoProject})
  /\ Broken \in Surfaces \X {"json", "garbled"}

VARIABLES conf,       \* the files: state, what others wrote, codevira's entries
          call,       \* each caller's call
          since,      \* history: files that others wrote since the call began
          fresh,      \* history: nobody wrote the file since the caller read it
          served,     \* history: projects registered with Claude Code, and not removed
          calls, toolWrites
ivars == <<conf, call, since, fresh, served, calls, toolWrites>>

Server(scope, key, bound) == [scope |-> scope, key |-> key, bound |-> bound]
Blank == [state |-> "json", others |-> {}, reg |-> {}]
NoCall == [op |-> "none", p |-> NoProject, todo |-> {}, at |-> "idle", mem |-> Blank,
           found |-> {}, snap |-> [s \in {"ag1", "ag2"} |-> Blank], written |-> {}]

IInit ==
  /\ conf = [s \in Surfaces |-> [Blank EXCEPT
       !.state = IF s = Broken[1] THEN Broken[2] ELSE "json", !.others = Others,
       !.reg = IF s = "claude" THEN {Server(Top, Bare, NoProject)} ELSE {}]]
  /\ call = [c \in Callers |-> NoCall]
  /\ since = [c \in Callers |-> {}] /\ fresh = [c \in Callers |-> TRUE]
  /\ served = {} /\ calls = 0 /\ toolWrites = 0

(* _read_json_safe: what cannot be parsed or read counts as empty.           *)
Parsed(s) == IF conf[s].state = "json" THEN conf[s] ELSE Blank

(* _registered_paths, _antigravity_registered_paths.                        *)
Found == ({e.scope : e \in Parsed("claude").reg}
            \cup {e.bound : e \in Parsed("ag1").reg \cup Parsed("ag2").reg}) \ {NoProject}

PerProject(ps) == {Server(p, Key[p], p) : p \in ps}
Pinned(ps) == {Server(Top, k, Max({p \in ps : Key[p] = k})) : k \in {Key[p] : p \in ps}}
Dynamic == {Server(Top, Bare, NoProject)}
Bound(reg, p) == {e \in reg : e.bound = p}
(* Set one key of the flat map.                                             *)
WithServer(reg, e) == {x \in reg : <<x.scope, x.key>> # <<e.scope, e.key>>} \cup {e}

(* Mutant: every project's entries are stripped.                             *)
ScopedAlone(reg, p) == PerProject({p})

(* inject_scoped_claude_code.                                               *)
Scoped(reg, p) == {e \in reg : e.scope \notin {Top, p}} \cup PerProject({p})

(* What each call makes of the entries of a file that it has read.           *)
Edited(c, s, reg) ==
  LET p == call[c].p  op == call[c].op IN
  CASE op \in {"setup", "init"} ->
         IF s = "claude" THEN Scoped(reg, p)
         ELSE IF op = "setup" /\ s = "desktop" THEN WithServer(reg, Server(Top, Bare, NoProject))
         ELSE WithServer(reg, Server(Top, Key[p], p))
    [] op = "register" ->
         IF s = "claude" THEN PerProject(call[c].found)
         ELSE IF s = "desktop" THEN Dynamic ELSE Pinned(call[c].found)
    [] op = "untrack" -> reg \ Bound(reg, p)
    [] op = "fix" -> reg \ Dynamic

Plan(op, p) ==
  CASE op = "fix" -> IF Server(Top, Bare, NoProject) \in Parsed("claude").reg THEN {"claude"} ELSE {}
    [] op = "untrack" -> {s \in Surfaces : Bound(Parsed(s).reg, p) # {}}
    [] OTHER -> Surfaces

(* The next of the files that are left: they are done in this order.          *)
First(todo) ==
  CASE "claude" \in todo -> "claude"
    [] "claude" \notin todo /\ "desktop" \in todo -> "desktop"
    [] todo \cap {"claude", "desktop"} = {} /\ "ag1" \in todo -> "ag1"
    [] OTHER -> "ag2"

-----------------------------------------------------------------------------
(* Everybody else's view of a write to s.                                    *)
Wrote(c, s) ==
  /\ since' = [d \in Callers |-> IF d = c \/ call[d] = NoCall THEN since[d] ELSE since[d] \cup {s}]
  /\ fresh' = [d \in Callers |-> fresh[d] /\ ~(d # c /\ call[d].at = "write"
                                                 /\ First(call[d].todo) = s)]

BeginCall(c) ==
  /\ call[c].at = "idle" /\ calls < MaxEdits
  /\ calls' = calls + 1
  /\ \E r \in Requests :
       /\ Plan(r[1], r[2]) # {}
       /\ call' = [call EXCEPT ![c] = [NoCall EXCEPT
                     !.op = r[1], !.p = r[2], !.todo = Plan(r[1], r[2]), !.at = "read",
                     !.found = IF r[1] = "register" THEN Found ELSE {}]]
  /\ since' = [since EXCEPT ![c] = {}]
  /\ UNCHANGED <<conf, fresh, served, toolWrites>>

InPair(c, s) == s \in {"ag1", "ag2"} /\ call[c].op \in {"setup", "init"}

(* The antigravity files are also kept as they are, to be put back.           *)
ReadFile(c) ==
  /\ call[c].at = "read"
  /\ LET s == First(call[c].todo) IN
       call' = [call EXCEPT ![c].at = "write", ![c].mem = Parsed(s),
                  ![c].snap = IF InPair(c, s) THEN [@ EXCEPT ![s] = conf[s]] ELSE @]
  /\ fresh' = [fresh EXCEPT ![c] = TRUE]
  /\ UNCHANGED <<conf, since, served, calls, toolWrites>>

Next1(c) ==
  LET rest == call[c].todo \ {First(call[c].todo)} IN
    IF rest = {} THEN [call EXCEPT ![c] = NoCall]
    ELSE [call EXCEPT ![c].todo = rest, ![c].at = "read", ![c].mem = Blank]

(* A failed file is left out by setup and init, and ends the other calls; when  *)
(* one of Antigravity's fails, the other is put back.                        *)
Failed(c) ==
  LET s == First(call[c].todo) IN
    IF InPair(c, s) THEN call' = [call EXCEPT ![c].at = "rollback"]
    ELSE IF call[c].op \in {"setup", "init"} THEN call' = Next1(c)
    ELSE call' = [call EXCEPT ![c] = NoCall]

(* Mutant: only the reader looks whether the file parses.                     *)
GuardedNot(s) == FALSE

(* _write_json_safe: not over a file that does not parse.                    *)
Guarded(s) == conf[s].state = "garbled"

Served(c, s) ==
  IF s # "claude" THEN served
  ELSE LET now == {e.scope : e \in conf'["claude"].reg} IN
    IF call[c].op \in {"setup", "init"} /\ since[c] = {} /\ \A d \in Callers \ {c} : call[d] = NoCall
    THEN served \cup {call[c].p}
    ELSE IF call[c].op = "untrack" THEN served \ {call[c].p}
    ELSE IF since[c] = {} THEN served ELSE served \cap now

WriteFile(c) ==
  /\ call[c].at = "write"
  /\ LET s == First(call[c].todo)  reg == Edited(c, s, call[c].mem.reg) IN
     IF reg = call[c].mem.reg /\ call[c].op \in {"untrack", "fix"}
     THEN call' = Next1(c) /\ UNCHANGED <<conf, since, fresh, served>>
     ELSE IF Guarded(s) THEN Failed(c) /\ UNCHANGED <<conf, since, fresh, served>>
     ELSE /\ conf' = [conf EXCEPT ![s] = [call[c].mem EXCEPT !.reg = reg]]
          /\ call' = [call EXCEPT ![c].at = "verify", ![c].mem = conf'[s]]
          /\ Wrote(c, s)
          /\ served' = Served(c, s)
  /\ UNCHANGED <<calls, toolWrites>>

(* The file is read back, and must hold what was written.                     *)
Verify(c) ==
  /\ call[c].at = "verify"
  /\ LET s == First(call[c].todo) IN
       IF conf[s] # call[c].mem THEN Failed(c)
       ELSE IF InPair(c, s) /\ call[c].todo # {s}
       THEN call' = [Next1(c) EXCEPT ![c].written = @ \cup {s}]
       ELSE call' = Next1(c)
  /\ UNCHANGED <<conf, since, fresh, served, calls, toolWrites>>

(* What was written is put back as it was; the file that failed is not.        *)
Rollback(c) ==
  /\ call[c].at = "rollback"
  /\ conf' = [s \in Surfaces |-> IF s \in call[c].written THEN call[c].snap[s] ELSE conf[s]]
  /\ IF call[c].written = {} THEN UNCHANGED <<since, fresh>> ELSE Wrote(c, "ag1")
  /\ call' = [call EXCEPT ![c] = NoCall]
  /\ UNCHANGED <<served, calls, toolWrites>>

(* The tool adds or drops something, in one step or in two.                   *)
ToolWrites(s) ==
  /\ toolWrites < MaxToolWrites
  /\ toolWrites' = toolWrites + 1
  /\ conf[s].state = "json" /\ s \in BusyFiles
  /\ \E o \in SUBSET Others, st \in {"json", "garbled"} :
       conf' = [conf EXCEPT ![s].others = o, ![s].state = st]
  /\ conf' # conf /\ Wrote(NoProject, s)
  /\ UNCHANGED <<call, served, calls>>

ToolCompletes(s) ==
  /\ conf[s].state = "garbled"
  /\ conf' = [conf EXCEPT ![s].state = "json"] /\ Wrote(NoProject, s)
  /\ UNCHANGED <<call, served, calls, toolWrites>>

INext ==
  \/ \E c \in Callers : BeginCall(c) \/ ReadFile(c) \/ WriteFile(c) \/ Verify(c) \/ Rollback(c)
  \/ \E s \in Surfaces : ToolWrites(s) \/ ToolCompletes(s)
ISpec == IInit /\ [][INext]_ivars

-----------------------------------------------------------------------------
(* "Only codevira* keys are ever touched": a call that nobody overtook between *)
(* its read and its write leaves everything else in the file, also when the    *)
(* file does not parse.                                                       *)
OthersKeptStep ==
  \A c \in DOMAIN call, s \in Surfaces :
    call[c].at = "write" /\ First(call[c].todo) = s /\ fresh[c] /\ call'[c] # call[c]
      => conf[s].others = conf'[s].others
OthersKept == [][OthersKeptStep]_ivars

(* A project that was registered with Claude Code while nothing else ran keeps  *)
(* its own entry, and no entry for all outranks it, through whatever calls and  *)
(* failures follow, until it is untracked or a call is disturbed.            *)
StaysServed ==
  \A p \in served : \E e \in conf["claude"].reg : e.scope = p /\ e.bound = p
=============================================================================

--------------------------- MODULE ImportResolution ---------------------------
(* Which file an import means (indexer/imports.py): what CodeIndex takes as       *)
(* given.  A process remembers, for as long as it lives, which top-level names   *)
(* are the project's own and what tsconfig.json says, while files and            *)
(* tsconfig.json change under it.  A path is a sequence of names; a file is a     *)
(* path and a form: "py" is path.py, "init" path/__init__.py, "index" path/index.ts. *)
(* Directories of Go files, symbolic links and suffixes of aliases are left out.  *)
EXTENDS Naturals, Sequences, SequencesExt

CONSTANTS
  Sources,    \* the files that there may be
  Layouts,    \* sets of files to begin with
  Watched,    \* watched_dirs of config.yaml
  Skipped,    \* _NON_PACKAGE_DIRS
  Forms,      \* what a TypeScript path may stand for, in the order of looking
  Configs,    \* contents of tsconfig.json: base, and pairs of prefix and target
  PyImports, TsImports,   \* the imports asked for: see Python, TypeScript
  MaxChanges

VARIABLES
  files, config,
  cache,      \* what the process remembers, packages and config: <<it>>, or <<>>
  reply,      \* the last import resolved, and its file
  changes

mvars == <<files, config, cache, reply, changes>>

Unread == [packages |-> <<>>, config |-> <<>>]
NoReply == [lang |-> "none", import |-> <<>>, from |-> <<>>, file |-> <<>>]
None == <<>>

IsDir(path) ==
  \/ path = <<>>
  \/ \E x \in files : \/ IsStrictPrefix(path, x[1])
                      \/ x[1] = path /\ x[2] \in {"init", "index"}

(* _project_packages: configured, or a directory with Python files in it.       *)
Packages ==
  Watched \cup
    ({x[1][1] : x \in {y \in files : \/ y[2] = "init" /\ Len(y[1]) = 1
                                     \/ y[2] = "py" /\ Len(y[1]) = 2}} \ Skipped)

-----------------------------------------------------------------------------
(* Mutant: a module hides the package of its name.                             *)
ModuleFirst(parts, packages) ==
  IF parts = <<>> \/ Head(parts) \notin packages THEN None
  ELSE IF <<parts, "py">> \in files THEN <<parts, "py">>
  ELSE IF <<parts, "init">> \in files THEN <<parts, "init">>
  ELSE IF IsDir(Front(parts)) THEN <<parts, "py">> ELSE None

(* _module_to_path: the package, else the module, which need not be there as long *)
(* as its directory is.                                                       *)
ModuleToPath(parts, packages) ==
  IF parts = <<>> \/ Head(parts) \notin packages THEN None
  ELSE IF <<parts, "init">> \in files THEN <<parts, "init">>
  ELSE IF <<parts, "py">> \in files \/ IsDir(Front(parts)) THEN <<parts, "py">>
  ELSE None

Parts(file) == IF file[2] \in {"init", "index"} THEN Append(file[1], file[2]) ELSE file[1]

(* The directory that `level` dots in a file stand for; the root if too many.     *)
UpFrom(file, level) ==
  IF level < Len(Parts(file)) THEN SubSeq(Parts(file), 1, Len(Parts(file)) - level) ELSE <<>>

Absolute(import, from) ==
  IF import.level = 0 THEN import.parts ELSE UpFrom(from, import.level) \o import.parts

Python(import, from, packages) == ModuleToPath(Absolute(import, from), packages)

(* _probe_ts_file.                                                             *)
Probe(path) ==
  LET hits == {i \in DOMAIN Forms : <<path, Forms[i]>> \in files} IN
  IF hits = {} THEN None ELSE <<path, Forms[CHOOSE i \in hits : \A j \in hits : i <= j]>>

Drop(parts, n) == SubSeq(parts, n + 1, Len(parts))

Targets(parts, cfg) ==
  LET matching == SelectSeq(cfg.alias, LAMBDA a : IsPrefix(a[1], parts)) IN
  [i \in DOMAIN matching |-> cfg.base \o matching[i][2] \o Drop(parts, Len(matching[i][1]))]

(* Mutant: the path as it stands comes first.                                   *)
LiteralFirst(parts, cfg) ==
  <<parts>> \o Targets(parts, cfg) \o (IF cfg.base = <<>> THEN <<>> ELSE <<cfg.base \o parts>>)

(* _expand_alias, baseUrl and the path as it stands, in this order.              *)
Candidates(parts, cfg) ==
  Targets(parts, cfg) \o (IF cfg.base = <<>> THEN <<>> ELSE <<cfg.base \o parts>>) \o <<parts>>

Index(dir) == IF <<dir, "index">> \in files THEN <<dir, "index">> ELSE None

(* _resolve_ts_import: dots are taken from the directory of the file, and lead out *)
(* of the project if they are too many; "." alone is looked for as a name too.    *)
TypeScript(import, from, cfg) ==
  IF import.level > Len(Parts(from)) THEN None
  ELSE IF import.level > 1 /\ import.parts = <<>> THEN Index(UpFrom(from, import.level))
  ELSE IF import.level > 0 THEN Probe(UpFrom(from, import.level) \o import.parts)
  ELSE LET found == SelectSeq(Candidates(import.parts, cfg), LAMBDA p : Probe(p) # None) IN
       IF found = <<>> THEN None ELSE Probe(Head(found))

-----------------------------------------------------------------------------
MInit ==
  /\ files \in Layouts /\ config \in Configs
  /\ cache = Unread
  /\ reply = NoReply /\ changes = 0

Known(kind, now) == IF cache[kind] = <<>> THEN <<now>> ELSE cache[kind]

(* extract_imports, one import; the first one of a language fills the cache.       *)
AskPython ==
  /\ reply = NoReply
  /\ \E from \in {x \in files : x[2] \in {"py", "init"}}, import \in PyImports :
       /\ cache' = [cache EXCEPT !.packages = Known("packages", Packages)]
       /\ reply' = [lang |-> "py", import |-> import, from |-> from,
                    file |-> Python(import, from, cache'.packages[1])]
       /\ UNCHANGED <<files, config, changes>>

AskTypeScript ==
  /\ reply = NoReply
  /\ \E from \in {x \in files : x[2] \notin {"py", "init"}}, import \in TsImports :
       /\ cache' = [cache EXCEPT !.config = IF import.level > 0 THEN @
                                          ELSE Known("config", config)]
       /\ reply' = [lang |-> "ts", import |-> import, from |-> from,
                    file |-> TypeScript(import, from, IF import.level > 0 THEN config
                                                   ELSE cache'.config[1])]
       /\ UNCHANGED <<files, config, changes>>

Change ==
  /\ changes < MaxChanges /\ changes' = changes + 1
  /\ \/ /\ \E x \in Sources : files' = IF x \in files THEN files \ {x} ELSE files \cup {x}
        /\ UNCHANGED config
     \/ config' \in Configs \ {config} /\ UNCHANGED files
  /\ reply' = NoReply
  /\ UNCHANGED cache

Done ==
  /\ reply # NoReply /\ reply' = NoReply
  /\ UNCHANGED <<files, config, cache, changes>>

Restart ==
  /\ cache' = Unread
  /\ reply' = NoReply
  /\ UNCHANGED <<files, config, changes>>

MNext == AskPython \/ AskTypeScript \/ Done \/ Change \/ Restart
MSpec == MInit /\ [][MNext]_mvars

-----------------------------------------------------------------------------
(* What Python makes of a name, with the project's root on its path: a package    *)
(* goes before a module, a module before a directory without __init__.py, and    *)
(* a module has nothing below it.                                            *)
Below(parts) ==
  \A n \in 1 .. Len(parts) - 1 :
    LET p == SubSeq(parts, 1, n) IN
    <<p, "init">> \in files \/ (<<p, "py">> \notin files /\ IsDir(p))

Means(parts) ==
  IF parts = <<>> \/ ~Below(parts) THEN None
  ELSE IF <<parts, "init">> \in files THEN <<parts, "init">>
  ELSE IF <<parts, "py">> \in files THEN <<parts, "py">> ELSE None

(* An import of Python is linked to the file that Python would load, if its first *)
(* name was the project's own when the process first looked; and a link to       *)
(* another file comes of too many dots, or of a module beside the directory of its *)
(* name.                                                                     *)
PythonLinks ==
  reply.lang = "py" =>
    LET parts == Absolute(reply.import, reply.from) IN
    /\ Means(parts) # None /\ Head(parts) \in cache.packages[1] => reply.file = Means(parts)
    /\ reply.file \in files => reply.file = Means(parts) \/ ~Below(parts)

(* What TypeScript makes of it: the alias with the longest prefix, or else the    *)
(* base; dots alone are a directory.                                          *)
Longest(aliases) ==
  CHOOSE a \in ToSet(aliases) : \A b \in ToSet(aliases) : Len(b[1]) <= Len(a[1])

TsMeans(import, from, cfg) ==
  LET matching == SelectSeq(cfg.alias, LAMBDA a : IsPrefix(a[1], import.parts))
      dots == UpFrom(from, import.level) IN
  IF import.level > Len(Parts(from)) THEN None
  ELSE IF import.level > 0 THEN
    IF import.parts # <<>> THEN Probe(dots \o import.parts) ELSE Index(dots)
  ELSE IF matching # <<>> THEN
    Probe(cfg.base \o Longest(matching)[2] \o Drop(import.parts, Len(Longest(matching)[1])))
  ELSE IF cfg.base # <<>> THEN Probe(cfg.base \o import.parts) ELSE None

(* An import that TypeScript resolves is linked, if tsconfig.json is as the process *)
(* first read it: to the same file, unless another alias comes before the one     *)
(* that is closest, or a file beside the directory has the name that "." stands for. *)
TypeScriptLinks ==
  LET import == reply.import
      means == TsMeans(import, reply.from, config) IN
  reply.lang = "ts" /\ (import.level > 0 \/ cache.config = <<config>>) /\ means # None =>
    /\ reply.file # None
    /\ \/ reply.file = means
       \/ import.level = 1 /\ import.parts = <<>>
       \/ import.level = 0 /\ Len(SelectSeq(config.alias, LAMBDA a : IsPrefix(a[1], import.parts))) > 1
=============================================================================

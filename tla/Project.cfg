CONSTANTS
  Components = {"roadmap", "roadmap-read", "index", "index-fails", "tools",
                "tool-writes", "install", "hooks", "turns", "fixes", "starts",
                "transfer", "contact", "registry", "binding", "imports", "playbooks"}
  a = a  b = b  f = f  g = g
  Writers = {1, 2}  Readers = {}  Phases = {1, 2, 3}  MaxCalls = 6
  Sites = {1, 2}  Events = {"SessionStart", "Stop"}  MaxRuns = 4  MaxHitches = 1
  Sessions = {a, b}  MaxMisses = 1
  Procs = {a, b}  Files = {"f", "g"}  Joined = "f+g"  Window = 2
  Changes <- MCChanges  MaxCommits = 3  MaxScanFaults = 1  MaxScans = 2
  Projects = {1, 2}  Home = 1  Folders = {1, 2}  SameRemote = FALSE  Seed <- MCSeed
  MaxStops = 1  MaxErrors = 1  MaxCommands = 1
  Places = {"p", "q"}  Remote <- MCRemote  NoRemote = "-"
  MaxMoves = 1  MaxAsked = 3  MaxResists = 1
  Callers = {a, b}  Key <- MCKey  Requests <- MCRequests  Others = {"u"}
  BusyFiles = {}  Broken <- MCBroken  MaxEdits = 2  MaxToolWrites = 0
  Editors = {a, b}  Symbols = {"A", "B"}  Words = {"v", "w"}  NoSymbol = "none"
  Decisions = {1, 2}  SymbolOf <- MCSymbolOf  WordsOf <- MCWordsOf  FixWords = {{"w"}}
  ManyCallers = TRUE  LockLimit = 1  MinShared = 2  Texts <- MCTexts
  MaxLines = 3  MaxAttempts = 2  MaxRaised = 1
  Directories = {"home", "projects", "repo", "src", "other"}  Up <- MCUp  Refused = {"home"}
  Marks <- MCTrees  StartDirs = {"src", "other"}  Paths = {"src", "other"}
  Workspaces <- MCWorkspaces  Modes = {"workspace", "desktop", "http", "pinned"}
  Tasks = {a, b}  MaxRequests = 3  MaxInits = 1
  Servers = {1, 2}  RootOf <- MCRootOf  Worlds <- MCWorlds  MaxAppends = 3  MaxDeaths = 1
SYMMETRY MCSymmetry
SPECIFICATION MCSpec
INVARIANTS NothingForgotten   HooksResolve TurnsEnd
INVARIANTS  NothingStranded  
 
PROPERTIES   PrunesOnlyTheDead
CHECK_DEADLOCK FALSE

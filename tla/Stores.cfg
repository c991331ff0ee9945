CONSTANTS
  Components = {"undo", "derived", "reconcile", "agents", "working", "skills", "advice",
                "prompts", "induction"}
  decisions = decisions  skills = skills
  Users = {u1, u2}
  File = {decisions, skills}
  Home <- MCHome
  Procs = {p1, p2}
  Decisions = {1, 2}
  Tagged = {1}
  MaxLines = 2
  MaxClock = 2
  MaxFails = 1
  MaxSnapshots = 2
  Faults = {"out"}
  MaxLine = 3
  MaxSeed = 2
  MaxCalls = 2
  MaxCrashes = 1
  Clients = {"u", "o"}
  Observer = "o"
  Sessions <- MCSessions
  MaxFailures = 2
  MaxSkills = 2
  MaxSkillCalls = 3
  MaxHeads = 1
  Workers = {w1, w2}
  WorkSessions = {"s"}
  Threshold = 2
  MaxRows = 2
  MaxObs = 2
  MaxPromos = 2
  MaxKills = 1
  MaxArchived = 1
  Agents = {1, 2}
  Tasks <- MCAsked
  Negations = {9}
  Texts <- MCTexts
  Citing <- MCCiting
  MaxRecords = 4
  MaxCites = 1
  Shared = {"AGENTS.md"}
  Owned = {"codevira.mdc"}
  UserPieces <- MCUserPieces
  MaxPieces = 2
  MaxRev = 2
  Cap = 5120
  Margin = 128
  FixedBytes = 4600
  LineSizes = {60, 440}
  MaxLocked = 1
  MaxOpen = 2
  Prefix = {6}
  Seeds <- MCSeeds
  Limit = 2
  BriefSize = 2
  MaxDecisions = 3
  MaxWrites = 3
SPECIFICATION MCSpec
VIEW MCView
INVARIANTS NothingDestroyed UndoRestores 
INVARIANTS  ClustersAreChains
 
INVARIANTS PromotionsHold
INVARIANTS OnlyOverlapsRevive  AnswersStand
PROPERTY TwinsGiveWay
CHECK_DEADLOCK FALSE

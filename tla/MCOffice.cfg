SPECIFICATION Spec
CONSTANTS
  ann = ann
  bob = bob
  cli = cli
  bot = bot
  d1 = d1
  d2 = d2
  p1 = p1
  p2 = p2
  o1 = o1
  Ids = {1, 2}
  Requests <- MCRequests
  Runs = {1, 2}
  Threads <- Two
  RepoOf <- MCRepoOf
  MaxRunUnits <- MCMaxRunUnits
  Teams = {"blue"}
  InitialTeam <- MCInitialTeam
  TurnUnits = 1
  MaxTime = 1
  MaxTurns = 3
  MaxMoves = 1
  MaxDowns = 1
  Sessions <- MCSessions
  Processes = {"serve", "cli"}
  ProcessOf <- MCProcessOf
  Installed = {"fresh", "legacy", "unchained"}
  MaxEvents = 3
  MaxDays = 1
  MaxPurges = 2
  MaxStops = 1
  ProposalIds = {1}
  RuleIds = {1}
  People <- MCPeople
  Agents = {bot}
  RoleOf <- MCRoleOf
  Rank <- MCRank
  Custom = {"senior"}
  Owners = {ann, bob}
  Layer = "lead"
  Chains <- MCChains
  NewRules <- MCRules
  Moves <- MCMoves
  MaxRequests = 2
  MaxResubmits = 1
  MaxRuleMoves = 1
  MaxHalts = 1
  Clerks <- Two
  PolicyIds = {1, 2, 3, 4}
  Drafts <- MCDrafts
  Artifacts <- MCArtifacts
  Titles = {"testing"}
  Questions <- MCQuestions
  MaxDeletes = 2
  MaxCuts = 1
  Persons = {ann, bob}
  Handles = {"bot"}
  Permissions = {"manage:users", "approve:code"}
  Presets0 <- MCPresets
  Builtin = {"admin", "developer"}
  Bundles <- MCBundles
  Devices = {d1, d2}
  HandleOf <- MCHandleOf
  Pollers <- Pair
  MaxVisits = 2
  MaxChanges = 1
  MaxKeys = 3
  MaxFalls = 1
  Desks = {ann, bob}
  Integrations = {"hub1", "hub2"}
  KindOf <- MCKindOf
  Tickets = {"web#1", "api#1"}
  KeyOf <- MCKeyOf
  TicketsOf <- MCTicketsOf
  Configured <- MCConfigured
  Places = {"web"}
  Workflows = {"ship-a-ticket"}
  Names = {"", "gone"}
  MaxItems = 2
  MaxSettings = 1
  MaxOutages = 1
  Repos = {1, 2}
  Intervals <- MCIntervals
  HostOf <- MCHostOf
  MaxHours = 2
  MaxJobs = 2
  MaxRetimings = 2
  MaxFailures = 1
  Openers = {o1}
  Installs <- MCInstalls
  Targets = {4, 17, 30}
  MaxOpens = 3
  MaxKills = 1
SYMMETRY Alike
CHECK_DEADLOCK FALSE
INVARIANTS
  TypesOK
  UsedIsWhatWasCharged
  BurnBounded
  RunCeilingHolds
  ChainVerifies
  ReceiptsCoverWhatIsGone
  SignedByItsChain
  AppliedOnce
  DemotionsAreSigned
  RecordsTellThePolicies
  PacksAreWhole
  TheHighestLockDecides
  SomebodyManagesUsers
  TokensAreCollectedOnce
  TakenInOnce
  IngestsKeepTheirPace
  VersionTellsTheSchema

SPECIFICATION ProposalsSpec
CONSTANTS
  ann = ann
  bob = bob
  ProposalIds = {1}
  RuleIds = {1}
  People <- MCPeople
  Agents = {}
  RoleOf <- MCRoleOf
  Rank <- MCRank
  Custom = {}
  Owners = {ann, bob}
  Layer = "lead"
  Chains <- MCChains
  NewRules <- MCRules
  Moves <- MCMoves
  MaxRequests = 1
  MaxResubmits = 0
  MaxRuleMoves = 1
  MaxHalts = 0
SYMMETRY Alike
CHECK_DEADLOCK FALSE
INVARIANT NothingOnlyLooksEnforced

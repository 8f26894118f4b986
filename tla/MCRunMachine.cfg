SPECIFICATION Spec
CONSTANTS
  Sections <- MCSections
  Pipelines <- AllPipelines
  OptIns <- MCOptIns
  Skips <- MCSkips
  Asked = {"prose"}
  Shapes = {"prose"}
  Complaints = {"lint", "tests"}
  Forges = {"local", "remote"}
  Rank <- MCRank
  MaxComments = 1
INVARIANTS
  TypeOK
  RevisionsBounded
  RefusalsCounted
  NoRefusalRepeated
  ShippedWorkWasChecked
PROPERTIES
  ComesToRest
  LifecycleSpec
  EveryStepGoesOn

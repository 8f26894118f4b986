SPECIFICATION Spec
CONSTANTS
  Sections = {"spec", "work"}
  Complaints = {"lint"}
  Graph <- Small
  Runs = {1, 2}
  Workers = {"w1", "w2"}
  Advancers = {}
  Owners = {"ana"}
  OwnerOf <- OnesRuns
  Teams = {"ours"}
  Cap <- CapOne
  SlowTurns = FALSE
  MaxCrashes = 1
  MaxApprovals = 1
INVARIANTS
  TypeOK
  OneAtATime
  CapRespected
  ResultsLandWhereTheyWereMade
  NobodyRaises
PROPERTIES
  StepsAreWhole
  LifecycleSpec
  EveryRunComesToRest

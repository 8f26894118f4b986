SPECIFICATION Spec
CONSTANTS
  Sections = {"spec", "work"}
  Complaints = {"lint"}
  Graph <- Small
  Runs = {1}
  Workers = {"w1"}
  Advancers = {"api"}
  Owners = {"ana"}
  OwnerOf <- OnesRuns
  Teams = {"ours"}
  Cap <- CapOne
  SlowTurns = FALSE
  MaxCrashes = 0
  MaxApprovals = 1
INVARIANT ResultsLandWhereTheyWereMade

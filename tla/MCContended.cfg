SPECIFICATION Spec
CONSTANTS
  Sections = {"spec", "work"}
  Complaints = {"lint"}
  Graph <- Shelved
  Runs = {1}
  Workers = {"w1"}
  Advancers = {"api"}
  Owners = {"ana"}
  OwnerOf <- OnesRuns
  Teams = {"ours"}
  Cap <- CapOne
  SlowTurns = TRUE
  MaxCrashes = 1
  MaxApprovals = 1
INVARIANTS
  RevisionsBounded
PROPERTY ApprovalsLast

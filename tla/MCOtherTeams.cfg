SPECIFICATION Spec
CONSTANTS
  Sections = {"spec", "work"}
  Complaints = {"lint"}
  Graph <- Small
  Runs = {1, 2, 3}
  Workers = {"w1", "w2"}
  Advancers = {}
  Owners = {"ana", "ben"}
  OwnerOf <- TwoTeamsRuns
  Teams = {"ours", "theirs"}
  Cap <- CapOne
  SlowTurns = FALSE
  MaxCrashes = 0
  MaxApprovals = 1
PROPERTY OtherTeamsGoThrough

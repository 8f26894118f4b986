SPECIFICATION Spec
CONSTANTS
  Sections <- MCSections
  Pipelines <- StrictOnly
  OptIns <- NoneSet
  Skips <- NoneSet
  Asked = {"prose"}
  Shapes = {"prose", "headed"}
  Complaints = {"lint"}
  Forges = {"remote"}
  Rank <- MCRank
  MaxComments = 0
INVARIANT ShippedWorkWasChecked

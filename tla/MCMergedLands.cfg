SPECIFICATION Spec
CONSTANTS
  Sections <- MCSections
  Pipelines <- ShipOnly
  OptIns <- NoneSet
  Skips <- NoneSet
  Asked = {"prose"}
  Shapes = {"prose"}
  Complaints = {"lint"}
  Forges = {"remote"}
  Rank <- MCRank
  MaxComments = 0
PROPERTY MergedRequestLands

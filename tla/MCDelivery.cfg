SPECIFICATION Spec
CONSTANTS
  Sections = {"spec", "work", "workspace", "commit"}
  Complaints = {"lint"}
  Graph <- Checked
  RunEdits = {"fix", "file"}
  CheckEdits = {"patch"}
  SetupEdits = {"lock"}
  NewFiles = {"file", "patch", "lock"}
  Forbidden = {"file"}
  CrashAt = {"created", "snapshot", "gated", "committed", "opened", "back"}
  MaxCrashes = 2
  MaxComments = 1
  MaxUnheard = 1
INVARIANTS
  TypeOK
  NothingForbiddenIsPushed
  PeopleSeeWhatWasCommitted
PROPERTIES
  CommitsWhatWasBuilt
  DoesTheWorkOnce

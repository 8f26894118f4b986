SPECIFICATION Spec
CONSTANTS
  Sections = {"spec", "plan", "work", "proof", "review", "workspace", "commit"}
  Complaints = {"lint"}
  Graph <- QuickFix
  RunEdits = {"fix", "file"}
  CheckEdits = {}
  SetupEdits = {}
  NewFiles = {"file"}
  Forbidden = {"file"}
  CrashAt = {}
  MaxCrashes = 0
  MaxComments = 0
  MaxUnheard = 0
INVARIANT NothingForbiddenIsPushed

SPECIFICATION Spec
CONSTANTS
  Drafts = {"intent", "result"}
  Once = {"result"}
  Checkpoint = "checkpoint"
  MaxPerSegment = 2
  Limit = 2
  Wanted = {"intent", "result"}
  MaxLines = 6
  MaxLosses = 1
INVARIANTS TypeOK CrashIsRecoverable
PROPERTIES PagesAreExact NothingConfirmedIsLost ImplementsAuditLog

CONSTANTS
  Emails = {"a"}
  Slugs = {"s"}
  NoName = "none"
  MaxJobs = 1
SPECIFICATION AloneSpec
INVARIANT MailUndoesNothing
CHECK_DEADLOCK FALSE

SPECIFICATION NotionSpec
CONSTANTS
  None = None
  NotionPlans <- ReadsOnly
INVARIANTS RotatedIsNotReused
CHECK_DEADLOCK FALSE

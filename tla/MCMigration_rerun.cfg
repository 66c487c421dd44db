\* An older history is imported, upgraded by the local server and imported again.
SPECIFICATION MigrationSpec
CONSTANTS
  None = None  desk = desk
  Sources = {desk}
  BrainRecords = {}
  BackupFiles = {}
  MovePlans <- Preserved
INVARIANTS RerunsAddNoDuplicate
CHECK_DEADLOCK FALSE

SPECIFICATION MCSpec
CONSTANTS
  r1 = r1  r2 = r2  w1 = w1  d1 = d1  d2 = d2  c1 = c1  c2 = c2
  export = export  None = None  Broken = Broken
  req = req  call = call  o1 = o1  o3 = o3  s1 = s1  s3 = s3  requests = requests  counters = counters
  top = top  child = child  spec = spec  here = here
  Repos = {r1, r2}
  Unnamed = {r2}
  Workspaces = {w1}
  Dashboards = {d1, d2}
  Credentials = {c1, c2}
  Requests = {export}
  Hooks = {}
  Body <- WorkspaceExport
  Policies <- Steady
  Rules <- OpenRules
  MaxQueueEntries = 2
  MaxQueueAge = 0
  PolicyCacheAge = 1
  MaxAttempts = 1
  MaxFiles = 2
  MaxEdits = 1
  MaxCrashes = 1
  MaxFaults = 1
PROPERTIES EverythingIsHandled MemorySettles
CHECK_DEADLOCK FALSE

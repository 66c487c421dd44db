SPECIFICATION MCSpec
CONSTANTS
  r1 = r1  r2 = r2  w1 = w1  d1 = d1  d2 = d2  c1 = c1  c2 = c2
  hook = hook  export = export  resend = resend
  k1 = k1  k2 = k2  checkout = checkout  folder = folder  elsewhere = elsewhere
  setupA = setupA  setupB = setupB  proxy = proxy  otel = otel
  None = None  Broken = Broken
  Repos = {r1, r2}
  Unnamed = {r2}
  Workspaces = {w1}
  Dashboards = {d1, d2}
  Credentials = {c1, c2}
  Requests = {hook, export, resend}
  Hooks = {hook}
  Body <- Work
  Policies <- Bindings
  Rules <- EditedRules
  MaxQueueEntries = 2
  MaxQueueAge = 0
  PolicyCacheAge = 1
  MaxAttempts = 2
  MaxFiles = 3
  MaxEdits = 2
  MaxCrashes = 1
  MaxFaults = 1
  Files <- SettingsFiles
  Edits = {proxy, otel}
  Unmanaged = {otel}
  Options = {d1, d2}
  Installers = {setupA, setupB}
  MaxSettings = 1
  MaxKills = 1
  Keys = {k1, k2}
  Dirs = {checkout, elsewhere, folder}
  Repositories = {r1, r2}
  Origins = {d1, d2}
  MaxSessions = 1
  Lifetime = 1
  MaxTime = 2
  Trees <- MCTrees
  Selections <- MCSelections
  TablePlans <- MCTablePlans
INVARIANTS 
  TypeOK QueueMirrorsDirectory CredentialKept AckedIsKept OutboxHolds SessionsHold RecordsHold
PROPERTIES 
  ImplementsDelivery PostedOnlyWhenSelected EditsAreKept
CHECK_DEADLOCK FALSE

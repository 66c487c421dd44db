SPECIFICATION MCSpec
CONSTANTS
  None = None
  MaxRuns = 2
  MaxRounds = 1
  AgentPlans <- MCAgentPlans
  Callers = {callerA, callerB}
  Urls = {urlA, urlB}
  Revisions = {commitA}
  Directories <- MCDirectories
  CacheBudgets <- MCCacheBudgets
  NotionPlans <- MCNotionPlans
  Models = {modelA, modelB}
  MaxModels = 2
  MaxAttempts = 2
  PricePlans <- MCPricePlans
  Servers = {serverA, serverB}
  Records = {recordA, recordB}
  StoragePlans <- MCStoragePlans
  Datasets = {dataA, dataB}
  CogneePlans <- MCCogneePlans
  Captures = {pageA, pageB, pageC}
  Concepts <- MCConcepts
  Relations <- MCRelations
  Memories <- MCMemories
  Snapshots <- MCSnapshots
  MaxGraphNodes = 5
  MaxGraphEdges = 8
  MaxChanges = 2
  Nobody = Nobody
  Partial = Partial
  Deleted = Deleted
  callerA = callerA
  callerB = callerB
  urlA = urlA
  urlB = urlB
  commitA = commitA
  modelA = modelA
  modelB = modelB
  serverA = serverA
  serverB = serverB
  recordA = recordA
  recordB = recordB
  dataA = dataA
  dataB = dataB
  pageA = pageA
  pageB = pageB
  pageC = pageC
INVARIANTS 
  TypeOK EvidenceIsExact CloneIsOwned GrantsHold CommitsHold IndexHolds GraphHolds
PROPERTIES 
  AnalysesHold EditsWin WorkEnds
CHECK_DEADLOCK FALSE

SPECIFICATION MCSpec
CONSTANTS
  None = None
  Accounts = {anna, bert}
  TeamIds = {team1, team2}
  TeamNames = {red, blue}
  Tokens = {token}
  AccessPlans <- MCAccessPlans
  Repositories = {repo1, repo2}
  Projects = {project1, project2, project3}
  Github = {hubA, hubB}
  Remotes = {hubA, hubB, elsewhere}
  MaxProjects = 3
  RegistryPlans <- MCRegistryPlans
  Apps = {appA, appB, appC}
  MaxFailures = 2
  Paths = {1, 2, 3}
  Contents = {1, 2, 3, 4}
  Refused = {4}
  Minimized <- MCMinimized
  Absent = None
  MaxFiles = 2
  SubmissionPlans <- MCSubmissionPlans
  Sources = {desk, laptop}
  BrainRecords = {rec1, rec2}
  BackupFiles = {file1, file2}
  MovePlans <- MCMovePlans
  MaxConnections = 2
  MaxChanges = 2
  Recent = 1
  MaxEvents = 2
  MaxTokens = 1
  Analyses = {1, 2, 3}
  PagePlans <- MCPagePlans
  PollPlans <- MCPollPlans
  Documents = {doc1, doc2}
  QueryPlans <- MCQueryPlans
  anna = anna
  bert = bert
  team1 = team1
  team2 = team2
  red = red
  blue = blue
  token = token
  repo1 = repo1
  repo2 = repo2
  project1 = project1
  project2 = project2
  project3 = project3
  hubA = hubA
  hubB = hubB
  elsewhere = elsewhere
  main = main
  child = child
  appA = appA
  appB = appB
  appC = appC
  person = person
  session1 = session1
  session2 = session2
  desk = desk
  laptop = laptop
  rec1 = rec1
  rec2 = rec2
  file1 = file1
  file2 = file2
  doc1 = doc1
  doc2 = doc2
INVARIANTS 
  TypeOK HistoryIsShared ReportsAgree ReviewedIsTheMoment
PROPERTIES 
  AccessHolds ProjectsHold BoardHolds WorkEnds PagesAdvance MovesKeep
CHECK_DEADLOCK FALSE

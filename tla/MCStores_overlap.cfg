\* Two syncs of one agent overlap, fail and crash; two processes write to one
\* memory file, one workspace, one table of links; two tasks of two processes
\* ask for approvals; two updates of one setting.
CONSTANTS
  a1 = a1
  Order <- OneAgent
  Runs = {p1, p2}
  Resolutions = {"orqenix-wins", "opencode-wins", "prompt"}
  Faults = TRUE
  MaxVersion = 1
  MaxEdits = 2
  MaxTime = 1
  Engines = {p1, p2}
  Contents = {big}
  Large = {big}
  Branches = {b1, b2}
  Root = b1
  Tiers = {"T1", "T2"}
  MaxRows = 3
  MaxOperations = 3
  Projects = {j1, j2}
  Processes = {p1, p2}
  Tasks = {t1, t2}
  PermissionTtl = 1
  ResultTtl = 2
  MaxFedTime = 4
  MaxTasks = 2
  Scopes = {here, other, third}
  here = here
  Local = here
  Writers = {p1, p2}
  MaxWrites = 4
  Remotes = {there, away}
  there = there
  ListLimit = 2
  MaxLinks = 3
  Values = {"v1", "v2"}
  Permits = "project"
  Updates = {p1, p2}
  MaxUpdates = 3
  Levels <- ThreeLevels
SPECIFICATION MCSpec
SYMMETRY Symmetry
INVARIANTS  OwnOutputsRecognised StoreAccounted
  AnswersFollowApprovals OwnershipHolds LinksAccounted 
CHECK_DEADLOCK FALSE

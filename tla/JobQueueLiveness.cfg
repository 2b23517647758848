SPECIFICATION FairSpec
CONSTANTS
  j1 = j1
  j2 = j2
  u1 = u1
  u2 = u2
  c1 = c1
  c2 = c2
  c3 = c3
  c4 = c4
  s1 = s1
  s2 = s2
  Users = {u1}
  None = None
  PreviewTtl = 1
  SecondWindow = 3
  PendingTtl = 0
  ActiveTtl = 2
  MaxStalled = 1
  ColumnWidth = 20
  LastCreate = 0
  MaxTime = 3
  Jobs = {j1, j2}
  Previewed = {j1}
  PolicyAnswers = {TRUE, FALSE}
  Calls = {c1, c2}
  Slots = {s1}
  Attempts = 3
  MaxCrashes = 2
  StoreMayFail = TRUE
  PromptCalls = TRUE
PROPERTIES AcceptedFinishes EveryRowCloses
CHECK_DEADLOCK FALSE

SPECIFICATION Spec
CONSTANTS
  j1 = j1
  j2 = j2
  u1 = u1
  u2 = u2
  c1 = c1
  c2 = c2
  c3 = c3
  c4 = c4
  s1 = s1
  s2 = s2
  Users = {u1, u2}
  None = None
  PreviewTtl = 1
  SecondWindow = 3
  PendingTtl = 0
  ActiveTtl = 2
  MaxStalled = 1
  ColumnWidth = 20
  LastCreate = 0
  MaxTime = 4
  Jobs = {j1}
  Previewed = {j1}
  PolicyAnswers = {TRUE}
  Calls = {c1, c2}
  Slots = {s1}
  Attempts = 3
  MaxCrashes = 0
  StoreMayFail = FALSE
  PromptCalls = TRUE
PROPERTY FirstApprovalStored
CHECK_DEADLOCK FALSE

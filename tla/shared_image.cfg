SPECIFICATION Spec
CONSTANTS
  a = a
  b = b
  t = t
  v1 = v1
  v2 = v2
  NoImage = NoImage
  NoName = NoName
  TagOf <- MCTagOf
  Names = {a, b}
  Tags = {t}
  Images = {v1, v2}
  InitImage = v1
  Checked = {a}
  Flaky = {v2}
  MaxPublish = 1
  Passes = {p1, p2}
  Self = {}
  Skipped = {}
  NotifyOnly = {}
  RollbackOn = {a}
  CleanupOn = {a, b}
  IncludeStopped = TRUE
  MaxFaults = 0
  Cron = FALSE
  API = TRUE
  MayStop = FALSE
  Operator = FALSE
INVARIANTS
  RollbackTargetKept

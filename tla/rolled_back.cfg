SPECIFICATION FairSpec
CONSTANTS
  a = a
  b = b
  t = t
  v1 = v1
  v2 = v2
  NoImage = NoImage
  NoName = NoName
  TagOf <- MCTagOf
  Names = {a}
  Tags = {t}
  Images = {v1, v2, v3}
  InitImage = v1
  Checked = {a}
  Flaky = {v2}
  MaxPublish = 2
  Passes = {p1}
  Self = {}
  Skipped = {}
  NotifyOnly = {}
  RollbackOn = {a}
  CleanupOn = {a}
  IncludeStopped = TRUE
  MaxFaults = 0
  Cron = FALSE
  API = FALSE
  MayStop = FALSE
  Operator = FALSE
PROPERTIES
  ReleasesArrive

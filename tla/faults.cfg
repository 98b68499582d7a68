SPECIFICATION FairSpec
CONSTANTS
  a = a
  b = b
  k = k
  s = s
  t = t
  NoImage = NoImage
  NoName = NoName
  TagOf <- MCTagOf
  Names = {a, b, k, s}
  Tags = {t}
  Images = {v1, v2, v3}
  InitImage = v1
  Checked = {a}
  Flaky = {}
  MaxPublish = 2
  Passes = {p1}
  Config <- MCConfig
  Labels <- MCLabels
  SelfNamed = {}
  Self <- MCSelf
  Skipped <- MCSkipped
  NotifyOnly <- MCNotifyOnly
  RollbackOn <- MCRollbackOn
  CleanupOn <- MCCleanupOn
  IncludeStopped = TRUE
  MaxFaults = 1
  Cron = FALSE
  API = FALSE
  MayStop = TRUE
  Operator = FALSE
INVARIANTS
  ExcludedAreKept
  LabelsObeyed
PROPERTIES
  FailuresAreRetried

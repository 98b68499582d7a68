SPECIFICATION Spec
CONSTANTS
  a = a
  b = b
  t = t
  v1 = v1
  v2 = v2
  NoImage = NoImage
  NoName = NoName
  TagOf <- MCTagOf
  Names = {a}
  Tags = {t}
  Images = {v1, v2}
  InitImage = v1
  Checked = {a}
  Flaky = {v2}
  MaxPublish = 2
  Passes = {p1, p2}
  Self = {}
  Skipped = {}
  NotifyOnly = {}
  RollbackOn = {a}
  CleanupOn = {a}
  IncludeStopped = TRUE
  MaxFaults = 1
  Cron = TRUE
  API = TRUE
  MayStop = TRUE
  Operator = TRUE
INVARIANTS
  UpdatingMeansInFlight
  GapIsExclusive
  OutageIsReported
PROPERTIES
  LastUpdatedKept
  ServesOrTells
SYMMETRY MCSymmetry

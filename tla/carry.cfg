SPECIFICATION Spec
CONSTANTS
  Keys = {k1, k2}
  Defaults = {d1, d2}
  Own = {o1}
  Unset = Unset
  UserValues = {o1, d1, Unset}
  UserCmds = {o1, d1, Unset}
  MaxEntries = 2
INVARIANTS
  OverridesKept
  NothingStale
PROPERTIES
  RollbackExact

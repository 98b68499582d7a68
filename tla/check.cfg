SPECIFICATION FairSpec
CONSTANTS
  Releases = {r1, r2, r3}
  MultiArch = {r1, r2}
  Local = r1
  DockerHub = TRUE
  MaxMoves = 2
INVARIANTS
  VerdictSound
  OneRelease
PROPERTIES
  CheckEnds
  AtomicLook

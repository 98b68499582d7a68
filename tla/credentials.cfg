SPECIFICATION Spec
CONSTANTS
  Hosts = {hub, private, ecr}
  Hub = hub
  Ecr = {ecr}
  Keys <- MCKeys
  MaxLogins = 1
INVARIANTS
  TypeOK
  OwnHost
  NotRevoked
PROPERTIES
  LoginIsUsed

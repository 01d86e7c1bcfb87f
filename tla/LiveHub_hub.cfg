SPECIFICATION FairSpec
CONSTANTS
  coordinator = coordinator
  investigator = investigator
  d1 = d1
  d2 = d2
  c1 = c1
  c2 = c2
  a1 = a1
  a2 = a2
  None = None
  User = {coordinator, investigator}
  Department = {d1, d2}
  Home <- HomeOf
  Client = {c1, c2}
  Owner <- OwnerOf
  Pinging = {}
  Alert = {a2}
  DeptOf <- ForeignAlert
  Grant = {g1}
  RedisFails = TRUE
  DatabaseFails = TRUE
INVARIANT NeverForeign
PROPERTIES AccessDies WallSeesAlert

\* What TLC refutes of LiveHub, one property at a time.  To see another, let
\* its line take the place of the last one, with the values noted above it.
SPECIFICATION FairSpec
CONSTANTS
  coordinator = coordinator
  investigator = investigator
  d1 = d1
  d2 = d2
  c1 = c1
  c2 = c2
  a1 = a1
  a2 = a2
  None = None
  User = {coordinator, investigator}
  Department = {d1, d2}
  Home <- HomeOf
  Client = {c1, c2}
  Owner <- OwnerOf
  Pinging = {c1, c2}
  Alert = {a1}
  DeptOf <- OwnAlert
  Grant = {g1}
  RedisFails = FALSE
  DatabaseFails = FALSE
PROPERTY AccessDies
\* with Grant = {}
\* PROPERTY SignedOutEnds
\* with Grant = {}
\* PROPERTY HomeSeesAlert
\* with SPECIFICATION Spec, DatabaseFails = TRUE
\* INVARIANT GrantIsAudited

\* What TLC refutes of RoleAdmin, one property at a time.  To see another, let
\* its line take the place of the last one, with the values noted above it.
SPECIFICATION Spec
CONSTANTS
  u1 = u1
  u2 = u2
  u3 = u3
  s1 = s1
  None = None
  Replica = {p1}
  Request = {q1, q2}
  User = {u1, u2}
  Slug = {s1}
  Staff <- Operator
  Capability <- Caps
  SuperOnly <- Privileged
  Payload <- GiveAndRemove
  Accounts <- TwoAdmins
  DatabaseFails = FALSE
INVARIANT AssignedRoleExists
\* with SPECIFICATION FairSpec, Replica = {p1, p2}, Request = {q1}
\* PROPERTY CachesSettle
\* with Payload <- TurningOn
\* INVARIANT LastSuperAdminStays

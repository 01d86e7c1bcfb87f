SPECIFICATION Spec
CONSTANTS
  u1 = u1
  u2 = u2
  u3 = u3
  s1 = s1
  None = None
  Replica = {p1, p2}
  Request = {q1}
  User = {u1, u2}
  Slug = {s1}
  Staff <- Operator
  Capability <- Caps
  SuperOnly <- Privileged
  Payload <- EveryPayload
  Accounts <- OneAdmin
  DatabaseFails = TRUE
INVARIANTS LastSuperAdminStays AssignedRoleExists

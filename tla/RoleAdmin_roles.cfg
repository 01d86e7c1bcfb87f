SPECIFICATION FairSpec
CONSTANTS
  u1 = u1
  u2 = u2
  u3 = u3
  s1 = s1
  None = None
  Replica = {p1}
  Request = {q1, q2}
  User = {u1, u2}
  Slug = {s1}
  Staff <- Operator
  Capability <- Caps
  SuperOnly <- Privileged
  Payload <- Contending
  Accounts <- OneAdmin
  DatabaseFails = TRUE
INVARIANT OnlySuperAdminsAct
PROPERTIES DeactivationKept RequestEnds

SPECIFICATION Spec
CONSTANTS
  Delivery = {d1, d2, d3}
  c1 = c1
  c2 = c2
  w1 = w1
  a1 = a1
  Camera = {c1, c2}
  Registered = {c1}
  Entry = {w1}
  NoEntry = NoEntry
  Adapter = {a1}
  Worker = Worker
  Operator = {o1}
  None = None
  Envelope <- Every
SYMMETRY Symmetric
INVARIANTS
  TypeOK
  OneOpenAlert
  LockedBumpIsCurrent
  HitCountSound
  RejectedIsSilent
  RecordedOnce
  DetectionHasAlert
PROPERTIES
  ImplementsInbox

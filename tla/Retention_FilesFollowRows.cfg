SPECIFICATION Spec
CONSTANTS
  e1 = e1
  e2 = e2
  e3 = e3
  f1 = f1
  f2 = f2
  f3 = f3
  None = None
  Event = {e1, e2, e3}
  Snapshot = {f1, f2, f3}
  Alert = {a1, a2}
  Sweeper = {s1, s2}
  Shot <- OwnFrames
  Hit = {e1, e2}
  Dwell = {e2, e3}
  Exhibit = {e3}
  Batch = 1
  MaxFailures = 1
  UnlinkFails = FALSE
INVARIANTS TypeOK NoOrphanFile

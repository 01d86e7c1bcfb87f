\* What TLC refutes of Retention, one property at a time.  To see another, let
\* its line take the place of the last one, with the values noted above it.
SPECIFICATION Spec
CONSTANTS
  e1 = e1
  e2 = e2
  e3 = e3
  f1 = f1
  f2 = f2
  f3 = f3
  None = None
  Event = {e1, e2, e3}
  Snapshot = {f1, f2, f3}
  Alert = {a1, a2}
  Sweeper = {s1}
  Shot <- SharedFrame
  Hit = {e1}
  Dwell = {}
  Exhibit = {}
  Batch = 2
  MaxFailures = 0
  UnlinkFails = FALSE
INVARIANT AlertKeepsPicture
\* with Shot <- OwnFrames, Hit = {}, Dwell = {e1, e2, e3}, MaxFailures = 1, UnlinkFails = TRUE
\* INVARIANT NoOrphanFile
\* with SPECIFICATION FairSpec, Shot <- OwnFrames, Dwell = {e2}
\* PROPERTY ExpiredPurged

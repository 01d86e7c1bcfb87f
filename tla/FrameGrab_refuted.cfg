\* What TLC refutes of FrameGrab, one property at a time.  To see another, let
\* its line take the place of the last one, with the values noted above it.
SPECIFICATION GrabSpec
CONSTANTS
  Cams = {olda, oldb, cctv}
  HasRtsp = {olda, cctv}
  HasHls = {olda, oldb, cctv}
  Cctv = {cctv}
  LocalRtsp = TRUE
  Attempts = 5
  FloatLimit = 1
  MaxRtspFails = 2
  MaxStreak = 4
  MaxOutages = 2
PROPERTY HlsFallback
\* INVARIANT LoopLives
\* with FloatLimit = 3
\* PROPERTY OneCapture

\* What TLC refutes of FaceEngine, one property at a time.  To see another, let
\* its line take the place of the last one, with the values noted above it.
SPECIFICATION FairSpec
CONSTANTS
  Apis = {api}
  Workers = {}
  MaxCrashes = 0
  MaxFaults = 0
INVARIANT NeverBroken
\* with MaxCrashes = 1
\* PROPERTY BackAfterCrash

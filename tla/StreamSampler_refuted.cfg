\* What TLC refutes of StreamSampler, one property at a time.  To see another, let
\* its line take the place of the last one, with the values noted above it.
SPECIFICATION Spec
CONSTANTS
  Workers = {w1}
  Samplers = {w1}
  Lag = 1
  MaxNow = 4
  MaxEdits = 0
  MaxCrashes = 0
PROPERTY SceneCut
\* with SPECIFICATION FairSpec, MaxNow = 3, MaxEdits = 1, MaxCrashes = 1
\* PROPERTY CatalogueWins

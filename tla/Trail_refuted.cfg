\* What TLC refutes of Trail, one property at a time.  To see another, let
\* its line take the place of the last one, with the values noted above it.
SPECIFICATION TrailSpec
CONSTANTS
  Cams = {a, b}
  Streams = {}
  Mine = {a}
  Epochs <- MCOneEpoch
  Times <- MCTimes
  Kinds = {"plate"}
  Slots <- MCOneSlot
  Dwell = 2
  Window = 2
  MaxSightings = 3
CHECK_DEADLOCK FALSE
INVARIANT RouteOrdered
\* INVARIANT RouteKeepsReturns
\* with Streams = {b}
\* INVARIANT OnePlateOneTrack
\* with Streams = {b}, Epochs <- MCEpochs
\* INVARIANT TrackHasPoint
\* with Slots <- MCSlots
\* INVARIANT OnePointPerDwell
\* with Kinds = {"plate", "person", "face"}
\* INVARIANT NoneLost

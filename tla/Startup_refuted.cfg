\* What TLC refutes of Startup, one property at a time.  To see another, let
\* its line take the place of the last one, with the values noted above it.
SPECIFICATION Spec
CONSTANTS
  Backends = {"backend"}
  Workers = {"worker"}
  Keys = {"k1"}
  Slugs = {"officer"}
  Tables = {"users"}
  Tags = {"rakesh", "anjali"}
  FaceTags = {"rakesh"}
  Minor = "anjali"
  Leftovers <- MCLeftovers
  Earlier <- MCEarlier
  Modes = {"rolling"}
  MaxRows = 3
  MaxHits = 3
  MaxKills = 1
CHECK_DEADLOCK FALSE
INVARIANT HitsAreKept
\* INVARIANT MinorIsFaceless
\* PROPERTY PhotosStay
\* with Earlier <- MCLacksTag
\* INVARIANT TargetsAreOnce
\* with Leftovers <- MCDoubled, Modes = {"compose"}
\* PROPERTY LeftoversMerged

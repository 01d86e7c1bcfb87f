\* What TLC refutes of AlertEngine, one property at a time.  To see another, let
\* its line take the place of the last one, with the values noted above it.
SPECIFICATION Spec
CONSTANTS
  Delivery = {d1, d2, d3}
  c1 = c1
  c2 = c2
  w1 = w1
  a1 = a1
  Camera = {c1, c2}
  Registered = {c1}
  Entry = {w1}
  NoEntry = NoEntry
  Adapter = {a1}
  Worker = Worker
  Operator = {o1}
  None = None
  Envelope <- SameFrame
SYMMETRY Symmetric
INVARIANT DuplicateIsDuplicate
\* INVARIANT HitCountExact
\* INVARIANT PublishedIsDurable

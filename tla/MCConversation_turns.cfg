\* A creation whose predecessor, cut off from its request, still writes.
CONSTANTS
  t1 = t1  t2 = t2
  Turns <- TurnsTwo
  MaxContext = 2
  MaxPending = 1
  MaxPillars = 2
  MaxMessages = 2
SPECIFICATION Spec
SYMMETRY Symmetry
INVARIANT OldTurnsInvalidated

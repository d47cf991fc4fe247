\* One request in the lane beside one job that outlived its request.
CONSTANTS
  t1 = t1  t2 = t2
  Turns <- TurnsTwo
  MaxContext = 2
  MaxPending = 1
  MaxPillars = 2
  MaxMessages = 2
SPECIFICATION Spec
SYMMETRY Symmetry
INVARIANTS Grounded NoDuplicates InvalidationHolds RepliesKept
VIEW View

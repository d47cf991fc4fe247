\* Two clients against the shutdown of the writer, on a queue of one.
CONSTANTS
  u1 = u1  c1 = c1  c2 = c2  Main = Main  Nobody = Nobody
  Users <- UsersOne
  Clients <- ClientsTwo
  Capacity = 1
  BatchSize = 2
  MaxMessages = 2
  MaxOps = 4
SPECIFICATION FairSpec
INVARIANTS BarrierHolds ClearErases TurnsInOrder
PROPERTIES CallsReturn ShutdownEnds LogSpec

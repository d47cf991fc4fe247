\* A batch that fails between a clear and its flush.
CONSTANTS
  u1 = u1  c1 = c1  c2 = c2  Main = Main  Nobody = Nobody
  Users <- UsersOne
  Clients <- ClientsTwo
  Capacity = 2
  BatchSize = 2
  MaxMessages = 2
  MaxOps = 4
SPECIFICATION Spec
INVARIANT ClearIsFlushed

\* Two sockets of one owner for one place each, against a publisher of two changes.
CONSTANTS
  o1 = o1  c1 = c1  c2 = c2  w1 = w1
  Owners <- OwnersOne
  Conns <- ConnsTwo
  Owner <- OwnedByOne
  Writers <- WritersOne
  Commands = {"subscribe", "unsubscribe", "get"}
  MaxConnections = 2
  PerOwner = 1
  QueueCapacity = 1
  WireCapacity = 1
  MaxVersions = 2
SPECIFICATION ClientSpec
INVARIANTS NoMissedUpdate QuietAfterUnsubscribe RegistryExact
PROPERTIES SlowLeaves ShutdownCloses UpdatesArrive

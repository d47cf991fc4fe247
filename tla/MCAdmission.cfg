\* Two callers of all four kinds on single permits, one place for contexts and rate entries.
CONSTANTS
  u1 = u1  u2 = u2  r1 = r1  r2 = r2  Nobody = Nobody
  Users <- UsersTwo
  Requests <- RequestsTwo
  Kinds = {"write", "guard", "read", "chart"}
  KeyLimit <- KeyLimits
  DefaultLimit = 1
  MaxRequests = 1
  MaxWork = 1
  MaxContexts = 1
  Window = 1
  RateCapacity = 1
SPECIFICATION FairSpec
INVARIANTS PermitsConserved SingleFlight ContextInUse
PROPERTIES LaneReturns ShutdownQuiesces PolicySpec

\* Three users, two concurrent callers, a table with room for one user.
CONSTANTS
  u1 = u1  u2 = u2  u3 = u3  c1 = c1  c2 = c2
  Users <- UsersThree
  Callers <- CallersTwo
  LimitOf <- LimitsMixed
  Window = 3
  RateCapacity = 1
SPECIFICATION LimiterSpec
INVARIANTS BurstBounded OverrunBounded

\* One user, two times of the day, room for two jobs that were left behind.
CONSTANTS
  u1 = u1  am = am  pm = pm  j1 = j1  j2 = j2  j3 = j3
  NoCron = NoCron  NoJob = NoJob
  Users <- UsersOne
  Crons <- CronsTwo
  Jobs <- JobsThree
SPECIFICATION FairSpec
INVARIANTS RegistryLive InStep
PROPERTY LeftAlone

SPECIFICATION FairSpec
CONSTANTS
  s1 = s1  s2 = s2  r1 = r1  r2 = r2
  Run = {r1, r2}
  Server = {s1, s2}
  ServerOf <- OneEach
  MaxFaults = 1
  NoRun = NoRun
CHECK_DEADLOCK FALSE
INVARIANTS LeaderInJournal CleanMeansKilled ReportIsTrue
PROPERTIES StopEndsRun

SPECIFICATION FairSpec
CONSTANTS
  LastPage = 3
  Attempts = 2
  MaxFaults = 3
  MaxBad = 3
INVARIANTS TypeOK RoutineIsThere AlwaysStarts OkMeansNew
PROPERTY EndsNew

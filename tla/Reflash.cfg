SPECIFICATION FairSpec
CONSTANTS
  LastPage = 1
  Threshold = 2
  Size = 2
  Fielded = {2}
  Attempts = 2
  WriteTries = 2
  MaxFailures = 1
  Batch = 1
  MissLimit = 1
  Behaviours = {"good", "mute", "crashes"}
  MaxMishaps = 1
CHECK_DEADLOCK FALSE
INVARIANTS TypeOK FirstPageVouches CountedIsNew BadImageStops CleanRunSucceeds
PROPERTY EndsNew

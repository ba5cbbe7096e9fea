SPECIFICATION FairSpec
CONSTANTS
  Images = {"good", "bad", "flaky"}
  Bad = {"bad"}
  Flaky = {"flaky"}
  Rescues = {"R1", "R2"}
  Unsound = {"R1"}
  ReleaseRescue = "R2"
  Limit = 2
  MaxUpdates = 3
  MaxFaults = 1
INVARIANTS
  TypeOK
  HeaderHeldBack
  SomethingStarts
  GuardHasAWayOut
  ExitIsNewest
PROPERTY NeverStuck
CHECK_DEADLOCK FALSE

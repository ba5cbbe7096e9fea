SPECIFICATION Spec
CONSTANTS
  r1 = r1
  r2 = r2
  a1 = a1
  a2 = a2
  t1 = t1
  Rows <- OneRow
  Links = {l1, l2}
  Stranger = Stranger
  Nobody = Nobody
  NoLink = NoLink
  Addrs <- OneAddr
  PairedAt <- AtFirst
  Texts <- OneText
  Blank = Blank
  Settings <- OneSetting
  MaxConns = 2
  Room = 2
  MaxJobs = 2
  MaxTexts = 0
  MaxChanges = 1
  MaxFaults = 2
  MasterLives = 1
SYMMETRY Recycled
INVARIANTS TypeOK NotHandedNeverRan NoJobRunsTwice AnswersAreTrue SettingsReach BusyAgrees
PROPERTY KeepsPromise

SPECIFICATION FairSpec
CONSTANTS
  r1 = r1
  r2 = r2
  a1 = a1
  a2 = a2
  t1 = t1
  Rows <- OneRow
  Links = {l1, l2}
  Stranger = Stranger
  Nobody = Nobody
  NoLink = NoLink
  Addrs <- TwoAddrs
  PairedAt <- AtFirst
  Texts <- OneText
  Blank = Blank
  Settings <- NoSettings
  MaxConns = 2
  Room = 2
  MaxJobs = 1
  MaxTexts = 1
  MaxChanges = 0
  MaxFaults = 1
  MasterLives = 1
INVARIANT ShownIsTrue
PROPERTIES RowsConnect TextArrives JobsEnd

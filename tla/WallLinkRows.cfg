SPECIFICATION Spec
CONSTANTS
  r1 = r1
  r2 = r2
  a1 = a1
  a2 = a2
  t1 = t1
  Rows <- TwoRows
  Links = {l1, l2, l3}
  Stranger = Stranger
  Nobody = Nobody
  NoLink = NoLink
  Addrs <- TwoAddrs
  PairedAt <- AtFirst
  Texts <- OneText
  Blank = Blank
  Settings <- NoSettings
  MaxConns = 2
  Room = 2
  MaxJobs = 0
  MaxTexts = 0
  MaxChanges = 0
  MaxFaults = 2
  MasterLives = 2
SYMMETRY Recycled
INVARIANT TablesAgree

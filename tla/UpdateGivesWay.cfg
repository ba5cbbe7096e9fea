SPECIFICATION FairSpec
CONSTANTS
  hello = hello
  noon = noon
  blank = blank
  mixed = mixed
  Texts <- MCTexts
  Blank = blank
  Mixed = mixed
  Depth = 2
  MaxAsks = 2
PROPERTY UpdateGivesWay

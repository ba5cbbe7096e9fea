SPECIFICATION FromNoon
CONSTANTS
  hello = hello
  noon = noon
  blank = blank
  mixed = mixed
  Texts <- MCTexts
  Blank = blank
  Mixed = mixed
  Depth = 3
  MaxAsks = 2
INVARIANTS TypeOK AbortHasItsStop StopIsKept SaysWhatItShows
PROPERTIES StopsTakeEffect TextComesBack

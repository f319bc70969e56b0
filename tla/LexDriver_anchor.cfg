CONSTANTS
  Chars <- MCChars
  NUL = "nul"
  NL = "nl"
  EOF = "eof"
  MAXLEX = 3
  LOOK = 1
  Files <- Files6
  MaxOpens = 0
  Analyzers <- AnchorLost
  Uses = {}
  Unputs = {}
  ParserMarks = FALSE
SPECIFICATION Spec
INVARIANTS
  AnchorOfLastAccept
CHECK_DEADLOCK FALSE

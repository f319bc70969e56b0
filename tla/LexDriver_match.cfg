CONSTANTS
  Chars <- MCChars
  NUL = "nul"
  NL = "nl"
  EOF = "eof"
  MAXLEX = 3
  LOOK = 1
  Files <- MatchFiles
  MaxOpens = 0
  Analyzers <- MCAnalyzers
  Uses = {}
  Unputs = {}
  ParserMarks = FALSE
SPECIFICATION FairSpec
INVARIANTS
PROPERTIES
  LongestMatch
  OnlyBadInputSkipped
  ComesToEnd
CHECK_DEADLOCK FALSE

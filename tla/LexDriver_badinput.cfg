CONSTANTS
  Chars <- MCChars
  NUL = "nul"
  NL = "nl"
  EOF = "eof"
  MAXLEX = 3
  LOOK = 1
  Files <- BadFiles
  MaxOpens = 0
  Analyzers <- MCAnalyzers
  Uses = {}
  Unputs = {}
  ParserMarks = TRUE
SPECIFICATION FairSpec
PROPERTIES
  BadCharacterSkipped
CHECK_DEADLOCK FALSE

CONSTANTS
  Chars <- MCChars
  NUL = "nul"
  NL = "nl"
  EOF = "eof"
  MAXLEX = 2
  LOOK = 1
  Files <- MCFiles
  ShortReads = FALSE
  ReadErrors = FALSE
  PutBack = {}
  MaxBack = 1
  MaxChanges = 0
SPECIFICATION Spec
INVARIANTS
  EndOfFileIsReturned
CHECK_DEADLOCK FALSE

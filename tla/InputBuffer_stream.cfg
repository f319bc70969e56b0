CONSTANTS
  Chars <- MCChars
  NUL = "nul"
  NL = "nl"
  EOF = "eof"
  MAXLEX = 2
  LOOK = 1
  Files <- MCFiles
  ShortReads = FALSE
  ReadErrors = TRUE
  PutBack = {"nl"}
  MaxBack = 2
  MaxChanges = 1
SPECIFICATION Spec
INVARIANTS
  TypeOK
  MarksInOrder
  BufferShowsStream
  LinesCounted
  RefusedOnlyWhenLong
  FullOnlyAtEndOfFile
PROPERTY ImplementsCharStream
CHECK_DEADLOCK FALSE

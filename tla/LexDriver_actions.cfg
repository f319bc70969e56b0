CONSTANTS
  Chars <- MCChars
  NUL = "nul"
  NL = "nl"
  EOF = "eof"
  MAXLEX = 2
  LOOK = 1
  Files <- ActionFiles
  MaxOpens = 1
  Analyzers <- FewAnalyzers
  Uses = {"input", "unput", "yyless", "yymore"}
  Unputs = {"b"}
  ParserMarks = TRUE
SPECIFICATION Spec
INVARIANTS
  TypeOK
  ActionSeesLexeme
PROPERTIES
  LongestMatch
CHECK_DEADLOCK FALSE

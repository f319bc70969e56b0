SPECIFICATION FairSpec
CONSTANTS
  LLAMA = TRUE
  Files <- MCFiles
  MINNONTERM = 10
  MINACT = 14
  MAXPROD = 9
  MAXRHS = 5
  SSIZE = 3
  OPT_NAMES <- MCNames
  Tokens = 5
  threshold = 2
  TTYPE = 8
  YYMAXERR = 2
  YYMAXDEPTH = 7
INVARIANTS TypeOK ProductionsMeanGrammar SetsExact AcceptsOnlyLanguage AcceptsWholeLanguage RecoveryConsumes
PROPERTIES ComesToEnd
CHECK_DEADLOCK FALSE

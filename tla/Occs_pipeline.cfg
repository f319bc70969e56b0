SPECIFICATION FairSpec
CONSTANTS
  LLAMA = FALSE
  Files <- MCFiles
  MINNONTERM = 10
  MINACT = 16
  MAXPROD = 9
  MAXRHS = 8
  SSIZE = 3
  OPT_NAMES <- MCNames
  MAXSTATE = 13
  MAXKERNEL = 4
  MAXCLOSE = 7
  MAXEPSILON = 2
  MAXUNFINISHED = 6
  Tokens = 5
  YYMAXERR = 1
  YYMAXDEPTH = 6
  YYCASCADE = 2
INVARIANTS TypeOK LookaheadsExact ActionsSeeTheirSymbols AcceptsOnlyLanguage AcceptsWholeLanguage PrecedenceHonoured
PROPERTIES ComesToEnd
CHECK_DEADLOCK FALSE

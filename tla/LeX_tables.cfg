CONSTANTS
  MAX_CHARS = 4
  DFA_MAX = 6
  NFA_MAX = 16
  SSIZE = 4
  STR_MAX = 4
  MAX_RULE_SIZE = 40
  NL = 0
  CR = 1
  SPACE = 1
  UnixStyle = FALSE
  Macros <- MCMacros
  MacroExprs <- MCMacroExprs
  RuleSets <- MCRuleSets
  MaxWord = 3
SPECIFICATION FairSpec
INVARIANTS
  NodesConsistent
  DfaComplete
  IngroupIsInverse
  StableWhenDone
  FewestStates
  TablesMatchRules
PROPERTY Finishes
CHECK_DEADLOCK FALSE

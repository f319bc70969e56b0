CONSTANTS
  s1 = s1
  s2 = s2
  Sets <- MCSets
  NONE = NONE
  WORD = 2
  DEFWORDS = 2
  Bits <- MCBits
  MaxPos = 9
SYMMETRY Either
SPECIFICATION Spec
INVARIANTS
  AnswersByMembers
PROPERTY ImplementsIntSets

SPECIFICATION Spec
CONSTANTS
  None = None
  Alphabet <- MCAlphabet
  UpperOf <- MCUpperOf
  LowerOf <- MCLowerOf
  Threshold = 2
  Texts <- MCTexts
  States <- MCStates
INVARIANTS
  NormalizationKeepsMeaning
  CompoundIsConjunction
  WarningFreeNeverRaises
CHECK_DEADLOCK FALSE

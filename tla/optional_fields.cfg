SPECIFICATION Spec
CONSTANTS
  None = None
  NaN = NaN
  Wrong = Wrong
  Absent = Absent
  Malformed = Malformed
  Failed = Failed
  Lexicon <- MCLexicon
  Tails <- MCTails
  Heads = {}
  AmountWindow = 3
  RoleWindow = 4
  PoWindow = 4
  TaxWindow = 2
  Texts <- MCTexts
  Answers <- MCAnswers
  Corrections <- MCCorrections
  Money <- MCMoney
INVARIANT DebugValuesRejected
CHECK_DEADLOCK FALSE

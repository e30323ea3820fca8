CONSTANTS
  MaxWords = 4
  MaxSplit = 5
  MaxBody = 5
  SizeMod = 16
  Null = Null
  Texts <- MCTexts
  Modes <- MCModes
SPECIFICATION Spec
INVARIANTS
  ErrorsQuoteTheToken
  GrammarReceivesTheWords
  PassesAgree
  StatementsAreDisjoint
  SplitsAgree
  SplitsNest

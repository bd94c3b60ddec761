SPECIFICATION Spec
CONSTANTS
  LineMax = 8
  Characters <- MCCharacters
  CommandLines <- MCCommandLines
  Texts <- MCTexts
  Garbage <- MCGarbage
  MaxCalls = 2
  MaxLosses = 1
INVARIANT
  GetDataIsNode
CHECK_DEADLOCK FALSE

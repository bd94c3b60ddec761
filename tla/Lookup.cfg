SPECIFICATION FairSpec
CONSTANTS
  LineMax = 8
  Characters <- MCCharacters
  CommandLines <- MCCommandLines
  Texts <- MCTexts
  Garbage <- MCGarbage
  MaxCalls = 2
  MaxLosses = 1
INVARIANTS
  ConfigAgrees
  AddressArrives
  StartMeansConnected
PROPERTY
  StartReturns
CHECK_DEADLOCK FALSE

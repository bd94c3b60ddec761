SPECIFICATION FairSpec
CONSTANTS
  a = a
  b = b
  user = user
  friend = friend
  login = login
  list = list
  Providers = {a, b}
  Services = {user, friend}
  Methods = {login, list}
  ServiceOf <- MCServiceOf
  Plan <- MCPlan
  MaxStarts = 2
  Faults = {"request", "kill", "expiry"}
INVARIANTS
  TypeOK
  RegistryInv
  MissingOnlyIfPassed
  SomeoneSurvives
PROPERTIES
  ExitMeansRace
  AdvertsSettle
  AddressStays
CHECK_DEADLOCK FALSE

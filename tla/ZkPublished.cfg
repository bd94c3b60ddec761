SPECIFICATION Spec
CONSTANTS
  a = a
  b = b
  user = user
  friend = friend
  login = login
  list = list
  Providers = {b}
  Services = {user, friend}
  Methods = {login, list}
  ServiceOf <- MCServiceOf
  Plan <- MCPlan
  MaxStarts = 2
  Faults = {"kill"}
INVARIANT
  ServingIsPublished
CHECK_DEADLOCK FALSE

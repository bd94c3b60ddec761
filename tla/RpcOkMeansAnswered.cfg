SPECIFICATION Spec
CONSTANTS
  login = login
  register = register
  logout = logout
  Calls = {login}
  NullController = {}
  Service <- MCService
  Method <- MCMethod
  ServiceMap <- MCServiceMap
  ProviderMayDie = TRUE
  HeaderLen = 8
  HeaderFields <- MCHeaderFields
  ArgsLen = 5
  ArgsFields <- MCArgsFields
  RspLen = 4
  RspFields <- ShortFields
  ReqCuts = {}
  RspCuts = {}
INVARIANT
  OkMeansAnswered
CHECK_DEADLOCK FALSE

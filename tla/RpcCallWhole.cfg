SPECIFICATION Spec
CONSTANTS
  login = login
  register = register
  logout = logout
  Calls = {login, register, logout}
  NullController = {register}
  Service <- MCService
  Method <- MCMethod
  ServiceMap <- MCServiceMap
  ProviderMayDie = TRUE
  HeaderLen = 6
  HeaderFields <- ShortHeader
  ArgsLen = 0
  ArgsFields <- NoArgs
  RspLen = 4
  RspFields <- ShortFields
  ReqCuts = {}
  RspCuts = {}
INVARIANTS
  TypeOK
  WholeRequests
  RetrySafe
CHECK_DEADLOCK FALSE

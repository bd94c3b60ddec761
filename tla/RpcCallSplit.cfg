SPECIFICATION FairSpec
CONSTANTS
  login = login
  register = register
  logout = logout
  Calls = {login, logout}
  NullController = {}
  Service <- MCService
  Method <- MCMethod
  ServiceMap <- MCServiceMap
  ProviderMayDie = TRUE
  HeaderLen = 8
  HeaderFields <- MCHeaderFields
  ArgsLen = 5
  ArgsFields <- MCArgsFields
  RspLen = 1100
  RspFields <- MCRspFields
  ReqCuts <- MCReqCuts
  RspCuts <- MCRspCuts
INVARIANTS
  IInv
  HandlerAtMostOnce
  LeakOnlyOnLookup
  AcceptedReply
  StuckOnlyIfDropped
PROPERTIES
  AtMostOnceCalls
  ReturnsOrDropped
CHECK_DEADLOCK FALSE

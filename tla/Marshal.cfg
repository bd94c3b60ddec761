SPECIFICATION Spec
CONSTANTS
  users = users
  otherUsers = otherUsers
  friends = friends
  Objects = {users, otherUsers, friends}
  Samples = {users, friends}
  Class <- MCClass
  Overrides <- MCOverrides
  Stubs <- MCStubs
  MaxCalls = 2
  SerializeToString <- Serialize
  FieldEndsOf <- FieldEnds
  InternalParse <- ParseInto
  MergeFrom <- Merge
INVARIANTS
  RequestArrives
  ResponseIsPart
  SizesAgree
  WireIsOffsets
  AbortsOnlyUnimplemented
CHECK_DEADLOCK FALSE

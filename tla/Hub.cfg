SPECIFICATION FairSpec
CONSTANTS
  alice = alice
  bob = bob
  Users = {alice, bob}
  Conns = {c, d}
  UserOf <- MCUserOf
  Folders = {f}
  NoFolder = NoFolder
  Everything = Everything
  Kinds <- MCKinds
  Requests <- MCRequests
  MaxEvents = 2
  EventCap = 1
  SubCap = 1
  HubCap = 1
  SendCap = 1
  MaxReplies = 1
  Clients = {a, b}
  MaxCalls = 4
  RateLimit = 1
  Window = 1
  CleanEvery = 1
  MaxTime = 2
INVARIANT HubInv
PROPERTY DeliversInOrder
PROPERTY Settles
CHECK_DEADLOCK FALSE

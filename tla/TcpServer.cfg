\* More clients than descriptors: accept fails and descriptors are used again.
CONSTANTS
  MaxClients = 3
  Fds = {7, 8}
  MaxThreads = 2
  Requests = 1
  MessageLength = 2
  Nobody = Nobody
SPECIFICATION FairSpec
INVARIANTS TypeOK SocketOwned TableMatches EchoIntact RoundRobin
PROPERTIES ImplementsService EveryClientServed ClosedIsReclaimed
CHECK_DEADLOCK FALSE

\* Callbacks and another thread send and shut down.
CONSTANTS
  LoopThread = loopThread
  Users = {u1}
  Senders = {loopThread, u1}
  Shutters = {loopThread, u1}
  MessageLength = 2
  MaxSends = 3
SPECIFICATION FairSpec
INVARIANTS TypeOK OutputHasInterest StreamIntact FinAfterData ClosedForGood DestroyedIsRemoved
PROPERTY PeerGoneIsCleanedUp
CHECK_DEADLOCK FALSE

\* Another thread sends and shuts down while the peer closes.
CONSTANTS
  LoopThread = loopThread
  Users = {u1}
  Senders = {u1}
  Shutters = {u1}
  MessageLength = 2
  MaxSends = 1
SPECIFICATION Spec
INVARIANT ClosedStaysOut
CHECK_DEADLOCK FALSE

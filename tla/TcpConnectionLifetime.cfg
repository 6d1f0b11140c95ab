\* Another thread sends one message and releases its pointer.
CONSTANTS
  LoopThread = loopThread
  Users = {u1}
  Senders = {u1}
  Shutters = {}
  MessageLength = 2
  MaxSends = 1
SPECIFICATION Spec
INVARIANT FunctorsKeepItAlive
CHECK_DEADLOCK FALSE

\* The owner is the only thread with the pointer, and queues one functor.
CONSTANTS
  LoopThread = loopThread
  Owner = owner1
  Threads = {owner1}
  MaxTasks = 1
  MaxInline = 1
SPECIFICATION ThreadFairSpec
PROPERTIES StartLoopIsAnswered StartedLoopIsJoined
CHECK_DEADLOCK FALSE

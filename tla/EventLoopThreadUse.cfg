\* The owner, in its own calls or in the destructor, against the end of threadFunc.
CONSTANTS
  LoopThread = loopThread
  Owner = owner1
  Threads = {owner1}
  MaxTasks = 1
  MaxInline = 1
SPECIFICATION ThreadSpec
INVARIANT LoopOutlivesItsUsers
CHECK_DEADLOCK FALSE

\* The owner destroys the EventLoopThread as soon as startLoop() has returned.
CONSTANTS
  LoopThread = loopThread
  Owner = owner1
  Threads = {owner1}
  MaxTasks = 1
  MaxInline = 1
SPECIFICATION ThreadFairSpec
PROPERTY DestructorReturns
CHECK_DEADLOCK FALSE

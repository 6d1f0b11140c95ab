\* Two foreign threads and the loop thread share three functors: enough for one
\* that is running, one in its batch and one pending.
CONSTANTS
  LoopThread = loopThread
  Threads = {t1, t2}
  MaxTasks = 3
  MaxInline = 1
SPECIFICATION FairSpec
INVARIANTS TypeOK NoLostWakeup NoLostQuit FifoOrder
PROPERTIES BatchNeverGrows ImplementsTaskQueue QueuedIsRun QuitStopsLoop

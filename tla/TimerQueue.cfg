\* Two addresses, so that a deleted timer's address is used again, a repeating
\* timer that fires up to three times, and a wall clock that is set once.
CONSTANTS
  Addresses = {1, 2}
  Threads = {t1}
  Intervals = {1}
  MaxTime = 3
  MaxCreated = 2
  MaxSteps = 1
  Nothing = Nothing
SPECIFICATION Spec
INVARIANTS TypeOK SetsMatch NoTimerLost CancelledIsGone NeverLate ArmedWhenPending
CHECK_DEADLOCK FALSE

SPECIFICATION FairSpec
CONSTANTS
  Calls = {c1, c2}
  NotFoundOk = {c1}
  MaxRetries = 2
  WindowDays = 2
  MaxDay = 2
INVARIANTS ResponseReleased CounterIsWindow
PROPERTIES KeepsPromise CallReturns
CHECK_DEADLOCK FALSE

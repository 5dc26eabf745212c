SPECIFICATION Spec
CONSTANT MaxAborts = 1
INVARIANT ReadyBeforeUse
PROPERTIES
  LockFollowsDebugger
  LedShowsState

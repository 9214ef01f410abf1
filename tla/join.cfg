SPECIFICATION Spec
CONSTANTS
  Creator = m
  Others = {a, b, c}
  Detachers = {m, a}
  Early = {}
  Mixed = FALSE
  InterruptAt <- LockWaits
INVARIANTS
  NoUseAfterFree
  ValueExact
  NoLeak
PROPERTY
  JoinReturns

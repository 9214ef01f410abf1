CONSTANTS
  Signals = {1, 2, 3}
  Caught = {1, 2}
  sa_mask <- NextMasked
  ThreadSignals = {1, 2}
  IrqSignals = {2, 3}
  Slots = {1, 2, 3, 4}
  slottype <- SlotTypes
  Actions = {1, 2, 3, 4}
  actiontype <- ActionTypes
  Burst = 2
  MaxDepth = 2
  HandlersWait = FALSE
  WatchdogsRunOut = FALSE
SPECIFICATION Spec
INVARIANTS
  SlotsExact
  PendingOnce
  
  ResultExact
PROPERTY
  ActionsRun
CHECK_DEADLOCK FALSE

CONSTANTS
  L = L
  M = M
  H = H
  mutex = mutex
  mutex2 = mutex2
  event = event
  NoSem = NoSem
  NoTask = NoTask
  Tasks = {L, M, H}
  Sems = {mutex, event}
  LockSems = {mutex}
  IsrSems = {}
  NoInherit = {event}
  BasePriority <- Distinct
  InitCount <- OneEach
  Uses <- UsesAll
  NestWaits = FALSE
  Disturbances = {"timeout", "signal_irq"}
  Signallers = {}
  SEM_VALUE_MAX = 1
  SEM_PREALLOCHOLDERS = 4
  SEM_NNESTPRIO = 2
  MaxHolds = 2
  MaxPend = 2
SPECIFICATION Spec
INVARIANTS
  HoldersExact
PROPERTY
  ImplementsLockSpec

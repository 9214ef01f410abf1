CONSTANTS
  L = L
  M = M
  H = H
  mutex = mutex
  mutex2 = mutex2
  event = event
  NoSem = NoSem
  NoTask = NoTask
  Tasks = {L, M, H}
  Sems = {mutex, event}
  LockSems = {mutex}
  IsrSems = {event}
  NoInherit = {event}
  BasePriority <- Distinct
  InitCount <- OneEach
  Uses <- UsesAll
  NestWaits = TRUE
  Disturbances = {"kill", "exit", "signal_task"}
  Signallers = {L}
  SEM_VALUE_MAX = 1
  SEM_PREALLOCHOLDERS = 2
  SEM_NNESTPRIO = 2
  MaxHolds = 2
  MaxPend = 3
SPECIFICATION Spec
INVARIANTS
  CountMatchesWaiters
  CountsConserved
CHECK_DEADLOCK FALSE

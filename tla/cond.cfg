CONSTANTS
  Consumers = {c1, c2, c3}
  Producers = {p1}
  NoThread = NoThread
  Timed = {c1, c2}
  type = "recursive"
  Relockers = {p1}
  MaxLocks = 2
  MaxItems = 2
  Interrupted = {p1, c1}
  HandlersSignal = TRUE
SPECIFICATION Spec
INVARIANTS
  OwnerExact
  NoLostWakeup
  PermitsBounded
PROPERTY
  ItemsTaken

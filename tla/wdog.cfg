CONSTANTS
  poll = poll
  posix = posix
  s1 = s1
  Pool = {p1, p2}
  Heap = {h1}
  Static = {s1}
  NoDog = NoDog
  NoUser = NoUser
  INTRESERVE = 1
  Timers = {poll, posix}
  StaticDog <- OneStatic
  Waiters = {t1}
  Delays = {0, 1, 2}
  MaxCalls = 1
  KillAt = {"created", "blocked", "ready", "cancelled"}
SPECIFICATION Spec
INVARIANTS
  ActiveExact
  FreeExact
  ReserveKept
  GetTimeExact
PROPERTY
  ImplementsWDogSpec
  TimedWaitEnds

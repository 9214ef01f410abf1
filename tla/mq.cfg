CONSTANTS
  s1 = s1
  s2 = s2
  r1 = r1
  r2 = r2
  f1 = f1
  i1 = i1
  d1 = d1
  d2 = d2
  d3 = d3
  Senders = {s1, s2}
  Receivers = {r1, r2}
  NoThread = NoThread
  Deleter = Deleter
  NoSlot = NoSlot
  Priority <- Priorities
  Timed = {r1, r2, s1}
  NonBlock = {}
  Notified = {r1}
  Signalled = {s2, r1}
  HandlerPrios = {1}
  MsgPrios = {1, 2}
  Fixed = {f1}
  Irq = {i1}
  Dyn = {d1, d2, d3}
  maxmsgs = 1
  KillAt = {"notfull", "notempty"}
  HandlersInDeletion = FALSE
SPECIFICATION Spec
INVARIANTS
  CountsExact
  NoMessageMissed
  NoRoomMissed
  SlotsExact
  OvershootBounded
PROPERTY
  ImplementsMQueueSpec
CHECK_DEADLOCK FALSE

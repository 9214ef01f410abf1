CONSTANTS
  a = a
  b = b
  c = c
  NoWork = NoWork
  NotQueued = NotQueued
  Works = {a, b, c}
  Delays = {0, 1, 3}
  ClientDelays <- AnyDelay
  RequeueDelays <- OnlyA
  Callers = {1}
SPECIFICATION FairSpec
INVARIANTS
  TypeOK
  NoLostWakeup
  ReadyIsServed
PROPERTY
  ImplementsWorkSpec
  ShortestPerformed

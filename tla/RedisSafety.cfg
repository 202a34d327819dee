\* Two replicas with clocks a tick apart, one connection that breaks.
\* The calls and the clock run out, so a state without successor is no deadlock.
CONSTANTS
  replica1 = replica1
  replica2 = replica2
  client = client
  c1 = c1
  c2 = c2
  c3 = c3
  Replicas = {replica1, replica2}
  Skew <- ClockAhead
  Keys = {client}
  Calls = {c1, c2, c3}
  Limits <- ChangingLimits
  Window = 4
  MaxDelay = 1
  MaxFaults = 1
  MaxTime = 7

SPECIFICATION Spec
SYMMETRY Symmetry
CHECK_DEADLOCK FALSE

INVARIANTS
  TypeOK

PROPERTIES
  WindowBound
  RefusalIsEarned
  ResetAtIsHonoured

\* Three calls, limits that change, on two keys; a window of three ticks, a wait of at most one.
\* The calls and the clock run out, so a state without successor is no deadlock.
CONSTANTS
  ip = ip
  client = client
  c1 = c1
  c2 = c2
  c3 = c3
  Keys = {ip, client}
  Calls = {c1, c2, c3}
  Limits <- ChangingLimits
  Window = 3
  EntryTTL = 4
  CleanupInterval = 2
  MaxHold = 1
  MaxTime = 9

SPECIFICATION Spec
SYMMETRY Symmetry
CHECK_DEADLOCK FALSE

INVARIANTS
  TypeOK
  WindowBound
  ResetAtIsHonoured
  IdleEntriesAreDropped

PROPERTIES
  ImplementsSlidingWindow

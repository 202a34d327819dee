\* Four requests, one address, no fault.  The pool of requests runs dry, so
\* a state without successor is no deadlock of the service.
CONSTANTS
  r1 = r1
  r2 = r2
  r3 = r3
  r4 = r4
  e1 = e1
  None = None
  Emails = {e1}
  Requests = {r1, r2, r3, r4}
  Secrets = {r1, r2, r3, r4}
  MaxFaults = 0

SPECIFICATION FairSpec
CHECK_DEADLOCK FALSE

PROPERTIES
  LinkLeadsToKey

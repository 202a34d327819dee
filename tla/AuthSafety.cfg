\* Four requests, two addresses, one fault.  The pool of requests runs dry, so
\* a state without successor is no deadlock of the service.
CONSTANTS
  r1 = r1
  r2 = r2
  r3 = r3
  r4 = r4
  e1 = e1
  e2 = e2
  None = None
  Emails = {e1, e2}
  Requests = {r1, r2, r3, r4}
  Secrets = {r1, r2, r3, r4}
  MaxFaults = 1

SPECIFICATION Spec
SYMMETRY Symmetry
CHECK_DEADLOCK FALSE

INVARIANTS
  TypeOK
  TokenSpentOnce
  
  MailedLinkIsStored
  VainLinkMeansKeyExists

PROPERTIES
  NoHandlerReinstates
  RevocationHasCause
  IssuedKeyHonoured
  

SPECIFICATION FairSpec
CONSTANTS
  r1 = r1
  r2 = r2
  Requests <- MCRequests
  Uses <- MCUses
  Environments <- MCEnvironments
  MaxSignals = 2
INVARIANTS
  TypeOK
  ClosedAfterUse
  
  ProvidersAreFlushed
  
PROPERTIES
  SignalEnds
CHECK_DEADLOCK FALSE

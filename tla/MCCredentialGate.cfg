SPECIFICATION FairRenewalSpec
CONSTANTS
  Requests = {r1, r2, r3}
  MaxChanges = 1
INVARIANTS OneRenewal NoLostWakeup
PROPERTIES EveryRequestReturns

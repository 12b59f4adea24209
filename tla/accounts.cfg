SPECIFICATION Spec
CONSTANTS
  Names = {new, old}
  Grandfathered = {old}
  Addresses = {a1, a2}
  Tabs = {t1, t2}
  None = None
  Cooldown = 1
  VerifyTtl = 2
  ResetTtl = 1
  ReuseGrace = 1
  Window = 2
  MaxAttempts = 1
  MaxTime = 2
  MaxRequests = 3
  MaxFaults = 1
SYMMETRY TabsAndAddressesAlike
INVARIANTS VerifiedByMail OneResetPerLink AttemptsBounded ReportedMeansDone
PROPERTIES AddressKept
CHECK_DEADLOCK FALSE

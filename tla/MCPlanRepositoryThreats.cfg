SPECIFICATION Spec
CONSTANTS
  Tokens = {t1, t2}
  NoToken = none
  CallerReasons = {"drift"}
  LeaseDuration = 1
  PlanExpiry = 2
  MaxClock = 3
  Threats = {{"replay"}, {"keyring"}}
SYMMETRY Symmetry
INVARIANTS SingleDispatch
PROPERTIES NoLeaseAfterDispatch

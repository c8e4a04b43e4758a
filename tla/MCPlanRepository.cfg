SPECIFICATION Spec
CONSTANTS
  Tokens = {t1, t2, t3}
  NoToken = none
  CallerReasons = {"drift"}
  LeaseDuration = 1
  PlanExpiry = 2
  MaxClock = 3
  Threats = {{}}
INVARIANTS TypeOK OneWinner LedgerFollowsMarker
PROPERTIES TerminalIsFinal ImplementsSingleUse

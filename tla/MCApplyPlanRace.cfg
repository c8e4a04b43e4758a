SPECIFICATION ApplySpec
CONSTANTS
  Tokens = {t1, t2, t3}
  NoToken = none
  CallerReasons = {"unknown-dispatch", "critical-unknown", "child-evidence-drift", "dispatch-intent-persistence-failed"}
  LeaseDuration = 1
  PlanExpiry = 2
  MaxClock = 2
  Threats = {{}}
  NChildren = 2
  Procs = {p1, p2}
  MaxCalls = 2
  MaxFaults = 1
SYMMETRY ApplySymmetry
INVARIANTS AtMostOneWrite EvidenceIsTrue AppliedMeansAll
PROPERTIES WriteBehindJournal

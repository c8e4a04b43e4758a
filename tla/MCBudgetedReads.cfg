SPECIFICATION FairSpec
CONSTANTS
  Axes <- MCAxes
  Capacity <- MCCapacity
  Period <- MCPeriod
  Procs = {"p", "q"}
  AxesOf <- MCAxesOf
  MaxAttempts = 2
  Patience = {2}
  Delays = {1}
  MaxTime = 4
  MaxUnsynced = 1
  MaxFaults = 1
INVARIANTS TypeOK RateBound EveryRequestIsPaid
PROPERTIES RefusedOnlyWhenSpent EveryCallEnds
CHECK_DEADLOCK FALSE

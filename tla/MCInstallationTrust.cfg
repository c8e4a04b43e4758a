SPECIFICATION FairSpec
CONSTANTS
  a = a
  b = b
  c = c
  Threads = {a, b, c}
  NoThread = NoThread
  ProcessOf <- MCProcessOf
  Candidates = {1, 2, 3}
  NoCandidate = NoCandidate
  MaxFaults = 2
INVARIANTS NoStrandedLock NoOrphanedKey OneAuthority UndisturbedSucceeds
PROPERTIES EveryAttemptEnds

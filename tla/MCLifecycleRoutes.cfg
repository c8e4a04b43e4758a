SPECIFICATION Spec
CONSTANTS
  Requests = {r1, r2, r3}
  Watches = {w1, w2}
  NoRequest = NoRequest
SYMMETRY Alike
INVARIANTS TypeOK ContactsAreHeld WatchIsToldToStop PaintsAreCurrent

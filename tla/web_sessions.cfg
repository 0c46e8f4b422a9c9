\* Concurrent creations of sessions, with a cap of two, beside one prompt.
SPECIFICATION Spec
CONSTANTS
  Browsers = {desktop}
  Accounts = {alice}
  Names = {n1}
  Requests = {r1}
  Creations = {c1, c2, c3, c4}
  None = None
  MaxSessions = 2
INVARIANTS
  CapOverrun
PROPERTIES
  CapRestored
  RequestSettles
\* Everything stops when the creations are used up.
CHECK_DEADLOCK FALSE

\* Three prompts from two browsers that guests and two accounts use in turn.
\* Nobody creates a session: no controller does.
SPECIFICATION Spec
CONSTANTS
  Browsers = {desktop, phone}
  Accounts = {alice, bob}
  Names = {n1, n2}
  Requests = {r1, r2, r3}
  Creations = {}
  None = None
  MaxSessions = 1
SYMMETRY WebSymmetry
INVARIANTS
  TypeOK
  ThreadsPrivate
  NoSilentLoss
\* Everything stops when the prompts are used up.
CHECK_DEADLOCK FALSE

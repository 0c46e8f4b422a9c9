\* Two turns of two users or of one, a crash, failures anywhere, and the sweep.
SPECIFICATION Spec
CONSTANTS
  Users = {alice, bob}
  Collections = {general_memory, research_papers}
  None = None
  MaxTurns = 2
  MaxMessages = 3
  MaxFacts = 2
  ContextSize = 1
  PageSize = 1
  MaxCrashes = 1
INVARIANTS
  TypeOK
  TasksConserved
  FactsOwned
  FactsComplete
  DeadLetterClean
PROPERTIES
  ImplementsContract
\* Everything stops when the turns are used up.
CHECK_DEADLOCK FALSE

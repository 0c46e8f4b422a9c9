\* One request on a fresh thread: the safety of the tool loop and the ledger.
SPECIFICATION Spec
CONSTANTS
  general_memory = general_memory
  research_papers = research_papers
  unknown_domain = unknown_domain
  search = search
  lookup = lookup
  fetch = fetch
  None = None
  Lanes <- MCLanes
  DefaultLane = general_memory
  Domains <- MCDomains
  Calls = {search, lookup, fetch}
  Plans <- MCPlans
  MaxIterations = 3
  MaxToolCalls = 2
  MaxReworkCycles = 2
  MaxBatch = 2
  MaxRequests = 1
SYMMETRY CallSymmetry
INVARIANTS
  TypeOK
  IterationBound
  ToolBudgetBound
  ReworkBound
  RequestToolBound
  NoCallRepeated
  TaskStartsOnItsLane
  TaskIsolation
  CallsAnswered
  ResultsOwned
  SynthesisComplete
PROPERTIES
  ResultsFinal
\* A run stops at END or ABORTED.
CHECK_DEADLOCK FALSE

\* Two requests on one thread: progress, termination and the contract.
SPECIFICATION Spec
CONSTANTS
  general_memory = general_memory
  research_papers = research_papers
  unknown_domain = unknown_domain
  search = search
  lookup = lookup
  fetch = fetch
  None = None
  Lanes <- MCLanes
  DefaultLane = general_memory
  Domains <- MCDomains
  Calls = {search}
  Plans <- MCShortPlans
  MaxIterations = 2
  MaxToolCalls = 1
  MaxReworkCycles = 2
  MaxBatch = 1
  MaxRequests = 2
PROPERTIES
  StepsBounded
  ImplementsContract
\* A run stops at END or ABORTED once the last request was sent.
CHECK_DEADLOCK FALSE

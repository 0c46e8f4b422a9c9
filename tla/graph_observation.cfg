\* A tool result goes to the executor that asked for it (it does not).
SPECIFICATION Spec
CONSTANTS
  general_memory = general_memory
  research_papers = research_papers
  unknown_domain = unknown_domain
  search = search
  lookup = lookup
  fetch = fetch
  None = None
  Lanes <- MCLanes
  DefaultLane = general_memory
  Domains <- MCDomains
  Calls = {search}
  Plans <- MCShortPlans
  MaxIterations = 2
  MaxToolCalls = 1
  MaxReworkCycles = 2
  MaxBatch = 1
  MaxRequests = 1
INVARIANT
  ObservationReachesIssuer
CHECK_DEADLOCK FALSE

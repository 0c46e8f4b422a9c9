\* One call is enough to bind a model to a tool the tool node does not have.
SPECIFICATION Spec
CONSTANTS
  internal = internal
  remote = remote
  calculate_execution_time = calculate_execution_time
  search_web = search_web
  Servers = {internal, remote}
  Tools = {calculate_execution_time, search_web}
  Offers <- MCOffers
  Lanes = {"general_memory", "research_papers", "vision_detection"}
  Registry <- MCRegistry
  Tiers = {1, 2}
  Models = {"gpt-4o-mini", "gpt-4o", "haiku", "sonnet"}
  ModelOf <- MCModelOf
  Schemas = {critic, reflection}
  Keys = {k1, k2}
  Others = {"gemini"}
  None = None
  MaxCalls = 1
SYMMETRY GatewaySymmetry
INVARIANTS
  BoundToolsRunnable
\* A process stops when it is shut down.
CHECK_DEADLOCK FALSE

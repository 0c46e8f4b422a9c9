\* Two calls in two server processes, an upgrade and its rollback, and a restart.
SPECIFICATION Spec
CONSTANTS
  c1 = c1
  c2 = c2
  a = a
  x = x
  Calls = {c1, c2}
  Servers = {"grpc", "api"}
  Prompts <- MCPrompts
  Words <- MCWords
  Semantic <- MCSemantic
  Threshold = 92
  TopK = 1
  Keys = {"openai"}
  ModelsOf <- MCOpenAiUpgraded
  None = None
  MaxRestarts = 2
SYMMETRY CallSymmetry
INVARIANTS
  TypeOK
  ServedByVersion
  RefusedOnlyAtBirth
  CancelsHarmless
PROPERTIES
  ImplementsContract

\* Two concurrent requests, on either endpoint: what their clients see.
SPECIFICATION Spec
CONSTANTS
  r1 = r1
  r2 = r2
  member = member
  visitor = visitor
  ask = ask
  rephrase = rephrase
  other = other
  None = None
  Requests = {r1, r2}
  Users = {member}
  Anonymous = {}
  Prompts = {ask, rephrase}
  Similar <- MCSimilar
  MaxChunks = 2
PROPERTIES
  ServesContract

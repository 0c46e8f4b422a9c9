\* A user without a configuration is served by the default provider (never).
SPECIFICATION Spec
CONSTANTS
  r1 = r1
  r2 = r2
  member = member
  visitor = visitor
  ask = ask
  rephrase = rephrase
  other = other
  None = None
  Requests = {r1, r2}
  Users = {member, visitor}
  Anonymous = {visitor}
  Prompts = {ask, rephrase, other}
  Similar <- MCSimilar
  MaxChunks = 1
INVARIANT
  DefaultsSuffice

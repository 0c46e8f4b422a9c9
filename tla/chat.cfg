\* Two concurrent requests, on either endpoint, of either user.
SPECIFICATION Spec
CONSTANTS
  r1 = r1
  r2 = r2
  member = member
  visitor = visitor
  ask = ask
  rephrase = rephrase
  other = other
  None = None
  Requests = {r1, r2}
  Users = {member, visitor}
  Anonymous = {visitor}
  Prompts = {ask, rephrase, other}
  Similar <- MCSimilar
  MaxChunks = 2
SYMMETRY RequestSymmetry
INVARIANTS
  TypeOK
  GaugesAccount
  SseCachesWhole
  ServedGenuine
  PublishedExactly

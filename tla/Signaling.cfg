\* Two connections of one peer with two tokens, an admin, and a clock.
SPECIFICATION FairSpec
CONSTANTS
  None = None Admin = Admin Ping = Ping
  c1 = c1 c2 = c2 c3 = c3 i1 = i1 i2 = i2 t1 = t1 t2 = t2
  Conn = {c1, c2}
  Id = {i1}
  Token = {t1, t2}
  Grace = 1
  Keep = 1
  Timed = TRUE
INVARIANTS RegistryServes TokenGraceAfterConnect
PROPERTIES ImplementsRegistry NobodyWaitsForEver

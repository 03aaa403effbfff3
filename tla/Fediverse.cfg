\* Two requests at a time for one name or the primary one, a server that is
\* known by an address and by a name.
SPECIFICATION FedFairSpec
CONSTANTS
  None = None
  k1 = k1 k2 = k2 u1 = u1 pingo = pingo ip = ip name = name
  Request = {k1, k2}
  User = {u1, pingo}
  Primary = pingo
  Host = {ip, name}
  Address = {ip}
  FallbackKnown = FALSE
  MaxMishaps = 1
  MaxHostChanges = 1
INVARIANT Exclusive
PROPERTIES RefusedForItsName EveryRequestEnds

\* An appliance set up for one domain, a request for either of two DuckDNS
\* domains, and any two mishaps: orders of two tasks at a time, of three after
\* a restart with both domains configured.
SPECIFICATION FairSpec
CONSTANTS
  None = None Self = Self Main = Main HubLoop = HubLoop DuckLoop = DuckLoop
  h = h d1 = d1 d2 = d2 p1 = p1
  HubDomain = {h}
  DuckDomain = {d1, d2}
  Poster = {p1}
  Spare <- Numbers
  Setups <- OneDomain
  Visited = {None}
  MaxPosts = 1
  MaxMishaps = 2
INVARIANTS ServedWhole FilesMatch
PROPERTIES HandshakeMatches NoSecondOrder Certified

\* Two requests on top of what the server was started with, loops, a restart at
\* any step, saves that fail; every update ends.
SPECIFICATION DuckFairSpec
CONSTANTS
  None = None
  k1 = k1 k2 = k2 l1 = l1 l2 = l2 l3 = l3 l4 = l4 d1 = d1 d2 = d2 u1 = u1 t1 = t1
  n1 = n1 n2 = n2 m1 = m1 addr = addr cloud = cloud
  Poster = {k1, k2}
  Loop = {l1, l2}
  Domain = {d1, d2, u1}
  Token = {t1}
  Name = {n1, n2, m1, addr, cloud}
  WanAddress = addr
  HubName = cloud
  Trim <- TrimEach
  Clean <- TrimEach
  FullName <- FullEach
  Good <- OneAccount
  Starts <- Configured
  Asked <- AskedFor
  Hub = TRUE
  MaxConfigs = 1
  MaxRestarts = 1
INVARIANTS OnlyAccepted
PROPERTIES Converges
\* A server without credentials, all requests made, has nothing to do.
CHECK_DEADLOCK FALSE

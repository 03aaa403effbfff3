\* Two requests at a time, an allocation, the admin and the clock; no AuthSecret.
SPECIFICATION Spec
CONSTANTS
  None = None
  k1 = k1 k2 = k2 shared = shared token = token bad = bad custom = custom a1 = a1 a2 = a2 p1 = p1 p2 = p2
  Shared = shared
  Temporary = {}
  Known = {custom}
  User = {custom, bad}
  Ip = {a1}
  Port = {p1}
  Worker = {k1, k2}
  Threshold = 2
  AutoBlock = 1
  ManualBlock = 2
  Ban = 1
  Ttl = 1
  ClosedKeep = 0
  IdleKeep = 1
  IdleAfter = 0
  MaxLive = 2
  Blocks = TRUE
  Revokes = TRUE
  Timed = TRUE
INVARIANTS SessionsFollow BarredGetNothing BlocksHold
PROPERTY RevokedNotRenewed
SYMMETRY Symmetry

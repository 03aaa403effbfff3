\* Two requests at a time, crashes and restarts; writes succeed.
SPECIFICATION Spec
CONSTANTS
  None = None Torn = Torn
  k1 = k1 k2 = k2 p1 = p1 p2 = p2 s1 = s1 s2 = s2 s3 = s3
  Worker = {k1, k2}
  Peer = {p1, p2}
  Sub = {s1, s2, s3}
  MaxKeys = 2
  WriteFails = FALSE
INVARIANTS KeysMatch LostByRaceOnly
PROPERTY SavesDurably
SYMMETRY Symmetry
\* Once every key pair has been generated and lost the instance has no next start.
CHECK_DEADLOCK FALSE

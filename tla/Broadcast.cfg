\* Two publishers, two ids and a subscriber, who may be lost; one stream or two.
SPECIFICATION CastFairSpec
CONSTANTS
  None = None
  r1 = r1 r2 = r2 w1 = w1 i1 = i1 i2 = i2 t1 = t1
  Pub = {r1, r2}
  Sub = {w1}
  Id = {i1, i2}
  Track = {t1}
  IdsOf <- MCIdsOf
  Limits = {1, 2}
  Losses = TRUE
INVARIANTS NoTrackTwice DroppedClosed
PROPERTIES KeepsStreams LostMakesRoom
\* Once every request has been made nothing is left to happen.
CHECK_DEADLOCK FALSE

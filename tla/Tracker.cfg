\* Two clients, one of which stalls now and then, in two swarms.
SPECIFICATION FairSpec
CONSTANTS
  None = None
  s1 = s1 s2 = s2 s3 = s3 p1 = p1 p2 = p2 h1 = h1 h2 = h2
  Session = {s2, s3}
  PeerId = {p1, p2}
  Hash = {h1, h2}
  IdsOf <- IdsReconnect
  MaxOffers = 1
  Staller = {s3}
INVARIANTS IndexConsistent NoGhosts OffersToMembers
PROPERTIES ImplementsSwarms AnnounceAnswered
\* Once every connection has ended nothing is left to happen.
CHECK_DEADLOCK FALSE

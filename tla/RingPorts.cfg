\* Every configuration whose last port is below the largest uint16.
SPECIFICATION FairSpec
CONSTANTS
  PortBits = 4
  ConfiguredPorts = {0, 1, 2, 3, 5, 6, 7, 8, 11, 12, 13, 14}
INVARIANTS TypeOK RingExact
PROPERTY RingGetsBuilt

\* The default of -max-port: the largest uint16, here of 3 bits.
SPECIFICATION FairSpec
CONSTANTS
  PortBits = 3
  ConfiguredPorts = {5, 7}
PROPERTY RingGetsBuilt

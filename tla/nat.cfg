\* Six flows compete for three ports; entries live for two seconds.
SPECIFICATION NatSpec
CONSTANTS
  Endpoints = {e1, e2, e3}
  Protocols = {"TCP", "UDP"}
  Ports = {1024, 1025, 1026}
  EntryTimeout = 2
INVARIANTS
  NatTypeOK
  TablesAgree
  PortsExclusive
  NoPortLost
PROPERTIES
  StableMapping

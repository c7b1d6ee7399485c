\* Two addresses and five packets: two sessions of one address, two uploads.
\* Clients may fall silent, so the server may stop.
SPECIFICATION FairSpec
CONSTANTS
  Addresses = {a1, a2}
  MaxPackets = 5
INVARIANTS
  ServerTypeOK
  Registered
  ArrivalOrder
  FirstPacketPut
  UploadsApart
PROPERTIES
  ImplementsSession
  Drained
  AddressFreed
CHECK_DEADLOCK FALSE

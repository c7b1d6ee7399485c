\* Two hosts that share one public port, an address without host, three packets.
SPECIFICATION FairSpec
CONSTANTS
  Hosts = {h2, h3}
  Nobody = {absent}
  Remotes = {h1}
  Protocols = {"TCP"}
  Ports = {1024}
  EntryTimeout = 1
  MaxPackets = 3
INVARIANTS
  RouterTypeOK
  QueuedUnknown
  InOrder
  WaitingAsked
PROPERTIES
  FlowsAgree
  NoneForgotten
  WaitersResumed

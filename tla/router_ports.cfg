\* A violation is expected: two hosts, two ports, two packets.
SPECIFICATION Spec
CONSTANTS
  Hosts = {h2, h3}
  Nobody = {}
  Remotes = {h1}
  Protocols = {"TCP"}
  Ports = {1024, 1025}
  EntryTimeout = 1
  MaxPackets = 2
INVARIANTS
  NoCollision

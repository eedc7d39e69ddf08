SPECIFICATION Spec
CONSTANTS
  Names = {n1}
  Relay = relay
  Ids = {i1, i2, i3, i4}
  ByName = ByName
  Addrs = {a1}
  NoContainer = NoContainer
  NoAddr = NoAddr
  Clients = {c1, c2}
  NoRecord = NoRecord
  EgressModes = {TRUE, FALSE}
  Disruptions = {"call", "inspect", "relay"}
  MaxDisruptions = 1
  Promises = {}
SYMMETRY SymmetryOfClients
PROPERTY UnforcedRemoveSparesRunning

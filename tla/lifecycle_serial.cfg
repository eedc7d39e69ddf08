SPECIFICATION Spec
CONSTANTS
  Names = {n1, n2}
  Relay = relay
  Ids = {i1, i2, i3, i4}
  ByName = ByName
  Addrs = {a1}
  NoContainer = NoContainer
  NoAddr = NoAddr
  Clients = {c1, c2}
  NoRecord = NoRecord
  EgressModes = {TRUE, FALSE}
  Disruptions = {"call", "inspect", "restart"}
  MaxDisruptions = 1
  Promises = {"sandbox", "start"}
SYMMETRY SymmetryOfClients
INVARIANT TypeOK
INVARIANT HandleResolves
INVARIANT RelayOnEveryRunningNetwork
PROPERTY RemoveIsComplete
PROPERTY ForcedRemoveSucceeds
PROPERTY RemovedStaysRemoved

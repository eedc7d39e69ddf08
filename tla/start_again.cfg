SPECIFICATION Spec
CONSTANTS
  Names = {n1}
  Relay = relay
  Ids = {i1, i2, i3}
  ByName = ByName
  Addrs = {a1}
  NoContainer = NoContainer
  NoAddr = NoAddr
  Clients = {c1}
  NoRecord = NoRecord
  EgressModes = {TRUE}
  Disruptions = {}
  MaxDisruptions = 0
  Promises = {"sandbox", "start"}
SYMMETRY Symmetry
PROPERTY StartBoots

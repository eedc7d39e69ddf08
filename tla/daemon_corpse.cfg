SPECIFICATION Spec
CONSTANTS
  Daemons = {d1, d2, d3}
  Commands = {k1, k2}
  NoOne = NoOne
  Faults = {}
SYMMETRY Symmetry
PROPERTY OnlyCorpsesAreCleared

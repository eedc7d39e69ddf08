SPECIFICATION FairSpec
CONSTANTS
  Modes = {"tty", "pipe"}
  MaxInput = 2
  MaxOutput = 2
  MaxSize = 3
INVARIANT TypeOK
INVARIANT NeverUnsized
PROPERTY KeepsThePromise
PROPERTY SizeArrives
PROPERTY SessionEnds
PROPERTY DaemonLetsGo
CHECK_DEADLOCK FALSE

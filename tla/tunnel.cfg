SPECIFICATION Spec
CONSTANTS
  Hops = 2
  Room = 2
  MaxChunks <- Chunks
  MaxFaults = 1
PROPERTIES KeepsTheStreams StreamsComplete ProcessesLetGo
CHECK_DEADLOCK FALSE

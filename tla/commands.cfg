CONSTANTS
  Rejected = Rejected
  NoSandbox = NoSandbox
  Processes = {p1, p2}
  Half = 536870912
  Dirs <- MCDirs
  Cleaned <- MCCleaned
  ValidNames <- MCNames
  Order <- MCOrder
  Agents <- MCAgents
  Lines <- MCLines
  Priors <- MCPriors
  Egress = TRUE
  ExitCodes = {0, 130}
SPECIFICATION Spec
SYMMETRY Interchangeable
INVARIANTS
  TypeOK
  RunReattaches
  ListIsFaithful
  ContainerIsAsAsked
  AgentRunsWhereAsked
CHECK_DEADLOCK FALSE

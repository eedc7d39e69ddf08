SPECIFICATION FairSpec
CONSTANTS
  Daemons = {d1, d2, d3}
  Commands = {k1, k2}
  NoOne = NoOne
  Faults = {"crash", "write"}
INVARIANT TypeOK
INVARIANT OneDaemonPastTheProxy
INVARIANT AnsweringPidIsOnRecord
INVARIANT LeaversOwnTheFiles
PROPERTY SignalledDaemonExits

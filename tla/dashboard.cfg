SPECIFICATION Spec
CONSTANTS
  h1 = h1
  Names = {1, 2}
  Hosts = {h1, NoName}
  NoName = NoName
  MaxLists = 2
  MaxEvents = 2
INVARIANT TypeOK
INVARIANT OneActionAtATime
PROPERTY CursorStaysOnSandbox
PROPERTY ListingSettles
PROPERTY LoadOfStoppedGoesAway
CHECK_DEADLOCK FALSE

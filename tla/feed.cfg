SPECIFICATION Spec
CONSTANTS
  Limit = 3
  Polls = {p1, p2}
  ViewLimit = 2
  MaxSeq = 5
  MaxRestarts = 1
SYMMETRY Symmetry
INVARIANT TypeOK
INVARIANT LogIsDense
INVARIANT NothingIsSkipped
PROPERTY CursorStaysOnDecision

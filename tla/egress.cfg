SPECIFICATION Spec
CONSTANTS
  e1 = e1
  e2 = e2
  r1 = r1
  NoPolicy = NoPolicy
  Editors = {e1, e2}
  Requests = {r1}
  MaxEdits = 2
  Disruptions = {"outage"}
  Literals <- MCLiterals
  PortLike <- MCPortLike
  Balanced <- MCBalanced
  Patterns <- MCPatterns
  Targets <- MCTargets
  Answers <- MCAnswers
SYMMETRY Symmetry
INVARIANT TypeOK
INVARIANT OpenAsThePolicySays
INVARIANT OneDecisionOnRecord
INVARIANT OneRulePerPattern
INVARIANT VerdictsAreAsAsked
CHECK_DEADLOCK FALSE

SPECIFICATION Spec
CONSTANTS
  n1 = n1
  n2 = n2
  r1 = r1
  r2 = r2
  f1 = f1
  Nodes <- TwoNodes
  Own <- TwoOwn
  Foreign <- OneForeign
  MaxInbox = 3
  MaxChatter = 1
SYMMETRY NodeSymmetry
CONSTRAINT Scenario
CHECK_DEADLOCK FALSE
INVARIANT TypeOK
INVARIANT BoardIsOfCurrent
INVARIANT LateVerdictShown
PROPERTY TimeoutOnlyInSilence

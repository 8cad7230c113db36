SPECIFICATION Spec
CONSTANTS
  c1 = c1
  c2 = c2
  c3 = c3
  c4 = c4
  ann = ann
  bob = bob
  kim = kim
  None = None
  Calls <- FourCalls
  Users <- ThreeUsers
  Admins <- TwoAdmins
  MaxFaults = 1
SYMMETRY Alike
CHECK_DEADLOCK FALSE
INVARIANTS
  TypeOK
  LastChangeStands
  DecisionIsSigned
  AnswersTellWhatWasSaved

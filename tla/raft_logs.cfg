SPECIFICATION Spec
CONSTANTS
  s1 = s1
  s2 = s2
  s3 = s3
  v1 = v1
  v2 = v2
  Server = {s1, s2, s3}
  Value = {v1}
  Noop = Noop
  None = None
  Races = {}
  MaxElection = 2
  MaxRound = 3
  MaxCrash = 0
  MaxLate = 2
SYMMETRY Symmetry
VIEW LiveNodes
CHECK_DEADLOCK FALSE
INVARIANTS LogMatching NoStrandedPeer
CONSTRAINT LateOrThirdRound

SPECIFICATION Spec
CONSTANTS
  s1 = s1
  s2 = s2
  s3 = s3
  v1 = v1
  v2 = v2
  Server = {s1, s2, s3}
  Value = {v1}
  Noop = Noop
  None = None
  Races = {}
  MaxElection = 3
  MaxRound = 2
  MaxCrash = 1
  MaxLate = 0
SYMMETRY Symmetry
VIEW Live
CHECK_DEADLOCK FALSE
INVARIANTS TypeOK StateMachineSafety  LeaderCompleteness VoteInv ElectionSafety
PROPERTIES AppliedPrefixStable
CONSTRAINT CrashOrThirdTerm

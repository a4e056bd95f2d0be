CONSTANTS
  Iterations = 2
  CpuCases = {"multi", "single"}
  Throttles = {TRUE, FALSE}
  SliceCases = {TRUE, FALSE}
  PrivCases = {TRUE, FALSE}
SPECIFICATION Spec
INVARIANTS TypeOK FailExplained
PROPERTY Termination

CONSTANTS
  AtomicCases = {TRUE, FALSE}
  SleepCases = {TRUE}
SPECIFICATION Spec
INVARIANT VerdictMatchesCreations

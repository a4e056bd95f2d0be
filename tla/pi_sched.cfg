CONSTANTS
  Variants = {"4-1", "1-3"}
  Protocols = {"inherit", "ignored"}
  CpuCases = {"multi", "single"}
  Throttles = {TRUE, FALSE}
  SleepCases = {TRUE, FALSE}
  PrivCases = {TRUE, FALSE}
SPECIFICATION Spec
INVARIANTS TypeOK VerdictSound
PROPERTY Termination

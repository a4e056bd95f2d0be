CONSTANTS
  Variants = {"4-1"}
  Protocols = {"inherit"}
  CpuCases = {"multi"}
  Throttles = {FALSE}
  SleepCases = {TRUE}
  PrivCases = {TRUE}
SPECIFICATION Spec
INVARIANT NoFalseFailure

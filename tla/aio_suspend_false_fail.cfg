CONSTANTS
  NumAiocbs = 3
  WaitForAiocb = 1
  IntrCases = {TRUE, FALSE}
SPECIFICATION Spec
INVARIANT NoFalseFailure

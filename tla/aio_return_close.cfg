CONSTANTS
  CancelCases = {TRUE, FALSE}
  SecondCases = {"error", "repeat"}
SPECIFICATION Spec
INVARIANT NoFalseFailure

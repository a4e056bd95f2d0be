\* A writer-preferring lock and sleeps that last as long as their comments
\* assume.
CONSTANTS
  LockKinds = {"prefer_writer"}
  SleepCases = {TRUE}
SPECIFICATION Spec
INVARIANT NoFalseFailure

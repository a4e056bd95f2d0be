\* Both lock behaviours, sleeps long enough or not.
CONSTANTS
  LockKinds = {"prefer_writer", "prefer_reader"}
  SleepCases = {TRUE, FALSE}
SPECIFICATION Spec
INVARIANTS TypeOK PassImpliesWriterPreferred
PROPERTY Termination

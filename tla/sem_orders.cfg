\* Both wake-up rules, with and without SCHED_RR privilege, with main's
\* sleep(1) long enough or not.
CONSTANTS
  WakePolicies = {"priority", "any"}
  Privileges = {TRUE, FALSE}
  SleepCases = {TRUE, FALSE}
SPECIFICATION Spec
INVARIANTS TypeOK VerdictSound NoFalseFailure

CONSTANTS
  Builds = {"synchro", "nosynchro"}
  EsrchCases = {TRUE, FALSE}
  EintrCases = {TRUE, FALSE}
SPECIFICATION Spec
INVARIANTS TypeOK OneSignalInFlight
PROPERTY Termination

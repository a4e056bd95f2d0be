CONSTANTS
  BufNb = 3
  SigLimits = {2, 3}
SPECIFICATION Spec
INVARIANT TypeOK
PROPERTIES Termination RefinesAsyncNotification

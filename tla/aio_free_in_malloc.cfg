CONSTANTS
  BufNb = 2
  SigLimits = {2}
SPECIFICATION Spec
INVARIANT NoFreeInMalloc

\* Two callers and three addresses that are used again.
SPECIFICATION Spec
CONSTANTS
  Callers = {c1, c2}
  Addrs = {a1, a2, a3}
  MaxCalls = 2
  None = None
SYMMETRY Symmetry
INVARIANTS
  CookieLifetime
  OwnResult
\* The bound on the calls ends the run.
CHECK_DEADLOCK FALSE

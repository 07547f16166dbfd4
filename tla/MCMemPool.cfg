\* Two threads, three blocks, six compare-and-swaps of each direction.
SPECIFICATION Spec
CONSTANTS
  Blocks = {b1, b2, b3}
  Threads = {t1, t2}
  NULL = NULL
  MaxCtr = 6
  W = 3
SYMMETRY Symmetry
INVARIANTS
  BlocksConserved
\* The bound on the counter ends the run.
CHECK_DEADLOCK FALSE

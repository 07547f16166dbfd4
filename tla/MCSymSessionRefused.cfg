\* A ring with room for one request refuses a part.
SPECIFICATION Spec
CONSTANTS
  Threads = {t1, t2}
  p1 = p1
  p2 = p2
  p3 = p3
  Parts <- ThreeParts
  Fulls = {f1, f2}
  max_requests_inflight = 1
  \* Many retries: the shortest counterexample is not an exhausted retry loop.
  DEQUEUE_MSGPUT_MAX_RETRIES = 12
  MaxReaders = 2
  NoReq = NoReq
  NoThread = NoThread
  Poller = Poller
SYMMETRY Symmetry
INVARIANTS
  QueueNotStranded
\* A session whose requests are done may rest.
CHECK_DEADLOCK FALSE

\* A message of three parts and two full packets, over a ring that gets full.
SPECIFICATION FairSpec
CONSTANTS
  Threads = {t1, t2}
  p1 = p1
  p2 = p2
  p3 = p3
  Parts <- ThreeParts
  Fulls = {f1, f2}
  max_requests_inflight = 2
  DEQUEUE_MSGPUT_MAX_RETRIES = 2
  MaxReaders = 2
  NoReq = NoReq
  NoThread = NoThread
  Poller = Poller
INVARIANTS
  OnePartInUse
  PartsInOrder
  SentOnce
  SessionIdle
PROPERTIES
  QueuedSent
  CallbacksComplete
\* A session whose requests are done may rest.
CHECK_DEADLOCK FALSE

\* Two threads put and poll; the head write is put off for up to half the ring.
SPECIFICATION FairSpec
CONSTANTS
  Threads = {t1, t2}
  Msgs = {m1, m2, m3}
  TxSlots = 3
  RxSlots = 4
  max_requests_inflight = 2
  min_resps_per_head_write = 2
  Quotas = {2}
  ICP_NO_RESPONSE_QUOTA = 4
  resp = "ICP_RESP_TYPE_POLL"
  SendSeqModulus = 4
  MaxMissedPolls = 1
  NoThread = NoThread
  Empty = Empty
INVARIANTS
  TypeOK
  OnePoller
  InFlightExact
  HeadLagBounded
PROPERTIES
  RequestsKept
  ResponsesKept
  ServiceSpec
  EveryRequestAnswered

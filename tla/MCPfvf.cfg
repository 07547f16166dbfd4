\* Late answers, and a notification at any moment; the VF's struct is one
\* byte shorter than the PF's message.
CONSTANTS
    Block <- Capabilities
    buffer_len = 3
    PfVersion = 4
    PfCompat = 3
    ADF_PFVF_MSG_RESP_RETRIES = 1
    MaxOps = 3
    MaxNotes = 1
SPECIFICATION FairSpec
\* The bound on the operations ends a behaviour.
CHECK_DEADLOCK FALSE
INVARIANTS
    AnswersIntact
PROPERTY
    ExchangeEnds

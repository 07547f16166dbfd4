-------------------------------- MODULE Pfvf --------------------------------
(***************************************************************************)
(* The mailbox between a virtual function (VF) and the driver of the       *)
(* physical function (PF): one register per direction, an interrupt bit    *)
(* that the receiver clears as its acknowledgement (adf_pfvf_proto.c), and *)
(* on top of it the VF's notifications, the version exchange and the block *)
(* messages, read byte by byte and closed by a CRC (adf_pfvf_vf_msg.c).    *)
(* The PF answers when it likes: an answer that comes after the VF has     *)
(* sent its request again is followed by a second one, which the VF reads  *)
(* as the answer to a later request.                                       *)
(***************************************************************************)
EXTENDS Integers, Sequences, Bitwise

CONSTANTS
    Block,       \* the capabilities message of the PF: version, length, payload
    buffer_len,  \* size of the VF's struct for it; every field is one byte
    PfVersion,   \* the PF driver's compatibility version and its verdict
    PfCompat,    \*   on the VF's
    ADF_PFVF_MSG_RESP_RETRIES,
    MaxOps,      \* bounds on the operations and the notifications of a
    MaxNotes     \*   behaviour

ADF_PFVF_COMPAT_RING_TO_SVC_MAP == 4
ADF_PFVF_COMPAT_THIS_VERSION == 5
ADF_PF2VF_VF_COMPATIBLE == 1
ADF_PF2VF_VF_COMPAT_UNKNOWN == 3
ADF_PF2VF_BLKMSG_RESP_TYPE_DATA == 0
ADF_PF2VF_BLKMSG_RESP_TYPE_CRC == 1
ADF_PF2VF_BLKMSG_RESP_TYPE_ERROR == 2
PFVF_BLKMSG_HEADER_SIZE == 2

ASSUME PfvfAssumption ==
    /\ Len(Block) = PFVF_BLKMSG_HEADER_SIZE + Block[2]
    /\ \A i \in DOMAIN Block : Block[i] \in 0 .. 255
    /\ buffer_len \in Nat /\ buffer_len >= PFVF_BLKMSG_HEADER_SIZE
    /\ PfVersion \in 1 .. 255 /\ PfCompat \in 1 .. 3

\* pfvf_crc8_table: the remainders of the polynomial 0x97 (decimal 151)
pfvf_crc8_table(byte) ==
    LET turn[i \in 0 .. 8, crc \in 0 .. 255] ==
            IF i = 0 THEN crc
            ELSE turn[i - 1, ((2 * crc) % 256) ^^ (IF crc >= 128 THEN 151 ELSE 0)]
    IN  turn[8, byte]

adf_pfvf_calc_blkmsg_crc(buf) ==
    LET step[crc \in 0 .. 255, byte \in 0 .. 255] == pfvf_crc8_table(crc ^^ byte)
        upTo[n \in 0 .. Len(buf)] ==
            IF n = 0 THEN 255 ELSE step[upTo[n - 1], buf[n]]
    IN  upTo[Len(buf)]

\* What the PF answers to a request for a byte or a CRC: the two lowest bits
\* of the data are the kind of answer, the others the byte.
BlkResp(req) ==
    LET kind == IF req.byte >= Len(Block) THEN ADF_PF2VF_BLKMSG_RESP_TYPE_ERROR
                ELSE IF req.crc THEN ADF_PF2VF_BLKMSG_RESP_TYPE_CRC
                ELSE ADF_PF2VF_BLKMSG_RESP_TYPE_DATA
        byte == CASE kind = ADF_PF2VF_BLKMSG_RESP_TYPE_ERROR -> 1
                  [] kind = ADF_PF2VF_BLKMSG_RESP_TYPE_CRC ->
                        adf_pfvf_calc_blkmsg_crc(SubSeq(Block, 1, req.byte + 1))
                  [] OTHER -> Block[req.byte + 1]
    IN  [type |-> "BLKMSG_RESP", data |-> 4 * byte + kind]

VersionResp == [type |-> "VERSION_RESP", data |-> 256 * PfCompat + PfVersion]
Notification == [type |-> "RESTARTING", data |-> 0]
NoMessage == [type |-> "none", data |-> 0]

VARIABLES
    vf2pf,     \* VF to PF register: interrupt bit and message
    pf2vf,     \* PF to VF register
    pf,        \* requests the PF has acknowledged and not answered yet
    pc, op,    \* where the VF is, and in which operation
    retries,   \* counter of adf_send_vf2pf_req
    val,       \* what adf_pfvf_gen4_recv read from the register
    buffer,    \* bytes of the block message received so far
    available, \* vf2pf_available: -1 maybe, 0 no, 1 yes
    initialized, \* dev->pfvf_initialized
    compat,    \* dev->compat_version, 0 while unknown
    caps,      \* dev->ext_dc_caps, capabilities, frequency: the fields that
               \* versions 1, 2, ... of the message brought, 0 while unknown
    last,      \* the operation that ended last, and whether it succeeded
    ops,       \* operations started
    notes,     \* notifications sent by the PF
    late       \* history: the VF stopped waiting for an answer that the PF was
               \* about to give, because none came in time or because it took a
               \* notification for it, or was notified in the middle of an
               \* exchange

vars == <<vf2pf, pf2vf, pf, pc, op, retries, val, buffer, available,
          initialized, compat, caps, last, ops, notes, late>>

Versions == 1 .. buffer_len - PFVF_BLKMSG_HEADER_SIZE

Notifications == {"INIT", "SHUTDOWN", "RESTARTING_COMPLETE"}
Ops == Notifications \cup {"COMPAT", "CAPS", "CHECK"}
None == "none"

Init ==
    /\ vf2pf = [int |-> FALSE, msg |-> NoMessage]
    /\ pf2vf = [int |-> FALSE, msg |-> NoMessage]
    /\ pf = <<>>
    /\ pc = "idle" /\ op = None /\ retries = 0 /\ val = NoMessage
    /\ buffer = <<>>
    /\ available = -1 /\ initialized = FALSE /\ compat = 0
    /\ caps = [v \in Versions |-> 0]
    /\ last = [op |-> None, ok |-> FALSE]
    /\ ops = 0 /\ notes = 0 /\ late = FALSE

-----------------------------------------------------------------------------
(* The VF *)

\* Mutant: the VF's buffer is not minded.
msg_len_untruncated(buf) == PFVF_BLKMSG_HEADER_SIZE + buf[2]

\* adf_send_vf2pf_blkmsg_req: the length asked for, once the header is there;
\* never more than the VF's buffer holds
msg_len(buf) ==
    LET len == PFVF_BLKMSG_HEADER_SIZE + buf[2]
    IN  IF buffer_len < len THEN buffer_len ELSE len

\* The next byte asked for, or the CRC when the message is complete.
BlkReq(buf) ==
    LET complete == Len(buf) >= 2 /\ Len(buf) = msg_len(buf)
    IN  [type |-> "BLOCK_REQ", crc |-> complete,
         byte |-> IF complete THEN Len(buf) - 1 ELSE Len(buf)]

Request(o, buf) ==
    IF o = "CAPS" THEN BlkReq(buf) ELSE [type |-> o]

\* adf_pfvf_gen4_send writes the register and waits for the acknowledgement.
Send(msg) == vf2pf' = [int |-> TRUE, msg |-> msg] /\ pc' = "sent"

\* The conditions of adf_vf2pf_notify_*, check_compat_version and
\* get_capabilities; adf_check_pf2vf_notification only looks at the register.
MayStart(o) ==
    \/ o = "CHECK"
    \/ /\ available # 0
       /\ o \in {"SHUTDOWN", "RESTARTING_COMPLETE"} => initialized
       /\ o = "CAPS" => compat >= 2

Start(o) ==
    /\ pc = "idle" /\ ops < MaxOps /\ MayStart(o)
    /\ op' = o /\ ops' = ops + 1
    /\ retries' = 0 /\ buffer' = <<>>
    /\ IF o = "CHECK" THEN pc' = "recv" /\ UNCHANGED vf2pf
                      ELSE Send(Request(o, <<>>))
    /\ UNCHANGED <<pf2vf, pf, val, available, initialized, compat, caps, last,
                   notes, late>>

End(ok) ==
    /\ pc' = "idle" /\ op' = None /\ val' = NoMessage
    /\ last' = [op |-> op, ok |-> ok]

\* adf_set_vf2pf_available(VF2PF_NOT_AVAILABLE) after a failure
Disable == available' = 0

\* adf_pfvf_msg_ack_timed_out: the PF cleared the bit in time ...
Acked ==
    /\ pc = "sent" /\ ~vf2pf.int
    /\ \/ /\ op \in Notifications
          /\ initialized' = (op = "INIT")
          /\ End(TRUE)
       \/ /\ op \notin Notifications
          /\ pc' = "recv"
          /\ UNCHANGED <<op, val, last, initialized>>
    /\ UNCHANGED <<vf2pf, pf2vf, pf, retries, buffer, available, compat, caps,
                   ops, notes, late>>

\* ... or it did not.
AckTimedOut ==
    /\ pc = "sent" /\ vf2pf.int
    /\ Disable /\ End(FALSE)
    /\ UNCHANGED <<vf2pf, pf2vf, pf, retries, buffer, initialized, compat,
                   caps, ops, notes, late>>

\* adf_pfvf_gen4_recv reads the register ...
RecvRead ==
    /\ pc = "recv" /\ pf2vf.int
    /\ val' = pf2vf.msg
    /\ pc' = "ack"
    /\ UNCHANGED <<vf2pf, pf2vf, pf, op, retries, buffer, available,
                   initialized, compat, caps, last, ops, notes, late>>

\* ... and finds nothing: adf_send_vf2pf_req sends the request again
Retry ==
    /\ op # "CHECK" /\ retries < ADF_PFVF_MSG_RESP_RETRIES
    /\ retries' = retries + 1
    /\ Send(Request(op, buffer))
    /\ UNCHANGED <<op, val, available, last>>

\* Mutant: the VF gives up one retry later than it retries.
GiveUpLate ==
    /\ op # "CHECK" /\ retries = ADF_PFVF_MSG_RESP_RETRIES + 1
    /\ Disable /\ End(FALSE)
    /\ UNCHANGED <<vf2pf, retries>>

\* or gives up.
GiveUp ==
    /\ op # "CHECK" /\ retries = ADF_PFVF_MSG_RESP_RETRIES
    /\ Disable /\ End(FALSE)
    /\ UNCHANGED <<vf2pf, retries>>

RecvNothing ==
    /\ pc = "recv" /\ ~pf2vf.int
    /\ late' = (late \/ pf # <<>>)
    /\ \/ Retry
       \/ GiveUp
       \/ op = "CHECK" /\ End(FALSE) /\ UNCHANGED <<vf2pf, retries, available>>
    /\ UNCHANGED <<pf2vf, pf, buffer, initialized, compat, caps, ops, notes>>

\* adf_vf2pf_check_compat_version
Compatible(msg) ==
    LET version == msg.data % 256
        verdict == (msg.data \div 256) % 4
    IN  /\ msg.type = "VERSION_RESP"
        /\ \/ verdict = ADF_PF2VF_VF_COMPATIBLE
           \/ /\ verdict = ADF_PF2VF_VF_COMPAT_UNKNOWN
              /\ version >= ADF_PFVF_COMPAT_RING_TO_SVC_MAP
              /\ version < ADF_PFVF_COMPAT_THIS_VERSION

RecvCompat ==
    /\ op = "COMPAT"
    /\ compat' = IF Compatible(val) THEN val.data % 256 ELSE compat
    /\ End(Compatible(val))
    /\ UNCHANGED <<vf2pf, retries, buffer, available, caps>>

CrcMatches(crc) == crc = adf_pfvf_calc_blkmsg_crc(buffer)

\* adf_vf2pf_get_capabilities: the fields of the message's version, or of the
\* latest that the VF knows
FieldsOf(version) == IF version \in Versions THEN 1 .. version ELSE Versions

Fits(v) == Len(buffer) >= PFVF_BLKMSG_HEADER_SIZE + v

\* Those that the message is long enough for are taken.
TakeFields ==
    caps' = [v \in Versions |->
                IF v \in FieldsOf(buffer[1]) /\ Fits(v)
                THEN buffer[PFVF_BLKMSG_HEADER_SIZE + v] ELSE caps[v]]

\* adf_vf2pf_blkmsg_data_req does not look at the type of the answer: it
\* takes a byte out of whatever message came.
RecvByte ==
    LET byte == (val.data \div 4) % 256
        error == val.data % 4 = ADF_PF2VF_BLKMSG_RESP_TYPE_ERROR
        complete == BlkReq(buffer).crc
        buf == Append(buffer, byte)
    IN  /\ op = "CAPS"
        /\ \/ /\ ~error /\ complete /\ CrcMatches(byte)
              /\ TakeFields
              /\ End(\A v \in FieldsOf(buffer[1]) : Fits(v))
              /\ UNCHANGED <<vf2pf, retries, buffer, available>>
           \/ /\ \/ error
                 \/ complete /\ ~CrcMatches(byte)
                 \/ Len(buffer) < PFVF_BLKMSG_HEADER_SIZE /\ byte = 0
              /\ Disable /\ End(FALSE)
              /\ UNCHANGED <<vf2pf, retries, buffer, caps>>
           \/ /\ ~error /\ ~complete
              /\ Len(buffer) < PFVF_BLKMSG_HEADER_SIZE => byte # 0
              /\ buffer' = buf /\ retries' = 0
              /\ Send(Request(op, buf))
              /\ UNCHANGED <<op, val, available, caps, last>>
        /\ UNCHANGED compat

\* adf_pfvf_gen4_recv acknowledges by writing back what it read without the
\* interrupt bit; the caller looks at the message.  An exchange that ends with
\* a notification read as the answer leaves the answer to the next one.
RecvAck ==
    /\ pc = "ack"
    /\ pf2vf' = [int |-> FALSE, msg |-> val]
    /\ \/ RecvCompat
       \/ RecvByte
       \/ /\ op = "CHECK" /\ End(TRUE)
          /\ UNCHANGED <<vf2pf, retries, buffer, available, compat, caps>>
    /\ late' = (late \/ (pc' = "idle" /\ pf # <<>>))
    /\ UNCHANGED <<pf, initialized, ops, notes>>

-----------------------------------------------------------------------------
(* The PF driver *)

\* It reads the request and acknowledges it.
PfAck ==
    /\ vf2pf.int
    /\ vf2pf' = [vf2pf EXCEPT !.int = FALSE]
    /\ pf' = IF vf2pf.msg.type \in Notifications THEN pf
             ELSE Append(pf, vf2pf.msg)
    /\ UNCHANGED <<pf2vf, pc, op, retries, val, buffer, available, initialized,
                   compat, caps, last, ops, notes, late>>

\* It answers in order, some time later.  It waits a while for the VF to
\* acknowledge what it sent before, not for ever.
PfRespond ==
    /\ pf # <<>>
    /\ pf' = Tail(pf)
    /\ pf2vf' = [int |-> TRUE,
                 msg |-> IF Head(pf).type = "COMPAT" THEN VersionResp
                         ELSE BlkResp(Head(pf))]
    /\ UNCHANGED <<vf2pf, pc, op, retries, val, buffer, available, initialized,
                   compat, caps, last, ops, notes, late>>

\* It tells the VF that the device is about to be reset.
PfNotify ==
    /\ notes < MaxNotes /\ notes' = notes + 1
    /\ ~pf2vf.int
    /\ late' = (late \/ pc # "idle")
    /\ pf2vf' = [int |-> TRUE, msg |-> Notification]
    /\ UNCHANGED <<vf2pf, pf, pc, op, retries, val, buffer, available,
                   initialized, compat, caps, last, ops>>

-----------------------------------------------------------------------------

VfStep == Acked \/ AckTimedOut \/ RecvRead \/ RecvNothing \/ RecvAck

Next ==
    \/ \E o \in Ops : Start(o)
    \/ VfStep
    \/ PfAck \/ PfRespond \/ PfNotify

Spec == Init /\ [][Next]_vars

\* The VF's loops run; nothing is assumed of the PF.
FairSpec == Spec /\ WF_vars(VfStep)

-----------------------------------------------------------------------------

\* What the VF takes from the mailbox is what the PF sent for it.  The bytes of
\* a block message never run past the VF's struct, whatever length the PF sends
\* or a misplaced answer makes of it (adf_send_vf2pf_blkmsg_req), and the VF
\* works with the version that the PF announced, never with bits of another
\* message (adf_vf2pf_check_compat_version).  As long as the VF has read every
\* answer the PF owed it and no notification came in the middle of an exchange,
\* a block message that is accepted is the PF's, cut to the size of the struct,
\* and what it brought is in the field it belongs to
\* (adf_vf2pf_get_capabilities).  Once an answer is left over, bytes may come
\* from the answers to other requests, and eight bits of CRC are all that
\* guards them: for some contents of the message they do not.
AnswersIntact ==
    /\ Len(buffer) <= buffer_len
    /\ compat \in {0, PfVersion}
    /\ \/ late
       \/ /\ last = [op |-> "CAPS", ok |-> TRUE] /\ pc = "idle" =>
                buffer = SubSeq(Block, 1, IF buffer_len < Len(Block)
                                          THEN buffer_len ELSE Len(Block))
          /\ \A v \in Versions :
                caps[v] # 0 => caps[v] = Block[PFVF_BLKMSG_HEADER_SIZE + v]

\* Every exchange comes to an end, though the PF may never answer
\* (adf_send_vf2pf_req and adf_pfvf_msg_ack_timed_out).
ExchangeEnds == pc # "idle" ~> pc = "idle"

=============================================================================

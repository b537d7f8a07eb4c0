------------------------------ MODULE FrameParser ------------------------------
(*****************************************************************************)
(* The receiving end of the binary protocol, and the Fletcher-16 check of a  *)
(* frame                                                                     *)
(*                                                                           *)
(*     0xAA 0x55 id length payload[1..length] sum1 sum2                      *)
(*                                                                           *)
(* FrameParser::process_byte serves each channel of the vehicle; its twin    *)
(* processIncomingByte serves the ground station, with a buffer that is      *)
(* longer than any length.  An action is one byte.  Who sends the bytes, and *)
(* what happens to them on the way, is for FrameStream and FrameLine to say. *)
(*****************************************************************************)
EXTENDS Integers, Sequences

CONSTANT MaxPayload    \* sizeof(FrameParser::payload), 128 bytes; rxBuffer has 256

ASSUME ParserAssumption == MaxPayload \in 1..256

Bytes == 0..255

Preamble0 == 170
Preamble1 == 85

\* The two sums of calculate_fletcher16.
Sums(s) ==
    LET sums[n \in 0..Len(s)] ==
            IF n = 0 THEN <<0, 0>>
            ELSE LET before == sums[n - 1]
                     sum1   == (before[1] + s[n]) % 255
                 IN  <<sum1, (before[2] + sum1) % 255>>
    IN  sums[Len(s)]

\* The low byte and the high byte of the checksum.
Fletcher(s) == <<Sums(s)[1], Sums(s)[2]>>

\* Mutant of Checksum: the header is left out of the sum.
ChecksumPayload(m) == Fletcher(m.payload)

\* A message's checksum covers its id, its length and its payload.
Checksum(m) == Fletcher(<<m.id, Len(m.payload)>> \o m.payload)

\* The bytes of a message on the line: init_packet and finalize_packet.
Wire(m) == <<Preamble0, Preamble1, m.id, Len(m.payload)>> \o m.payload \o Checksum(m)

VARIABLES
    state,      \* RxState
    msgId,      \* msg_id
    len,        \* len
    payload,    \* payload[0 .. payload_idx - 1]
    chkLow,     \* chk_low
    handled     \* what the last byte completed: at most one message and its verdict

parserVars == <<state, msgId, len, payload, chkLow, handled>>

States == {"WAIT_PREAMBLE_0", "WAIT_PREAMBLE_1", "READ_MSG_ID", "READ_LENGTH",
           "READ_PAYLOAD", "READ_CHECKSUM_LOW", "READ_CHECKSUM_HIGH"}

ParserInit ==
    /\ state = "WAIT_PREAMBLE_0"
    /\ msgId = 0
    /\ len = 0
    /\ payload = <<>>
    /\ chkLow = 0
    /\ handled = {}

WaitPreamble0(b) ==
    /\ state = "WAIT_PREAMBLE_0"
    /\ state' = IF b = Preamble0 THEN "WAIT_PREAMBLE_1" ELSE state
    /\ handled' = {}
    /\ UNCHANGED <<msgId, len, payload, chkLow>>

\* Mutant of AfterPreamble0: a repeated first preamble byte starts the search anew.
AfterPreamble0Strict(b) == IF b = Preamble1 THEN "READ_MSG_ID" ELSE "WAIT_PREAMBLE_0"

\* Mutant of AfterPreamble0: only a second preamble byte ends the wait.
AfterPreamble0Late(b) == IF b = Preamble1 THEN "READ_MSG_ID" ELSE "WAIT_PREAMBLE_1"

\* A repeated first preamble byte may itself begin the frame.
AfterPreamble0(b) == CASE b = Preamble1 -> "READ_MSG_ID"
                       [] b = Preamble0 -> "WAIT_PREAMBLE_1"
                       [] OTHER         -> "WAIT_PREAMBLE_0"

WaitPreamble1(b) ==
    /\ state = "WAIT_PREAMBLE_1"
    /\ state' = AfterPreamble0(b)
    /\ handled' = {}
    /\ UNCHANGED <<msgId, len, payload, chkLow>>

ReadMsgId(b) ==
    /\ state = "READ_MSG_ID"
    /\ msgId' = b
    /\ state' = "READ_LENGTH"
    /\ handled' = {}
    /\ UNCHANGED <<len, payload, chkLow>>

\* Mutant of AfterLength: the bound is not checked.
AfterLengthUnbounded(b) == IF b = 0 THEN "READ_CHECKSUM_LOW" ELSE "READ_PAYLOAD"

\* A length the buffer has no room for ends the frame.
AfterLength(b) == CASE b > MaxPayload -> "WAIT_PREAMBLE_0"
                    [] b = 0          -> "READ_CHECKSUM_LOW"
                    [] OTHER          -> "READ_PAYLOAD"

\* Mutant of Emptied: the index is left where the previous frame put it.
EmptiedNot == payload

\* payload_idx = 0
Emptied == <<>>

ReadLength(b) ==
    /\ state = "READ_LENGTH"
    /\ len' = b
    /\ payload' = Emptied
    /\ state' = AfterLength(b)
    /\ handled' = {}
    /\ UNCHANGED <<msgId, chkLow>>

ReadPayload(b) ==
    /\ state = "READ_PAYLOAD"
    /\ payload' = Append(payload, b)
    /\ state' = IF Len(payload') >= len THEN "READ_CHECKSUM_LOW" ELSE state
    /\ handled' = {}
    /\ UNCHANGED <<msgId, len, chkLow>>

ReadChecksumLow(b) ==
    /\ state = "READ_CHECKSUM_LOW"
    /\ chkLow' = b
    /\ state' = "READ_CHECKSUM_HIGH"
    /\ handled' = {}
    /\ UNCHANGED <<msgId, len, payload>>

\* The message is handed to handle_incoming_command if its checksum is right, and
\* answered with NACK_CHECKSUM_ERROR if not.
ReadChecksumHigh(b) ==
    /\ state = "READ_CHECKSUM_HIGH"
    /\ LET m == [id |-> msgId, payload |-> payload]
       IN  handled' = {[message |-> m, ok |-> Checksum(m) = <<chkLow, b>>]}
    /\ state' = "WAIT_PREAMBLE_0"
    /\ UNCHANGED <<msgId, len, payload, chkLow>>

ProcessByte(b) ==
    \/ WaitPreamble0(b) \/ WaitPreamble1(b) \/ ReadMsgId(b) \/ ReadLength(b)
    \/ ReadPayload(b) \/ ReadChecksumLow(b) \/ ReadChecksumHigh(b)

ParserTypeOK ==
    /\ state \in States
    /\ msgId \in Bytes
    /\ len \in Bytes
    /\ payload \in Seq(Bytes)
    /\ Len(payload) <= MaxPayload
    /\ chkLow \in Bytes
    /\ \A h \in handled : /\ h.message.id \in Bytes
                          /\ h.message.payload \in Seq(Bytes)
                          /\ h.ok \in BOOLEAN

================================================================================

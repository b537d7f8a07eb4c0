------------------------------- MODULE FrameLine -------------------------------
(***************************************************************************)
(* Commands on a serial line that loses, garbles and inserts bytes: the    *)
(* ground station sends frames one after the other, FrameParser receives   *)
(* what is left of them.                                                   *)
(***************************************************************************)
EXTENDS FrameParser

CONSTANTS
    Messages,     \* what the ground station sends
    Noise,        \* the bytes a disturbed line may yield
    MaxFaults     \* bound: disturbed bytes

VARIABLES
    sending,      \* the message under way
    line,         \* its bytes that have not arrived
    intact,       \* whether none of them has been disturbed
    synced,       \* history: whether its first byte found the parser waiting for a preamble
    faults,       \* how many bytes have been, in all
    missed,       \* history: undisturbed frames in a row the parser did not hand over
    sent          \* history: the messages sent so far

lineVars == <<sending, line, intact, synced, faults, missed, sent>>
vars     == <<parserVars, lineVars>>

ASSUME LineAssumption ==
    /\ Messages \subseteq [id : Bytes, payload : Seq(Bytes)]
    /\ \A m \in Messages : Len(m.payload) \in Bytes /\ Len(m.payload) <= MaxPayload
    /\ Noise \subseteq Bytes
    /\ MaxFaults \in Nat

\* What sendSetProfileCmd and sendSystemResetCmd put into a frame.
SetProfile(id)  == [id |-> 2, payload |-> <<id>>]
SystemReset     == [id |-> 6, payload |-> <<>>]
StationCommands == {SetProfile(id) : id \in 1..4} \union {SystemReset}

\* No command's frame has a second byte that could begin one: the ids, the length and the
\* checksums of the commands are small.
ASSUME PreambleAssumption ==
    \A m \in Messages : \A i \in 2..Len(Wire(m)) : Wire(m)[i] # Preamble0

Init ==
    /\ ParserInit
    /\ sending \in Messages
    /\ line = <<>>
    /\ intact = TRUE
    /\ synced = TRUE
    /\ faults = 0
    /\ missed = 0
    /\ sent = {}

\* sendSetProfileCmd, sendSystemResetCmd.
Send(m) ==
    /\ line = <<>>
    /\ sending' = m
    /\ line' = Wire(m)
    /\ intact' = TRUE
    /\ synced' = (state \in {"WAIT_PREAMBLE_0", "WAIT_PREAMBLE_1"})
    /\ sent' = sent \union {m}
    /\ UNCHANGED <<parserVars, faults, missed>>

\* The next byte arrives as it was sent.
Arrive ==
    /\ line # <<>>
    /\ ProcessByte(Head(line))
    /\ line' = Tail(line)
    /\ missed' = IF Len(line) > 1 \/ ~ intact THEN missed
                 ELSE IF handled' = {[message |-> sending, ok |-> TRUE]} THEN 0
                 ELSE missed + 1
    /\ UNCHANGED <<sending, intact, synced, faults, sent>>

Disturb ==
    /\ faults < MaxFaults
    /\ faults' = faults + 1
    /\ intact' = FALSE
    /\ missed' = 0
    /\ UNCHANGED <<sending, synced, sent>>

Lose ==
    /\ line # <<>>
    /\ line' = Tail(line)
    /\ Disturb
    /\ UNCHANGED parserVars

Garble(b) ==
    /\ line # <<>>
    /\ b # Head(line)
    /\ ProcessByte(b)
    /\ line' = Tail(line)
    /\ Disturb

\* Noise may come in the middle of a frame or between two.
Insert(b) ==
    /\ ProcessByte(b)
    /\ UNCHANGED line
    /\ Disturb

Next ==
    \/ \E m \in Messages : Send(m)
    \/ Arrive
    \/ Lose
    \/ \E b \in Noise : Garble(b) \/ Insert(b)

Spec == Init /\ [][Next]_vars

(***************************************************************************)
(* Properties                                                              *)
(***************************************************************************)

\* After a disturbance the parser may take a length byte and MaxPayload + 2 more bytes for
\* a frame that is none.  The shortest frame has 6, the first may be lost for one byte.
MissLimit == (MaxPayload + 3 + 5) \div 6

\* The parser finds the frames again: an undisturbed line delivers every frame, and
\* after a disturbance no more frames in a row are lost than the longest false one covers.
RecoveryBounded == missed <= IF faults = 0 THEN 0 ELSE MissLimit

\* A parser that waits for a preamble misses no undisturbed frame, not even when the line
\* has left it a stray first preamble byte.
SyncedDelivers == line = <<>> /\ intact /\ synced => missed = 0

(***************************************************************************)
(* The inductive invariant SyncedDelivers rests on: how far the parser is  *)
(* in an undisturbed frame.                                                *)
(***************************************************************************)

\* The bytes of the frame that have arrived.
Arrived == Len(Wire(sending)) - Len(line)

OnTheLine == /\ Arrived >= 0
             /\ \A i \in 1..Len(line) : line[i] = Wire(sending)[Arrived + i]

ArrivedPayload(n) == /\ msgId = sending.id
                     /\ len = Len(sending.payload)
                     /\ Len(payload) = n
                     /\ \A i \in 1..n : payload[i] = sending.payload[i]

FollowsFrame ==
    /\ Arrived = 0 => state \in {"WAIT_PREAMBLE_0", "WAIT_PREAMBLE_1"}
    /\ Arrived = 1 => state = "WAIT_PREAMBLE_1"
    /\ Arrived = 2 => state = "READ_MSG_ID"
    /\ Arrived = 3 => state = "READ_LENGTH" /\ msgId = sending.id
    /\ Arrived \in 4..(Len(sending.payload) + 3) =>
          state = "READ_PAYLOAD" /\ ArrivedPayload(Arrived - 4)
    /\ Arrived = Len(sending.payload) + 4 =>
          state = "READ_CHECKSUM_LOW" /\ ArrivedPayload(Len(sending.payload))
    /\ Arrived = Len(sending.payload) + 5 =>
          /\ state = "READ_CHECKSUM_HIGH" /\ ArrivedPayload(Len(sending.payload))
          /\ chkLow = Checksum(sending)[1]

\* What the line may carry.
WireBytes == Bytes \union {Checksum(m)[i] : m \in Messages, i \in 1..2}

SyncedInv ==
    /\ sending \in Messages
    /\ line \in Seq(WireBytes)
    /\ payload \in Seq(WireBytes)
    /\ intact /\ synced => IF line = <<>> THEN missed = 0 ELSE OnTheLine /\ FollowsFrame

(***************************************************************************)
(* The inductive invariant RecoveryBounded rests on: how many bytes the    *)
(* parser still takes for a frame that is none.                            *)
(***************************************************************************)

\* What it takes from the length byte b on.
FromLength(b) == IF b > MaxPayload THEN 1 ELSE b + 3

\* Between two frames, or in an undisturbed one.  A parser that is not past the length
\* is about to take the next preamble for it, or any byte if it waits for the length
\* between two frames.
Owed ==
    CASE state \in {"WAIT_PREAMBLE_0", "WAIT_PREAMBLE_1"} -> 0
      [] state = "READ_MSG_ID"        -> 1 + FromLength(Preamble1)
      [] state = "READ_LENGTH"        -> IF Arrived = 1 THEN FromLength(Preamble1)
                                                        ELSE MaxPayload + 3
      [] state = "READ_PAYLOAD"       -> (len - Len(payload)) + 2
      [] state = "READ_CHECKSUM_LOW"  -> 2
      [] state = "READ_CHECKSUM_HIGH" -> 1

\* Of the bytes a false frame may cover, six have gone into each frame missed so far and
\* some into the one under way; or the parser waits, and misses no frame after this one.
OutOfStep ==
    IF Owed > 0
    THEN /\ 6 * missed + (IF line = <<>> THEN 0 ELSE Arrived) + Owed <= 6 * MissLimit
         /\ state = "READ_MSG_ID" => line # <<>> /\ Arrived = 0
         /\ state = "READ_LENGTH" => line # <<>> /\ Arrived \in {0, 1}
    ELSE /\ state = "WAIT_PREAMBLE_0" /\ Arrived > 0
         /\ line # <<>> => missed < MissLimit

RecoveryInv ==
    /\ state \in States /\ len \in Nat
    /\ state = "READ_PAYLOAD" => Len(payload) < len /\ len <= MaxPayload
    /\ faults \in Nat /\ missed \in 0..MissLimit
    /\ faults = 0 => missed = 0 /\ intact /\ synced
    /\ ~ intact => missed = 0
    /\ intact => OnTheLine
    /\ intact /\ synced /\ line = <<>> => state = "WAIT_PREAMBLE_0"
    /\ intact /\ ~ synced => OutOfStep

\* What handle_incoming_command carries out: the choice of one of the four profiles, or
\* a reset, whose length it does not look at.
CarriedOut(m) ==
    \/ m.id = 2 /\ Len(m.payload) = 1 /\ m.payload[1] \in 1..4
    \/ m.id = 6

\* The station has asked for that very profile, or for a reset.
Requested(m) == m \in sent \/ (m.id = 6 /\ SystemReset \in sent)

Forged(m) == CarriedOut(m) /\ ~ Requested(m)

\* However the line mixes up the frames with one disturbed byte, the vehicle never
\* carries out a command the station has not sent.  (Two are enough for it: a 1 inserted
\* before the payload of a frame that chooses profile 4, and 9 for its first checksum
\* byte.)
NothingForged ==
    faults <= 1 => \A h \in handled : h.ok => ~ Forged(h.message)

(***************************************************************************)
(* The inductive invariant NothingForged rests on: what one disturbed byte *)
(* can make of a profile's frame before the checksum tells.                *)
(***************************************************************************)

\* The message whose checksum comes next.
Received == [id |-> msgId, payload |-> payload]

\* The id is that of a command nobody may have sent.
Watched == msgId = 2 \/ (msgId = 6 /\ SystemReset \notin sent)

\* The id, the length or the payload's byte has been garbled or comes twice, or the one
\* after it is taken for it.  All these messages have another checksum than the bytes
\* that follow, if not another first sum.
Strayed ==
    /\ state = "READ_MSG_ID" => Arrived <= 3
    /\ state = "READ_LENGTH" /\ Watched => Arrived \in 2..4 /\ (Arrived = 4 => msgId = 2)
    /\ state = "READ_PAYLOAD" /\ Watched /\ (msgId = 2 => len = 1) =>
          /\ sending.id = 2
          /\ \/ payload = <<>> /\ len = 1 /\ Arrived \in 3..5 /\ (msgId = 6 => Arrived = 4)
             \/ payload = <<>> /\ len = 2 /\ Arrived = 3
             \/ payload = <<1>> /\ len = 2 /\ Arrived = 4
    /\ state = "READ_CHECKSUM_LOW" /\ Forged(Received) =>
          /\ sending.id = 2
          /\ msgId = 2 => Arrived \in {4, 5} \/ (Arrived = 6 /\ payload[1] = sending.payload[1] + 3)
          /\ msgId = 6 => Arrived = 5 /\ payload \in {sending.payload, <<1>> \o sending.payload}
    /\ state = "READ_CHECKSUM_HIGH" /\ Forged(Received) =>
          \/ chkLow # Checksum(Received)[1]
          \/ sending = SetProfile(4) /\ Received = SetProfile(1) /\ Arrived = 5

ForgeInv ==
    /\ OnTheLine
    /\ line # <<>> => sending \in sent
    /\ sent \subseteq Messages
    /\ state \in {"READ_CHECKSUM_LOW", "READ_CHECKSUM_HIGH"} => Len(payload) = len
    /\ faults = 1 => Strayed
    /\ NothingForged

================================================================================

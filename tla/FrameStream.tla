------------------------------ MODULE FrameStream ------------------------------
(***************************************************************************)
(* FrameParser fed with any bytes at all, and a record of the bytes it was *)
(* fed: what the parser hands over must be in the stream, contiguous and   *)
(* complete, whatever preceded it.                                         *)
(***************************************************************************)
EXTENDS FrameParser

CONSTANT Alphabet    \* the bytes that may arrive

ASSUME AlphabetAssumption == Alphabet \subseteq Bytes

VARIABLE heard       \* history: the newest bytes of the stream, newest first

vars == <<parserVars, heard>>

\* The length of the longest frame.
WindowSize == MaxPayload + 6

\* The newest byte goes in front, the oldest drops out of a full window.
Push(w, b) == [i \in 1..(IF Len(w) < WindowSize THEN Len(w) + 1 ELSE WindowSize) |->
                  IF i = 1 THEN b ELSE w[i - 1]]

Init == ParserInit /\ heard = <<>>

Receive(b) == ProcessByte(b) /\ heard' = Push(heard, b)

Next == \E b \in Alphabet : Receive(b)

Spec == Init /\ [][Next]_vars

(***************************************************************************)
(* Properties                                                              *)
(***************************************************************************)

\* Every variable has its type, and the payload never outgrows its buffer.
TypeOK ==
    /\ ParserTypeOK
    /\ heard \in Seq(Bytes)
    /\ Len(heard) <= WindowSize

\* The newest bytes are, after k others, the payload p, preceded by its length, an id
\* and the preamble.
Framed(id, p, k) ==
    /\ Len(heard) >= k + Len(p) + 4
    /\ heard[k + Len(p) + 4] = Preamble0
    /\ heard[k + Len(p) + 3] = Preamble1
    /\ heard[k + Len(p) + 2] = id
    /\ heard[k + Len(p) + 1] = Len(p)
    /\ \A i \in 1..Len(p) : heard[k + Len(p) + 1 - i] = p[i]

AsHeard(h) ==
    /\ Framed(h.message.id, h.message.payload, 2)
    /\ h.ok <=> Checksum(h.message) = <<heard[2], heard[1]>>

\* Whatever came before, a message is handed over only if its frame is the newest
\* stretch of the stream, byte for byte and without a gap, and it passes as correct
\* exactly if the last two bytes are its checksum.
HandedAsHeard == \A h \in handled : AsHeard(h)

(***************************************************************************)
(* The inductive invariant: what the parser's state says of the stream.    *)
(***************************************************************************)

\* The newest bytes of the stream.
Newest(s) == /\ Len(heard) >= Len(s)
             /\ \A i \in 1..Len(s) : heard[i] = s[i]

PreambleInv ==
    /\ state = "WAIT_PREAMBLE_1" => Newest(<<Preamble0>>)
    /\ state = "READ_MSG_ID" => Newest(<<Preamble1, Preamble0>>)
    /\ state = "READ_LENGTH" => Newest(<<msgId, Preamble1, Preamble0>>)

\* From READ_PAYLOAD on, payload is the part of the frame that has arrived.
FrameInv ==
    /\ state = "READ_PAYLOAD" =>
          /\ Len(payload) < len /\ len <= MaxPayload
          /\ Len(heard) >= Len(payload) + 4
          /\ heard[Len(payload) + 4] = Preamble0
          /\ heard[Len(payload) + 3] = Preamble1
          /\ heard[Len(payload) + 2] = msgId
          /\ heard[Len(payload) + 1] = len
          /\ \A i \in 1..Len(payload) : heard[Len(payload) + 1 - i] = payload[i]
    /\ state = "READ_CHECKSUM_LOW" => Len(payload) = len /\ Framed(msgId, payload, 0)
    /\ state = "READ_CHECKSUM_HIGH" => /\ Len(payload) = len /\ Framed(msgId, payload, 1)
                                       /\ heard[1] = chkLow

StreamInv == TypeOK /\ PreambleInv /\ FrameInv /\ HandedAsHeard

================================================================================

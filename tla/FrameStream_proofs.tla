--------------------------- MODULE FrameStream_proofs ---------------------------
(***************************************************************************)
(* For every stream of bytes and every size of the payload buffer: the     *)
(* buffer is never overrun, and what FrameParser hands over stood in the   *)
(* stream, contiguous and complete, at that moment.                        *)
(***************************************************************************)
EXTENDS FrameStream, TLAPS

\* A byte goes in front of the bytes heard so far; of these only one that no frame can
\* need any more drops out.
LEMMA HeardStep ==
    ASSUME heard \in Seq(Bytes), Len(heard) <= WindowSize, NEW b \in Bytes,
           heard' = Push(heard, b)
    PROVE  /\ heard' \in Seq(Bytes)
           /\ Len(heard') \in 1..WindowSize
           /\ heard'[1] = b
           /\ \A i \in 1..Len(heard) :
                 i < WindowSize => i + 1 \in 1..Len(heard') /\ heard'[i + 1] = heard[i]
<1> DEFINE n == IF Len(heard) < WindowSize THEN Len(heard) + 1 ELSE WindowSize
<1>1. WindowSize \in Nat /\ WindowSize >= 1
  BY ParserAssumption DEF WindowSize
<1>2. n \in 1..WindowSize /\ n <= Len(heard) + 1
  BY <1>1
<1>3. \A i \in 1..Len(heard) : i < WindowSize => i + 1 \in 1..n
  BY <1>1
<1>4. heard' = [i \in 1..n |-> IF i = 1 THEN b ELSE heard[i - 1]]
  BY DEF Push
<1> HIDE DEF n
<1>5. \A i \in 1..n : (IF i = 1 THEN b ELSE heard[i - 1]) \in Bytes
  BY <1>2
<1>6. heard' \in Seq(Bytes) /\ Len(heard') = n
  BY <1>2, <1>4, <1>5
<1>7. heard'[1] = b
  BY <1>2, <1>4
<1>8. \A i \in 1..Len(heard) : i + 1 \in 1..n => heard'[i + 1] = heard[i]
  BY <1>4
<1> QED
  BY <1>2, <1>3, <1>6, <1>7, <1>8

LEMMA InitInv == Init => StreamInv
<1> SUFFICES ASSUME Init PROVE StreamInv
  OBVIOUS
<1>1. /\ state = "WAIT_PREAMBLE_0" /\ msgId = 0 /\ len = 0 /\ payload = <<>> /\ chkLow = 0
      /\ handled = {} /\ heard = <<>>
  BY DEF Init, ParserInit
<1>2. TypeOK
  BY <1>1, ParserAssumption DEF TypeOK, ParserTypeOK, States, Bytes, WindowSize
<1>3. PreambleInv /\ FrameInv /\ HandedAsHeard
  BY <1>1 DEF PreambleInv, FrameInv, HandedAsHeard
<1> QED
  BY <1>2, <1>3 DEF StreamInv

\* What holds of every byte received.
LEMMA ReceiveFacts ==
    ASSUME StreamInv, NEW b \in Alphabet, Receive(b)
    PROVE  /\ b \in Bytes
           /\ heard' \in Seq(Bytes)
           /\ Len(heard') \in 1..WindowSize
           /\ heard'[1] = b
           /\ \A i \in 1..Len(heard) :
                 i < WindowSize => i + 1 \in 1..Len(heard') /\ heard'[i + 1] = heard[i]
<1>1. b \in Bytes /\ heard' = Push(heard, b)
  BY AlphabetAssumption DEF Receive
<1>2. heard \in Seq(Bytes) /\ Len(heard) <= WindowSize
  BY DEF StreamInv, TypeOK
<1> QED
  BY <1>1, <1>2, HeardStep

\* A message handed over was framed and is correct exactly if its checksum arrived.
LEMMA HandOver ==
    ASSUME StreamInv, NEW b \in Alphabet, Receive(b), ReadChecksumHigh(b)
    PROVE  TypeOK' /\ HandedAsHeard'
<1> DEFINE m == [id |-> msgId, payload |-> payload]
           k == Len(payload)
<1>1. /\ handled' = {[message |-> m, ok |-> Checksum(m) = <<chkLow, b>>]}
      /\ state' = "WAIT_PREAMBLE_0"
      /\ UNCHANGED <<msgId, len, payload, chkLow>>
  BY DEF ReadChecksumHigh
<1>2. /\ k \in Nat /\ k <= MaxPayload /\ k = len /\ payload \in Seq(Bytes)
      /\ Framed(msgId, payload, 1) /\ heard[1] = chkLow
  BY DEF StreamInv, TypeOK, ParserTypeOK, FrameInv, ReadChecksumHigh
<1>3. PICK h : handled' = {h} /\ h = [message |-> m, ok |-> Checksum(m) = <<chkLow, b>>]
  BY <1>1
<1>4. /\ h.message.id = msgId /\ h.message.payload = payload /\ h.message = m
      /\ h.ok \in BOOLEAN /\ (h.ok <=> Checksum(m) = <<chkLow, b>>)
  BY <1>3
<1>5. TypeOK'
  <2>1. \A g \in handled' : /\ g.message.id \in Bytes /\ g.message.payload \in Seq(Bytes)
                            /\ g.ok \in BOOLEAN
    BY <1>2, <1>3, <1>4 DEF StreamInv, TypeOK, ParserTypeOK
  <2>2. heard' \in Seq(Bytes) /\ Len(heard') <= WindowSize
    BY ReceiveFacts DEF WindowSize
  <2> QED
    BY <1>1, <2>1, <2>2 DEF StreamInv, TypeOK, ParserTypeOK, States
<1>6. /\ Len(heard) \in Nat /\ Len(heard) >= k + 5 /\ WindowSize \in Nat /\ k + 5 < WindowSize
  BY <1>2, ParserAssumption DEF StreamInv, TypeOK, Framed, WindowSize
<1>7. \A i \in 1..(k + 5) : i + 1 \in 1..Len(heard') /\ heard'[i + 1] = heard[i]
  <2> TAKE i \in 1..(k + 5)
  <2>1. i \in 1..Len(heard) /\ i < WindowSize
    BY <1>2, <1>6
  <2> QED
    BY <2>1, ReceiveFacts
<1>8. heard'[1] = b /\ heard'[2] = chkLow
  <2>1. 1 \in 1..(k + 5) /\ 1 + 1 = 2
    BY <1>2
  <2>2. heard'[1 + 1] = heard[1]
    BY <1>7, <2>1
  <2> QED
    BY <1>2, <2>1, <2>2, ReceiveFacts
<1>9. /\ Len(heard') >= k + 6
      /\ heard'[k + 6] = Preamble0
      /\ heard'[k + 5] = Preamble1
      /\ heard'[k + 4] = msgId
      /\ heard'[k + 3] = k
  <2>1. k + 5 \in 1..(k + 5) /\ k + 4 \in 1..(k + 5) /\ k + 3 \in 1..(k + 5) /\ k + 2 \in 1..(k + 5)
    BY <1>2
  <2>2. /\ heard[k + 5] = Preamble0 /\ heard[k + 4] = Preamble1
        /\ heard[k + 3] = msgId /\ heard[k + 2] = k
    BY <1>2, SMTT(30) DEF Framed
  <2>3. /\ (k + 5) + 1 \in 1..Len(heard') /\ heard'[(k + 5) + 1] = heard[k + 5]
        /\ heard'[(k + 4) + 1] = heard[k + 4] /\ heard'[(k + 3) + 1] = heard[k + 3]
        /\ heard'[(k + 2) + 1] = heard[k + 2]
    BY <1>7, <2>1
  <2>4. /\ (k + 5) + 1 = k + 6 /\ (k + 4) + 1 = k + 5 /\ (k + 3) + 1 = k + 4
        /\ (k + 2) + 1 = k + 3 /\ Len(heard') \in Nat
    BY <1>2, ReceiveFacts
  <2> QED
    BY <2>2, <2>3, <2>4
<1>10. \A i \in 1..k : heard'[k + 3 - i] = payload[i]
  <2> TAKE i \in 1..k
  <2>1. k + 2 - i \in 1..(k + 5) /\ k + 3 - i = (k + 2 - i) + 1
    BY <1>2
  <2>2. heard[k + 2 - i] = payload[i]
    <3>1. heard[1 + k + 1 - i] = payload[i]
      BY <1>2 DEF Framed
    <3>2. 1 + k + 1 - i = k + 2 - i
      BY <1>2
    <3> QED
      BY <3>1, <3>2
  <2> QED
    BY <1>7, <2>1, <2>2
<1> HIDE DEF m, k
<1>11. ASSUME NEW g \in handled' PROVE AsHeard(g)'
  <2>1. g = h
    BY <1>3
  <2> QED
    BY <2>1, <1>4, <1>8, <1>9, <1>10 DEF AsHeard, Framed, k
<1> QED
  BY <1>5, <1>11 DEF HandedAsHeard

\* Every other byte hands nothing over.
LEMMA NothingHandedOver ==
    ASSUME StreamInv, NEW b \in Alphabet, Receive(b), ~ ReadChecksumHigh(b)
    PROVE  handled' = {}
  BY DEF Receive, ProcessByte, WaitPreamble0, WaitPreamble1, AfterPreamble0, ReadMsgId, ReadLength, AfterLength, Emptied, ReadPayload,
         ReadChecksumLow

\* The payload is bounded by its length byte, and that one by the buffer.
LEMMA TypeStep ==
    ASSUME StreamInv, NEW b \in Alphabet, Receive(b), ~ ReadChecksumHigh(b)
    PROVE  TypeOK'
<1>1. /\ b \in Bytes /\ heard' \in Seq(Bytes) /\ Len(heard') <= WindowSize /\ handled' = {}
  BY ReceiveFacts, NothingHandedOver, ParserAssumption DEF WindowSize
<1> USE <1>1 DEF StreamInv, TypeOK, ParserTypeOK
<1>2. CASE WaitPreamble0(b)
  BY <1>2 DEF WaitPreamble0, States
<1>3. CASE WaitPreamble1(b)
  BY <1>3 DEF WaitPreamble1, AfterPreamble0, States
<1>4. CASE ReadMsgId(b)
  BY <1>4 DEF ReadMsgId, States
<1>5. CASE ReadLength(b)
  <2>1. state' \in States /\ payload' = <<>> /\ len' = b /\ msgId' = msgId /\ chkLow' = chkLow
    BY <1>5 DEF ReadLength, AfterLength, Emptied, States
  <2>2. Len(payload') <= MaxPayload /\ payload' \in Seq(Bytes)
    BY <2>1, ParserAssumption
  <2> QED
    BY <2>1, <2>2
<1>6. CASE ReadPayload(b)
  <2>1. Len(payload) < len /\ len <= MaxPayload
    BY <1>6 DEF FrameInv, ReadPayload
  <2>2. payload' \in Seq(Bytes) /\ Len(payload') = Len(payload) + 1
    BY <1>6 DEF ReadPayload
  <2>3. Len(payload') <= MaxPayload
    BY <2>1, <2>2, ParserAssumption DEF Bytes
  <2>4. state' \in States /\ msgId' = msgId /\ len' = len /\ chkLow' = chkLow
    BY <1>6 DEF ReadPayload, States
  <2> QED
    BY <2>2, <2>3, <2>4
<1>7. CASE ReadChecksumLow(b)
  BY <1>7 DEF ReadChecksumLow, States
<1> QED
  BY <1>2, <1>3, <1>4, <1>5, <1>6, <1>7 DEF Receive, ProcessByte

\* The header, byte by byte.
LEMMA PreambleStep ==
    ASSUME StreamInv, NEW b \in Alphabet, Receive(b)
    PROVE  PreambleInv'
<1>1. heard \in Seq(Bytes) /\ Len(heard) \in Nat /\ WindowSize \in Nat /\ WindowSize >= 7
  BY ParserAssumption DEF StreamInv, TypeOK, WindowSize
<1>2. PreambleInv
  BY DEF StreamInv
<1>3. CASE WaitPreamble0(b)
  <2>1. state' # "READ_MSG_ID" /\ state' # "READ_LENGTH"
        /\ (state' = "WAIT_PREAMBLE_1" => b = Preamble0)
    BY <1>3 DEF WaitPreamble0
  <2> QED
    BY <1>1, <2>1, ReceiveFacts DEF PreambleInv, Newest
<1>4. CASE WaitPreamble1(b)
  <2>1. Len(heard) >= 1 /\ heard[1] = Preamble0
    BY <1>2, <1>4 DEF WaitPreamble1, AfterPreamble0, PreambleInv, Newest
  <2>2. Len(heard') >= 2 /\ heard'[1] = b /\ heard'[2] = Preamble0
    BY <1>1, <2>1, ReceiveFacts
  <2>3. /\ state' # "READ_LENGTH"
        /\ state' = "WAIT_PREAMBLE_1" => b = Preamble0
        /\ state' = "READ_MSG_ID" => b = Preamble1
    BY <1>4 DEF WaitPreamble1, AfterPreamble0, Preamble0, Preamble1
  <2> QED
    BY <2>2, <2>3 DEF PreambleInv, Newest
<1>5. CASE ReadMsgId(b)
  <2>1. Len(heard) >= 2 /\ heard[1] = Preamble1 /\ heard[2] = Preamble0
    BY <1>2, <1>5 DEF ReadMsgId, PreambleInv, Newest
  <2>2. Len(heard') >= 3 /\ heard'[1] = b /\ heard'[2] = Preamble1 /\ heard'[3] = Preamble0
    BY <1>1, <2>1, ReceiveFacts
  <2>3. state' = "READ_LENGTH" /\ msgId' = b
    BY <1>5 DEF ReadMsgId
  <2> QED
    BY <2>2, <2>3 DEF PreambleInv, Newest
<1>6. CASE \/ ReadLength(b) \/ ReadPayload(b) \/ ReadChecksumLow(b) \/ ReadChecksumHigh(b)
  BY <1>6 DEF PreambleInv, ReadLength, AfterLength, Emptied, ReadPayload, ReadChecksumLow, ReadChecksumHigh
<1> QED
  BY <1>3, <1>4, <1>5, <1>6 DEF Receive, ProcessByte

\* The rest of the frame, which stays where the header says.
LEMMA FrameStep ==
    ASSUME StreamInv, NEW b \in Alphabet, Receive(b)
    PROVE  FrameInv'
<1>1. /\ heard \in Seq(Bytes) /\ Len(heard) \in Nat /\ MaxPayload \in 1..256
      /\ payload \in Seq(Bytes) /\ Len(payload) \in 0..MaxPayload /\ b \in 0..255
      /\ len \in 0..255 /\ WindowSize = MaxPayload + 6
  BY ParserAssumption, ReceiveFacts DEF StreamInv, TypeOK, ParserTypeOK, WindowSize, Bytes
<1>2. PreambleInv /\ FrameInv
  BY DEF StreamInv
<1>3. CASE WaitPreamble0(b) \/ WaitPreamble1(b) \/ ReadMsgId(b) \/ ReadChecksumHigh(b)
  BY <1>3 DEF FrameInv, WaitPreamble0, WaitPreamble1, AfterPreamble0, ReadMsgId, ReadChecksumHigh
<1>4. CASE ReadLength(b)
  <2>1. /\ Len(heard) >= 3 /\ heard[1] = msgId /\ heard[2] = Preamble1 /\ heard[3] = Preamble0
    BY <1>2, <1>4 DEF ReadLength, AfterLength, Emptied, PreambleInv, Newest
  <2>2. /\ Len(heard') >= 4 /\ heard'[1] = b /\ heard'[2] = msgId /\ heard'[3] = Preamble1
        /\ heard'[4] = Preamble0
    <3>1. \A i \in 1..3 : i \in 1..Len(heard) /\ i < WindowSize
      BY <1>1, <2>1
    <3>2. \A i \in 1..3 : i + 1 \in 1..Len(heard') /\ heard'[i + 1] = heard[i]
      BY <3>1, ReceiveFacts
    <3>3. /\ 2 \in 1..Len(heard') /\ heard'[2] = heard[1]
          /\ 3 \in 1..Len(heard') /\ heard'[3] = heard[2]
          /\ 4 \in 1..Len(heard') /\ heard'[4] = heard[3]
      BY <3>2
    <3> QED
      BY <2>1, <3>3, ReceiveFacts
  <2>3. /\ len' = b /\ payload' = <<>> /\ Len(payload') = 0 /\ msgId' = msgId
        /\ state' = "READ_PAYLOAD" => b \in 1..MaxPayload
        /\ state' = "READ_CHECKSUM_LOW" => b = 0
        /\ state' # "READ_CHECKSUM_HIGH"
    <3>1. /\ len' = b /\ payload' = <<>> /\ Len(payload') = 0 /\ msgId' = msgId
      BY <1>4 DEF ReadLength, AfterLength, Emptied
    <3>2. CASE b > MaxPayload
      BY <1>1, <1>4, <3>1, <3>2 DEF ReadLength, AfterLength, Emptied
    <3>3. CASE b = 0
      BY <1>1, <1>4, <3>1, <3>3 DEF ReadLength, AfterLength, Emptied
    <3>4. CASE b \in 1..MaxPayload
      BY <1>1, <1>4, <3>1, <3>4 DEF ReadLength, AfterLength, Emptied
    <3>5. b \in Nat /\ MaxPayload \in Nat
      BY <1>1
    <3>6. b > MaxPayload \/ b = 0 \/ b \in 1..MaxPayload
      BY <3>5
    <3> QED
      BY <3>2, <3>3, <3>4, <3>6, Zenon
  <2> QED
    BY <1>1, <2>2, <2>3 DEF FrameInv, Framed
<1>5. CASE ReadPayload(b)
  <2> DEFINE k == Len(payload)
  <2>1. /\ k < len /\ len <= MaxPayload /\ Len(heard) >= k + 4
        /\ heard[k + 4] = Preamble0 /\ heard[k + 3] = Preamble1
        /\ heard[k + 2] = msgId /\ heard[k + 1] = len
        /\ \A i \in 1..k : heard[k + 1 - i] = payload[i]
    BY <1>2, <1>5 DEF ReadPayload, FrameInv
  <2>2. \A i \in 1..(k + 4) : i + 1 \in 1..Len(heard') /\ heard'[i + 1] = heard[i]
    <3> TAKE i \in 1..(k + 4)
    <3>1. k \in 0..MaxPayload /\ Len(heard) >= k + 4
      BY <1>1, <2>1 DEF Framed
    <3>2. i \in 1..Len(heard) /\ i < WindowSize
      BY <1>1, <3>1
    <3> QED
      BY <3>2, ReceiveFacts
  <2>3. /\ payload' = Append(payload, b) /\ Len(payload') = k + 1 /\ len' = len /\ msgId' = msgId
        /\ state' = IF k + 1 >= len THEN "READ_CHECKSUM_LOW" ELSE "READ_PAYLOAD"
    BY <1>1, <1>5 DEF ReadPayload
  <2>4. \A i \in 1..(k + 1) : payload'[i] = IF i = k + 1 THEN b ELSE payload[i]
    BY <1>1, <2>3
  <2>5. /\ Len(heard') >= k + 5
        /\ heard'[k + 5] = Preamble0 /\ heard'[k + 4] = Preamble1
        /\ heard'[k + 3] = msgId /\ heard'[k + 2] = len
    <3>1. k \in Nat /\ k + 4 \in 1..(k + 4) /\ k + 3 \in 1..(k + 4) /\ k + 2 \in 1..(k + 4)
          /\ k + 1 \in 1..(k + 4)
      BY <1>1
    <3>2. /\ (k + 4) + 1 \in 1..Len(heard') /\ heard'[(k + 4) + 1] = heard[k + 4]
          /\ heard'[(k + 3) + 1] = heard[k + 3] /\ heard'[(k + 2) + 1] = heard[k + 2]
          /\ heard'[(k + 1) + 1] = heard[k + 1]
      BY <2>2, <3>1
    <3>3. /\ (k + 4) + 1 = k + 5 /\ (k + 3) + 1 = k + 4 /\ (k + 2) + 1 = k + 3
          /\ (k + 1) + 1 = k + 2 /\ Len(heard') \in Nat
      BY <3>1, <1>1, ReceiveFacts
    <3> QED
      BY <2>1, <3>2, <3>3
  <2>6. \A i \in 1..(k + 1) : heard'[k + 2 - i] = payload'[i]
    <3> SUFFICES ASSUME NEW i \in 1..(k + 1) PROVE heard'[k + 2 - i] = payload'[i]
      OBVIOUS
    <3>1. CASE i = k + 1
      BY <1>1, <2>4, <3>1, ReceiveFacts
    <3>2. CASE i # k + 1
      <4>1. k + 1 - i \in 1..(k + 4) /\ k + 2 - i = (k + 1 - i) + 1 /\ i \in 1..k
        BY <1>1, <3>2
      <4>2. heard'[k + 2 - i] = heard[k + 1 - i]
        BY <2>2, <4>1
      <4> QED
        BY <2>1, <2>4, <3>2, <4>1, <4>2
    <3> QED
      BY <3>1, <3>2
  <2> HIDE DEF k
  <2>7. k \in Nat
    BY <1>1 DEF k
  <2>8. state' = "READ_PAYLOAD" => k + 1 < len
    BY <1>1, <2>3, <2>7
  <2>9. state' = "READ_CHECKSUM_LOW" => k + 1 = len
    BY <1>1, <2>1, <2>3, <2>7
  <2>10. state' # "READ_CHECKSUM_HIGH"
    BY <2>3
  <2> QED
    BY <2>1, <2>3, <2>5, <2>6, <2>7, <2>8, <2>9, <2>10, SMTT(30) DEF FrameInv, Framed
<1>6. CASE ReadChecksumLow(b)
  <2> DEFINE k == Len(payload)
  <2>1. k = len /\ Framed(msgId, payload, 0)
    BY <1>2, <1>6 DEF ReadChecksumLow, FrameInv
  <2>2. \A i \in 1..(k + 4) : i + 1 \in 1..Len(heard') /\ heard'[i + 1] = heard[i]
    <3> TAKE i \in 1..(k + 4)
    <3>1. k \in 0..MaxPayload /\ Len(heard) >= k + 4
      BY <1>1, <2>1 DEF Framed
    <3>2. i \in 1..Len(heard) /\ i < WindowSize
      BY <1>1, <3>1
    <3> QED
      BY <3>2, ReceiveFacts
  <2>3. /\ payload' = payload /\ len' = len /\ msgId' = msgId /\ chkLow' = b
        /\ state' = "READ_CHECKSUM_HIGH"
    BY <1>6 DEF ReadChecksumLow
  <2>4. /\ Len(heard') >= k + 5
        /\ heard'[k + 5] = Preamble0 /\ heard'[k + 4] = Preamble1
        /\ heard'[k + 3] = msgId /\ heard'[k + 2] = k
    <3>1. k \in Nat /\ k + 4 \in 1..(k + 4) /\ k + 3 \in 1..(k + 4) /\ k + 2 \in 1..(k + 4)
          /\ k + 1 \in 1..(k + 4)
      BY <1>1
    <3>2. /\ heard[k + 4] = Preamble0 /\ heard[k + 3] = Preamble1
          /\ heard[k + 2] = msgId /\ heard[k + 1] = k
      BY <2>1, <3>1 DEF Framed
    <3>3. /\ (k + 4) + 1 \in 1..Len(heard') /\ heard'[(k + 4) + 1] = heard[k + 4]
          /\ heard'[(k + 3) + 1] = heard[k + 3] /\ heard'[(k + 2) + 1] = heard[k + 2]
          /\ heard'[(k + 1) + 1] = heard[k + 1]
      BY <2>2, <3>1
    <3>4. /\ (k + 4) + 1 = k + 5 /\ (k + 3) + 1 = k + 4 /\ (k + 2) + 1 = k + 3
          /\ (k + 1) + 1 = k + 2 /\ Len(heard') \in Nat
      BY <3>1, <1>1, ReceiveFacts
    <3> QED
      BY <3>2, <3>3, <3>4
  <2>5. \A i \in 1..k : heard'[k + 2 - i] = payload[i]
    <3> SUFFICES ASSUME NEW i \in 1..k PROVE heard'[k + 2 - i] = payload[i]
      OBVIOUS
    <3>1. k + 1 - i \in 1..(k + 4) /\ k + 2 - i = (k + 1 - i) + 1
      BY <1>1
    <3>2. heard[k + 1 - i] = payload[i]
      BY <1>1, <2>1 DEF Framed
    <3> QED
      BY <2>2, <3>1, <3>2
  <2>6. heard'[1] = b
    BY ReceiveFacts
  <2> HIDE DEF k
  <2>7. Framed(msgId, payload, 1)'
    <3>1. Len(payload') = k /\ k \in Nat
      BY <1>1, <2>3 DEF k
    <3> QED
      BY <2>3, <2>4, <2>5, <3>1 DEF Framed
  <2> QED
    BY <2>1, <2>3, <2>6, <2>7 DEF FrameInv, k
<1> QED
  BY <1>3, <1>4, <1>5, <1>6 DEF Receive, ProcessByte

LEMMA NextInv == StreamInv /\ [Next]_vars => StreamInv'
<1> SUFFICES ASSUME StreamInv, [Next]_vars PROVE StreamInv'
  OBVIOUS
<1>1. CASE UNCHANGED vars
  BY <1>1 DEF vars, parserVars, StreamInv, TypeOK, ParserTypeOK, PreambleInv, FrameInv, Framed,
              Newest, HandedAsHeard, AsHeard
<1>2. CASE Next
  <2>1. PICK b \in Alphabet : Receive(b)
    BY <1>2 DEF Next
  <2>2. CASE ReadChecksumHigh(b)
    BY <2>1, <2>2, HandOver, PreambleStep, FrameStep DEF StreamInv
  <2>3. CASE ~ ReadChecksumHigh(b)
    <3>1. HandedAsHeard'
      BY <2>1, <2>3, NothingHandedOver DEF HandedAsHeard
    <3> QED
      BY <2>1, <2>3, <3>1, TypeStep, PreambleStep, FrameStep DEF StreamInv
  <2> QED
    BY <2>2, <2>3
<1> QED
  BY <1>1, <1>2

\* The inductive invariant holds of every stream of bytes.
THEOREM Invariance == Spec => []StreamInv
  BY InitInv, NextInv, PTL DEF Spec

\* FrameParser's buffer: whatever arrives, the payload never outgrows its MaxPayload bytes.
THEOREM TypeCorrect == Spec => []TypeOK
<1>1. StreamInv => TypeOK
  BY DEF StreamInv
<1> QED
  BY <1>1, Invariance, PTL

\* A message reaches handle_incoming_command, or is answered with NACK_CHECKSUM_ERROR,
\* only if its whole frame is what was just received.
THEOREM HandsOverWhatWasHeard == Spec => []HandedAsHeard
<1>1. StreamInv => HandedAsHeard
  BY DEF StreamInv
<1> QED
  BY <1>1, Invariance, PTL

================================================================================

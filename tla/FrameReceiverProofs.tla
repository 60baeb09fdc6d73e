------------------------- MODULE FrameReceiverProofs -------------------------
(***************************************************************************)
(* The safety properties of FrameReceiver for any buffer size, stream,     *)
(* read size, CRC and JSON grammar, and its refinement of ByteFifo.        *)
(***************************************************************************)
EXTENDS FrameReceiver, SequenceTheorems, TLAPS

-----------------------------------------------------------------------------
(***************************************************************************)
(* The ring buffer is a FIFO for every size: what a write, a consume and a *)
(* clear do to the bytes operator[] shows.                                 *)
(***************************************************************************)
LEMMA SizeNat == BufferSize \in Nat \ {0}
  BY BufferSizeAssumption

\* Going once round the ring is subtracting its size.
LEMMA WrapLow ==
  ASSUME NEW x \in Nat, x < BufferSize
  PROVE  x % BufferSize = x
  BY SizeNat

LEMMA WrapHigh ==
  ASSUME NEW x \in Nat, x < 2 * BufferSize, x >= BufferSize
  PROVE  x % BufferSize = x - BufferSize
  BY SizeNat

LEMMA WrapSum ==
  ASSUME NEW x \in Nat, NEW y \in Nat, x + y < 2 * BufferSize
  PROVE  (x + y) % BufferSize = IF x + y < BufferSize THEN x + y
                                ELSE x + y - BufferSize
<1>1. CASE x + y < BufferSize
  BY <1>1, WrapLow
<1>2. CASE x + y >= BufferSize
  BY <1>2, SizeNat, WrapHigh
<1>3. QED
  BY <1>1, <1>2, SizeNat

\* What the two indices and the length satisfy between any two calls.
BufferInv == TypeOKBuffer /\ IndicesAgree

LEMMA SmallIndex ==
  ASSUME NEW x \in Nat, x < 65536
  PROVE  x % 65536 = x
  OBVIOUS

\* operator[] inside the bounds reads the cell that many cells behind readIdx.
LEMMA ByteAtInside ==
  ASSUME TypeOKBuffer, NEW i \in Nat, i < dataLen
  PROVE  /\ ByteAt(i) = buffer[(readIdx + i) % BufferSize]
         /\ (readIdx + i) % BufferSize \in Cell
         /\ ByteAt(i) \in Byte
<1>1. i < 65536 /\ BufferSize \in Nat \ {0} /\ readIdx \in Nat
  BY BufferSizeAssumption DEF TypeOKBuffer, Cell
<1>2. i % 65536 = i
  BY <1>1, SmallIndex
<1>3. ByteAt(i) = buffer[(readIdx + i) % BufferSize]
  BY <1>1, <1>2 DEF ByteAt, TypeOKBuffer
<1>4. (readIdx + i) % BufferSize \in Cell
  BY <1>1 DEF Cell
<1>5. QED
  BY <1>3, <1>4 DEF TypeOKBuffer

\* Outside the bounds it reads as 0: in any case as a byte.
LEMMA ByteAtIsByte ==
  ASSUME TypeOKBuffer, NEW i \in Nat
  PROVE  ByteAt(i) \in Byte
<1>1. i % 65536 \in Nat /\ (i % 65536) % 65536 = i % 65536
  OBVIOUS
<1>2. CASE i % 65536 < dataLen
  <2>1. ByteAt(i % 65536) \in Byte
    BY <1>1, <1>2, ByteAtInside
  <2>2. ByteAt(i % 65536) = ByteAt(i)
    BY <1>1 DEF ByteAt
  <2>3. QED
    BY <2>1, <2>2
<1>3. CASE ~(i % 65536 < dataLen)
  <2>1. i % 65536 >= dataLen
    BY <1>1, <1>3 DEF TypeOKBuffer
  <2>2. ByteAt(i) = 0
    BY <2>1 DEF ByteAt
  <2>3. QED
    BY <2>2 DEF Byte
<1>4. QED
  BY <1>2, <1>3

THEOREM InitBufferInv == InitBuffer => BufferInv
  BY BufferSizeAssumption
  DEF InitBuffer, BufferInv, TypeOKBuffer, IndicesAgree, Cell, Byte

(***************************************************************************)
(* A write leaves the bytes held where they are and puts the block behind  *)
(* them, also when it runs over the end of the ring.                       *)
(***************************************************************************)
THEOREM WriteAppends ==
  ASSUME BufferInv, NEW data \in Seq(Byte), Write(data)
  PROVE  /\ BufferInv'
         /\ dataLen' = dataLen + Len(data)
         /\ \A i \in 0..dataLen-1 : ByteAt(i)' = ByteAt(i)
         /\ \A i \in dataLen..dataLen'-1 : ByteAt(i)' = data[i - dataLen + 1]
<1> DEFINE S == BufferSize
           n == Len(data)
<1>1. /\ S \in Nat \ {0} /\ S <= 65535 /\ n \in Nat /\ n > 0
      /\ readIdx \in 0..S-1 /\ writeIdx \in 0..S-1
      /\ dataLen \in 0..S /\ n <= S - dataLen
  <2>1. n \in Nat /\ n > 0
    BY DEF Write, Fits
  <2>2. n <= S - dataLen
    BY DEF Write, Fits
  <2>3. QED
    BY <2>1, <2>2, BufferSizeAssumption DEF BufferInv, TypeOKBuffer, Cell
<1>2. /\ readIdx' = readIdx /\ dataLen' = dataLen + n
      /\ writeIdx' = (writeIdx + n) % S
      /\ buffer' = [c \in Cell |-> IF WriteOffset(c) < n
                                   THEN data[WriteOffset(c) + 1] ELSE buffer[c]]
  BY DEF Write
<1>3. writeIdx = IF readIdx + dataLen < S THEN readIdx + dataLen
                 ELSE readIdx + dataLen - S
  <2>1. readIdx + dataLen \in Nat /\ readIdx + dataLen < 2 * S
    BY <1>1
  <2>2. (readIdx + dataLen) % S = IF readIdx + dataLen < S THEN readIdx + dataLen
                                  ELSE readIdx + dataLen - S
    BY <1>1, <2>1, WrapSum
  <2>3. QED
    BY <2>2 DEF BufferInv, IndicesAgree
<1>4. \A c \in Cell : WriteOffset(c) = IF c >= writeIdx THEN c - writeIdx
                                       ELSE c + S - writeIdx
  <2> SUFFICES ASSUME NEW c \in Cell
               PROVE  WriteOffset(c) = IF c >= writeIdx THEN c - writeIdx
                                       ELSE c + S - writeIdx
    OBVIOUS
  <2>1. c + S - writeIdx \in Nat /\ c + S - writeIdx < 2 * S
    BY <1>1 DEF Cell
  <2>2. WriteOffset(c) = IF c + S - writeIdx < S THEN c + S - writeIdx
                         ELSE (c + S - writeIdx) - S
    BY <1>1, <2>1, WrapLow, WrapHigh DEF WriteOffset, Cell
  <2>3. QED
    BY <1>1, <2>2 DEF Cell
<1>5. TypeOKBuffer'
  <2>1. buffer' \in [Cell -> Byte]
    <3> SUFFICES ASSUME NEW c \in Cell
                 PROVE  (IF WriteOffset(c) < n THEN data[WriteOffset(c) + 1]
                         ELSE buffer[c]) \in Byte
      BY <1>2
    <3>1. WriteOffset(c) \in Nat
      BY <1>1, <1>4 DEF Cell
    <3>2. CASE WriteOffset(c) < n
      BY <1>1, <3>1, <3>2
    <3>3. CASE ~(WriteOffset(c) < n)
      BY <3>3 DEF BufferInv, TypeOKBuffer
    <3>4. QED
      BY <3>2, <3>3
  <2>2. writeIdx' \in Cell
    BY <1>1, <1>2 DEF Cell
  <2>3. QED
    BY <1>1, <1>2, <2>1, <2>2 DEF TypeOKBuffer, Cell
<1>6. IndicesAgree'
  <2>1. writeIdx' = IF writeIdx + n < S THEN writeIdx + n ELSE writeIdx + n - S
    <3>1. writeIdx \in Nat /\ n \in Nat /\ writeIdx + n < 2 * S
      BY <1>1
    <3>2. QED
      BY <1>2, <3>1, WrapSum
  <2>2. readIdx' + dataLen' = readIdx + dataLen + n
    BY <1>1, <1>2
  <2>3. readIdx' \in Nat /\ dataLen' \in Nat /\ readIdx' + dataLen' < 2 * S
    BY <1>1, <1>2, <2>2
  <2>4. (readIdx' + dataLen') % S = IF readIdx' + dataLen' < S
                                    THEN readIdx' + dataLen'
                                    ELSE readIdx' + dataLen' - S
    BY <2>3, WrapSum
  <2>5. QED
    BY <1>1, <1>3, <2>1, <2>2, <2>4 DEF IndicesAgree
<1>7. ASSUME NEW i \in Nat, i < dataLen + n
      PROVE  ByteAt(i)' = buffer'[IF readIdx + i < S THEN readIdx + i
                                  ELSE readIdx + i - S]
  <2>1. i < dataLen'
    BY <1>2, <1>7
  <2>2. i % 65536 = i
    BY <1>1, <1>7, SmallIndex
  <2>3. (readIdx + i) % S = IF readIdx + i < S THEN readIdx + i
                            ELSE readIdx + i - S
    <3>1. readIdx + i \in Nat /\ readIdx + i < 2 * S
      BY <1>1, <1>7
    <3>2. QED
      BY <1>1, <3>1, WrapSum
  <2>4. ByteAt(i)' = buffer'[(readIdx + i) % S]
    <3>1. ~(i >= dataLen') /\ readIdx' = readIdx
      BY <1>1, <1>2, <1>7
    <3>2. QED
      BY <2>2, <3>1 DEF ByteAt
  <2>5. QED
    BY <2>3, <2>4, Zenon
<1>8. ASSUME NEW i \in 0..dataLen-1
      PROVE  ByteAt(i)' = ByteAt(i)
  <2> DEFINE c == IF readIdx + i < S THEN readIdx + i ELSE readIdx + i - S
  <2>1. c \in Cell /\ ByteAt(i)' = buffer'[c]
    <3>1. i \in Nat /\ i < dataLen + n
      BY <1>1
    <3>2. ByteAt(i)' = buffer'[c]
      BY <1>7, <3>1
    <3>3. QED
      BY <1>1, <3>1, <3>2 DEF Cell
  <2>2. ByteAt(i) = buffer[c]
    <3>1. readIdx + i \in Nat /\ readIdx + i < 2 * S /\ i \in Nat /\ i < dataLen
      BY <1>1
    <3>2. (readIdx + i) % S = IF readIdx + i < S THEN readIdx + i
                              ELSE readIdx + i - S
      BY <1>1, <3>1, WrapSum
    <3>3. QED
      BY <3>1, <3>2, ByteAtInside DEF BufferInv
  <2>3. ~(WriteOffset(c) < n)
    BY <1>1, <1>3, <1>4, <2>1
  <2>4. buffer'[c] = buffer[c]
    BY <1>2, <2>1, <2>3
  <2>5. QED
    BY <2>1, <2>2, <2>4
<1>9. ASSUME NEW i \in dataLen..dataLen'-1
      PROVE  ByteAt(i)' = data[i - dataLen + 1]
  <2> DEFINE c == IF readIdx + i < S THEN readIdx + i ELSE readIdx + i - S
  <2>1. i \in Nat /\ dataLen <= i /\ i < dataLen + n
    BY <1>1, <1>2
  <2>2. c \in Cell
    BY <1>1, <2>1 DEF Cell
  <2>3. ByteAt(i)' = buffer'[c]
    BY <1>7, <2>1
  <2>4. WriteOffset(c) = i - dataLen
    BY <1>1, <1>3, <1>4, <2>1, <2>2
  <2>5. buffer'[c] = data[i - dataLen + 1]
    BY <1>1, <1>2, <2>1, <2>2, <2>4
  <2>6. QED
    BY <2>3, <2>5
<1>10. QED
  BY <1>2, <1>5, <1>6, <1>8, <1>9 DEF BufferInv

(***************************************************************************)
(* Consuming n bytes, or all of them when there are no more, shifts what   *)
(* is left to the front.                                                   *)
(***************************************************************************)
THEOREM ConsumeShifts ==
  ASSUME BufferInv, NEW n \in Nat, Consume(n)
  PROVE  /\ BufferInv'
         /\ dataLen' = IF n >= dataLen THEN 0 ELSE dataLen - n
         /\ \A i \in 0..dataLen'-1 : ByteAt(i)' = ByteAt(n + i)
<1> DEFINE S == BufferSize
<1>1. /\ S \in Nat \ {0} /\ S <= 65535
      /\ readIdx \in 0..S-1 /\ writeIdx \in 0..S-1 /\ dataLen \in 0..S
  BY BufferSizeAssumption DEF BufferInv, TypeOKBuffer, Cell
<1>2. CASE n >= dataLen /\ Clear
  BY <1>1, <1>2 DEF Clear, BufferInv, TypeOKBuffer, IndicesAgree, Cell
<1>3. CASE /\ n < dataLen
           /\ readIdx' = (readIdx + n) % S
           /\ dataLen' = dataLen - n
           /\ UNCHANGED <<buffer, writeIdx>>
  <2>1. readIdx' = IF readIdx + n < S THEN readIdx + n ELSE readIdx + n - S
    BY <1>1, <1>3, WrapSum
  <2>2. TypeOKBuffer'
    BY <1>1, <1>3, <2>1 DEF BufferInv, TypeOKBuffer, Cell
  <2>3. IndicesAgree'
    <3>1. (readIdx' + dataLen') % S = IF readIdx' + dataLen' < S
                                      THEN readIdx' + dataLen'
                                      ELSE readIdx' + dataLen' - S
      <4>1. readIdx' \in Nat /\ dataLen' \in Nat /\ readIdx' + dataLen' < 2 * S
        BY <1>1, <1>3, <2>1
      <4>2. QED
        BY <4>1, WrapSum
    <3>2. (readIdx + dataLen) % S = IF readIdx + dataLen < S
                                    THEN readIdx + dataLen
                                    ELSE readIdx + dataLen - S
      BY <1>1, WrapSum
    <3>3. QED
      BY <1>1, <1>3, <2>1, <3>1, <3>2 DEF BufferInv, IndicesAgree
  <2>4. ASSUME NEW i \in 0..dataLen'-1
        PROVE  ByteAt(i)' = ByteAt(n + i)
    <3>1. n + i \in Nat /\ n + i < dataLen /\ i \in Nat /\ i < 65536
      BY <1>1, <1>3, <2>4
    <3>2. ByteAt(n + i) = buffer[(readIdx + (n + i)) % S]
      BY <3>1, ByteAtInside DEF BufferInv
    <3>3. (readIdx + (n + i)) % S = (readIdx' + i) % S
      <4>1. (readIdx + (n + i)) % S = IF readIdx + (n + i) < S
                                      THEN readIdx + (n + i)
                                      ELSE readIdx + (n + i) - S
        <5>1. /\ readIdx \in Nat /\ n + i \in Nat
              /\ readIdx + (n + i) < 2 * S
          BY <1>1, <3>1
        <5>2. QED
          BY <5>1, WrapSum
      <4>2. (readIdx' + i) % S = IF readIdx' + i < S THEN readIdx' + i
                                 ELSE readIdx' + i - S
        <5>1. readIdx' \in Nat /\ i \in Nat /\ readIdx' + i < 2 * S
          BY <1>1, <1>3, <2>1, <3>1
        <5>2. QED
          BY <5>1, WrapSum
      <4>3. QED
        BY <1>1, <2>1, <3>1, <4>1, <4>2
    <3>4. ByteAt(i)' = buffer'[(readIdx' + i) % S]
      <4>1. i % 65536 = i /\ ~(i >= dataLen')
        BY <1>1, <1>3, <2>4, <3>1, SmallIndex
      <4>2. QED
        BY <4>1 DEF ByteAt
    <3>5. QED
      BY <1>3, <3>2, <3>3, <3>4
  <2>5. QED
    BY <1>1, <1>3, <2>2, <2>3, <2>4 DEF BufferInv
<1>4. QED
  BY <1>2, <1>3 DEF Consume

-----------------------------------------------------------------------------
(***************************************************************************)
(* The receiver on top of it.                                              *)
(***************************************************************************)
\* The bytes in the buffer are the accepted ones that have not been consumed.
Window ==
  /\ Len(accepted) = consumed + dataLen
  /\ \A i \in 0..dataLen-1 : ByteAt(i) = accepted[consumed + i + 1]

FrameSeen == {"VERIFY_CRC", "CHECK_DUPLICATE", "PARSE_JSON", "BUILD_TASK",
              "CONSUME_DATA"}

\* Which states a call can be left in, and what a state knows of the buffer.
Control ==
  /\ loop = "parse" <=> ret = "running"
  /\ loop \in {"receive", "push"} => state \in {"IDLE", "CHECK_FRAME_COMPLETE"}
  /\ loop = "push" => state = "IDLE"
  /\ state \in {"FIND_HEADER", "PARSE_HEADER"} => dataLen >= MIN_FRAME_LEN
  /\ state = "FIND_HEADER" => frameStart = 0
  /\ state = "PARSE_HEADER" => ByteAt(0) = HEAD_CMD_H /\ ByteAt(1) = HEAD_CMD_L
  /\ state \in FrameSeen => totalFrameLen <= dataLen

\* What has been verified of the frame at the head of the buffer.
Checked ==
  /\ state \in FrameSeen \ {"VERIFY_CRC"} => ReceivedCrc = Crc(CrcData)
  /\ state \in {"BUILD_TASK", "CONSUME_DATA"} => JsonKind(JsonText) # "bad"
  /\ state = "CONSUME_DATA" => /\ JsonKind(JsonText) # "throws"
                               /\ currentTask = cmdIndex

\* The task about to be pushed is a frame, behind those pushed before.
NextStart == IF loop = "push" THEN consumed - totalFrameLen ELSE consumed
Delivered ==
  /\ loop = "push" => totalFrameLen <= consumed /\ TaskIsFrame(NewTask)
  /\ \A i \in DOMAIN tasks : tasks[i].start + tasks[i].len <= NextStart
  /\ TasksAreFrames

\* The inductive invariant.
IInv == /\ TypeOK /\ IndicesAgree /\ Window /\ Control /\ HeaderFieldsCurrent
        /\ Checked /\ Delivered

-----------------------------------------------------------------------------
LEMMA ByteNat == \A b \in Byte : b \in Nat /\ b <= 255
  BY DEF Byte

LEMMA UInt16Nat == \A u \in UInt16 : u \in Nat /\ u <= 65535
<1>1. ASSUME NEW u \in UInt16 PROVE u \in Nat /\ u <= UINT16_MAX
  <2>1. UINT16_MAX \in Nat
    BY SMT DEF UINT16_MAX
  <2>2. QED
    BY <2>1, SMT DEF UInt16
<1>2. QED
  BY <1>1, SMT DEF UINT16_MAX

LEMMA NatUInt16 ==
  ASSUME NEW u \in Nat, u <= 65535
  PROVE  u \in UInt16
<1>1. UINT16_MAX \in Nat /\ u <= UINT16_MAX
  BY SMT DEF UINT16_MAX
<1>2. QED
  BY <1>1, SMT DEF UInt16

(***************************************************************************)
(* A frame of a stream stays one when the stream grows.                    *)
(***************************************************************************)
LEMMA FrameAtExtends ==
  ASSUME NEW s \in Seq(Byte), NEW t \in Seq(Byte), NEW k \in Int, FrameAt(s, k)
  PROVE  /\ FrameAt(s \o t, k)
         /\ FrameLen(s \o t, k) = FrameLen(s, k)
         /\ (s \o t)[k + 3] = s[k + 3] /\ (s \o t)[k + 4] = s[k + 4]
<1>1. /\ Len(s) \in Nat /\ Len(t) \in Nat /\ Len(s \o t) = Len(s) + Len(t)
      /\ \A i \in 1..Len(s) : (s \o t)[i] = s[i] /\ s[i] \in Byte
  BY ConcatProperties, LenProperties, ElementOfSeq
<1>2. k >= 0 /\ k + 8 <= Len(s) /\ k + FrameLen(s, k) <= Len(s)
  BY DEF FrameAt, MIN_FRAME_LEN
<1>3. /\ (s \o t)[k + 1] = s[k + 1] /\ (s \o t)[k + 2] = s[k + 2]
      /\ (s \o t)[k + 3] = s[k + 3] /\ (s \o t)[k + 4] = s[k + 4]
      /\ (s \o t)[k + 5] = s[k + 5] /\ (s \o t)[k + 6] = s[k + 6]
      /\ s[k + 5] \in Nat /\ s[k + 6] \in Nat
  <2>1. /\ k + 1 \in 1..Len(s) /\ k + 2 \in 1..Len(s) /\ k + 3 \in 1..Len(s)
        /\ k + 4 \in 1..Len(s) /\ k + 5 \in 1..Len(s) /\ k + 6 \in 1..Len(s)
    BY <1>1, <1>2
  <2>2. s[k + 5] \in Byte /\ s[k + 6] \in Byte
    BY <1>1, <2>1
  <2>3. s[k + 5] \in Nat /\ s[k + 6] \in Nat
    BY <2>2, ByteNat
  <2>4. QED
    BY <1>1, <2>1, <2>3
<1>4. FrameLen(s \o t, k) = FrameLen(s, k)
  BY <1>3 DEF FrameLen
<1>5. FrameLen(s, k) \in Nat /\ FrameLen(s, k) >= 8
  <2>1. ASSUME NEW a \in Nat, NEW b \in Nat, a = s[k + 5], b = s[k + 6]
        PROVE  FrameLen(s, k) \in Nat /\ FrameLen(s, k) >= 8
    <3>1. FrameLen(s, k) = 256 * a + b + 8
      BY <2>1 DEF FrameLen, MIN_FRAME_LEN
    <3>2. 256 * a + b + 8 \in Nat /\ 256 * a + b + 8 >= 8
      OBVIOUS
    <3>3. QED
      BY <3>1, <3>2, Zenon
  <2>2. QED
    BY <1>3, <2>1, Zenon
<1>6. \A j \in 1..FrameLen(s, k) : (s \o t)[k + j] = s[k + j]
  BY <1>1, <1>2, <1>5
<1>7. FrameText(s \o t, k) = FrameText(s, k)
  <2>1. ASSUME NEW i \in 1..(FrameLen(s, k) - 8), i < FrameLen(s, k) - 8
        PROVE  (s \o t)[k + 7 + i] = s[k + 7 + i]
    BY <1>1, <1>2, <1>5
  <2>2. QED
    BY <1>4, <1>5, <2>1 DEF FrameText, MIN_FRAME_LEN
<1>8. ASSUME NEW n \in Nat, n = FrameLen(s, k)
      PROVE  /\ (s \o t)[k + (n - 1)] = s[k + (n - 1)]
             /\ (s \o t)[k + n] = s[k + n]
             /\ [i \in 1..(n - 2) |-> (s \o t)[k + i]]
                  = [i \in 1..(n - 2) |-> s[k + i]]
  <2>1. n \in Nat /\ n >= 8 /\ n - 1 \in 1..n /\ n \in 1..n
    BY <1>5, <1>8
  <2>2. \A i \in 1..(n - 2) : (s \o t)[k + i] = s[k + i]
    <3>1. \A i \in 1..(n - 2) : i \in 1..n
      BY <2>1
    <3>2. QED
      BY <1>6, <1>8, <3>1, Zenon
  <2>3. QED
    BY <1>6, <1>8, <2>1, <2>2
<1>9. FrameAt(s \o t, k)
  <2>1. k + MIN_FRAME_LEN <= Len(s \o t) /\ k + FrameLen(s \o t, k) <= Len(s \o t)
    BY <1>1, <1>2, <1>4, <1>5 DEF MIN_FRAME_LEN
  <2>2. (s \o t)[k + 1] = HEAD_CMD_H /\ (s \o t)[k + 2] = HEAD_CMD_L
    BY <1>3 DEF FrameAt
  <2>3. JsonKind(FrameText(s \o t, k)) \notin {"bad", "throws"}
    BY <1>7 DEF FrameAt
  <2>4. LET n == FrameLen(s \o t, k)
        IN  256 * (s \o t)[k + (n - 1)] + (s \o t)[k + n]
              = Crc([i \in 1..(n - 2) |-> (s \o t)[k + i]])
    BY <1>4, <1>5, <1>8 DEF FrameAt
  <2>5. QED
    BY <1>2, <2>1, <2>2, <2>3, <2>4 DEF FrameAt
<1>10. QED
  BY <1>3, <1>4, <1>9

(***************************************************************************)
(* What a step that consumes, and one that leaves the buffer alone, does   *)
(* to the window.                                                          *)
(***************************************************************************)
LEMMA ConsumeWindow ==
  ASSUME BufferInv, Window, accepted \in Seq(Byte), consumed \in Nat,
         NEW n \in Nat, Consume(n), accepted' = accepted,
         consumed' = consumed + (dataLen - dataLen')
  PROVE  /\ BufferInv' /\ Window'
         /\ consumed' \in 0..Len(accepted') /\ consumed <= consumed'
         /\ n <= dataLen => consumed' = consumed + n
<1>1. /\ BufferInv'
      /\ dataLen' = IF n >= dataLen THEN 0 ELSE dataLen - n
      /\ \A i \in 0..dataLen'-1 : ByteAt(i)' = ByteAt(n + i)
  BY ConsumeShifts
<1>2. dataLen \in Nat /\ Len(accepted) \in Nat /\ BufferSize \in Nat
  BY BufferSizeAssumption DEF BufferInv, TypeOKBuffer
<1>3. /\ consumed' \in 0..Len(accepted') /\ consumed <= consumed'
      /\ n <= dataLen => consumed' = consumed + n
      /\ Len(accepted') = consumed' + dataLen'
  BY <1>1, <1>2 DEF Window
<1>4. ASSUME NEW i \in 0..dataLen'-1
      PROVE  ByteAt(i)' = accepted'[consumed' + i + 1]
  <2>1. n < dataLen /\ dataLen' = dataLen - n /\ consumed' = consumed + n
    BY <1>1, <1>2, <1>3
  <2>2. n + i \in 0..dataLen-1 /\ ByteAt(i)' = ByteAt(n + i)
    BY <1>1, <1>2, <2>1
  <2>3. ByteAt(n + i) = accepted[consumed + (n + i) + 1]
    BY <2>2 DEF Window
  <2>4. consumed + (n + i) + 1 = consumed' + i + 1
    BY <1>2, <2>1
  <2>5. QED
    BY <2>2, <2>3, <2>4
<1>5. QED
  BY <1>1, <1>3, <1>4 DEF Window

LEMMA StutterWindow ==
  ASSUME BufferInv, Window, accepted \in Seq(Byte), consumed \in Nat,
         UNCHANGED bufferVars, accepted' = accepted,
         consumed' = consumed + (dataLen - dataLen')
  PROVE  /\ BufferInv' /\ Window' /\ consumed' = consumed
         /\ \A i : ByteAt(i)' = ByteAt(i)
<1>1. consumed' = consumed
  BY DEF bufferVars, BufferInv, TypeOKBuffer
<1>2. BufferInv'
  BY DEF bufferVars, BufferInv, TypeOKBuffer, IndicesAgree
<1>3. \A i : ByteAt(i)' = ByteAt(i)
  BY DEF bufferVars, ByteAt
<1>4. Window'
  BY <1>1, <1>3 DEF bufferVars, Window
<1>5. QED
  BY <1>1, <1>2, <1>3, <1>4
-----------------------------------------------------------------------------
\* What Parse adds to a turn of parseFrame().
InParse ==
  /\ loop = "parse" /\ ret = "running"
  /\ loop' = AfterReturn(ret')
  /\ consumed' = consumed + (dataLen - dataLen')
  /\ UNCHANGED <<wire, tasks, sent, accepted, refused>>

ReturnValue == {"running", "-1", "0", "1", "exception"}

LEMMA AfterReturnValues ==
  /\ \A v \in ReturnValue :
       /\ AfterReturn(v) \in {"receive", "parse", "push", "terminated"}
       /\ AfterReturn(v) = "parse" <=> v = "running"
       /\ AfterReturn(v) = "push" <=> v = "1"
  /\ AfterReturn("exception") = "terminated"
  BY DEF ReturnValue, AfterReturn

LEMMA IInvFacts ==
  ASSUME IInv
  PROVE  /\ BufferInv /\ TypeOKBuffer /\ Window
         /\ accepted \in Seq(Byte) /\ consumed \in Nat
         /\ consumed <= Len(accepted)
         /\ dataLen \in Nat /\ dataLen <= 65535
         /\ frameStart \in UInt16 /\ cmdIndex \in UInt16
         /\ contentLen \in UInt16 /\ totalFrameLen \in UInt16
         /\ currentTask \in UInt16
<1>1. TypeOKBuffer
  BY DEF IInv, TypeOK, TypeOKParser
<1>2. dataLen \in Nat /\ dataLen <= 65535
  BY <1>1, BufferSizeAssumption DEF TypeOKBuffer
<1>3. consumed \in Nat /\ consumed <= Len(accepted)
  <2>1. Len(accepted) \in Nat /\ consumed \in 0..Len(accepted)
    BY LenProperties DEF IInv, TypeOK
  <2>2. QED
    BY <2>1
<1>4. QED
  BY <1>1, <1>2, <1>3 DEF IInv, BufferInv, TypeOK, TypeOKParser

\* A task's place in the stream is a pair of numbers.
LEMMA TaskFields ==
  ASSUME TypeOK, NEW i \in DOMAIN tasks
  PROVE  tasks[i].start \in Nat /\ tasks[i].len \in Nat
<1>1. tasks[i] \in [cmdIndex : UInt16, contentLen : UInt16, start : Nat,
                    len : UInt16]
  BY ElementOfSeq, LenProperties DEF TypeOK
<1>2. tasks[i].start \in Nat /\ tasks[i].len \in UInt16
  BY <1>1
<1>3. tasks[i].len \in Nat
  BY <1>2, UInt16Nat
<1>4. QED
  BY <1>2, <1>3

\* Parts of the invariant that do not depend on the state reached.
LEMMA ParseKeeps ==
  ASSUME IInv, InParse, BufferInv', Window',
         consumed' \in 0..Len(accepted'), consumed <= consumed',
         state' \in ParseState, frameStart' \in UInt16, cmdIndex' \in UInt16,
         contentLen' \in UInt16, totalFrameLen' \in UInt16,
         currentTask' \in UInt16, ret' \in ReturnValue
  PROVE  /\ TypeOK' /\ IndicesAgree' /\ Window'
         /\ ret' # "1" => Delivered'
<1>1. TypeOK'
  <2>1. TypeOKParser'
    BY DEF BufferInv, TypeOKParser, ReturnValue
  <2>2. loop' \in {"receive", "parse", "push", "terminated"}
    BY AfterReturnValues DEF InParse
  <2>3. QED
    BY <2>1, <2>2 DEF IInv, TypeOK, InParse
<1>2. ASSUME ret' # "1" PROVE Delivered'
  <2>1. loop' # "push"
    BY <1>2, AfterReturnValues DEF InParse
  <2>2. /\ tasks' = tasks /\ accepted' = accepted
        /\ \A i \in DOMAIN tasks : tasks[i].start + tasks[i].len <= consumed
        /\ TasksAreFrames
    BY DEF IInv, InParse, Delivered, NextStart
  <2>3. TasksAreFrames'
    BY <2>2 DEF TasksAreFrames, TaskIsFrame
  <2>4. ASSUME NEW i \in DOMAIN tasks
        PROVE  tasks[i].start + tasks[i].len <= consumed'
    <3>1. tasks[i].start \in Nat /\ tasks[i].len \in Nat
      BY TaskFields DEF IInv
    <3>2. consumed \in Nat /\ consumed' \in Nat /\ consumed <= consumed'
      BY IInvFacts, LenProperties
    <3>3. tasks[i].start + tasks[i].len <= consumed
      BY <2>2
    <3>4. QED
      BY <3>1, <3>2, <3>3
  <2>5. QED
    BY <2>1, <2>2, <2>3, <2>4 DEF Delivered, NextStart
<1>3. QED
  BY <1>1, <1>2 DEF BufferInv

\* Going back to STATE_IDLE with a return leaves nothing to be remembered.
LEMMA IdleKeeps ==
  ASSUME InParse, state' = "IDLE", ret' \in {"-1", "0", "1"}
  PROVE  Control' /\ HeaderFieldsCurrent' /\ Checked'
<1>1. loop' # "parse" /\ ret' # "running"
  BY AfterReturnValues DEF InParse, ReturnValue
<1>2. QED
  BY <1>1 DEF Control, HeaderFieldsCurrent, HeaderRead, Checked, FrameSeen

\* A turn that returns to STATE_IDLE after consuming n bytes, or none.
LEMMA SkipStep ==
  ASSUME IInv, InParse, NEW n \in Nat, Consume(n), state' = "IDLE",
         ret' \in {"-1", "0"}, frameStart' \in UInt16,
         UNCHANGED <<headerVars, currentTask>>
  PROVE  IInv'
<1>1. /\ BufferInv' /\ Window' /\ consumed' \in 0..Len(accepted')
      /\ consumed <= consumed'
  BY IInvFacts, ConsumeWindow DEF InParse
<1>2. TypeOK' /\ IndicesAgree' /\ Window' /\ Delivered'
  BY <1>1, ParseKeeps, IInvFacts DEF headerVars, ParseState, ReturnValue
<1>3. QED
  BY <1>2, IdleKeeps DEF IInv

\* A turn that leaves the buffer alone.
LEMMA GotoKeeps ==
  ASSUME IInv, InParse, UNCHANGED bufferVars, state' \in ParseState,
         frameStart' \in UInt16, cmdIndex' \in UInt16, contentLen' \in UInt16,
         totalFrameLen' \in UInt16, currentTask' \in UInt16,
         ret' \in ReturnValue \ {"1"}
  PROVE  /\ TypeOK' /\ IndicesAgree' /\ Window' /\ Delivered'
         /\ consumed' = consumed /\ dataLen' = dataLen
         /\ \A i : ByteAt(i)' = ByteAt(i)
<1>1. /\ BufferInv' /\ Window' /\ consumed' = consumed
      /\ \A i : ByteAt(i)' = ByteAt(i)
  BY IInvFacts, StutterWindow DEF InParse
<1>2. consumed' \in 0..Len(accepted') /\ consumed <= consumed'
  BY <1>1, IInvFacts DEF IInv, TypeOK, InParse
<1>3. TypeOK' /\ IndicesAgree' /\ Window' /\ Delivered'
  BY <1>1, <1>2, ParseKeeps
<1>4. QED
  BY <1>1, <1>3 DEF bufferVars
-----------------------------------------------------------------------------
LEMMA IdleStep ==
  ASSUME IInv, InParse, Idle
  PROVE  IInv'
<1>1. /\ UNCHANGED <<bufferVars, headerVars, currentTask>>
      /\ state' \in ParseState /\ frameStart' \in {frameStart, 0}
      /\ ret' \in ReturnValue \ {"1"}
  BY DEF Idle, Return, Goto, ParseState, ReturnValue, InParse
<1> frameStart' \in UInt16
  BY <1>1, IInvFacts, NatUInt16
<1>2. /\ TypeOK' /\ IndicesAgree' /\ Window' /\ Delivered'
      /\ dataLen' = dataLen
  BY <1>1, GotoKeeps, IInvFacts DEF headerVars
<1>3. CASE dataLen < MIN_FRAME_LEN
  <2>1. state' = "IDLE" /\ ret' = "-1"
    BY <1>3 DEF Idle, Return
  <2>2. QED
    BY <1>2, <2>1, IdleKeeps DEF IInv
<1>4. CASE ~(dataLen < MIN_FRAME_LEN)
  <2>1. /\ state' = "FIND_HEADER" /\ ret' = "running" /\ frameStart' = 0
        /\ dataLen' >= MIN_FRAME_LEN
    BY <1>2, <1>4, IInvFacts DEF Idle, Goto, InParse, MIN_FRAME_LEN
  <2>2. loop' = "parse"
    BY <2>1, AfterReturnValues DEF InParse, ReturnValue
  <2>3. Control' /\ HeaderFieldsCurrent' /\ Checked'
    BY <2>1, <2>2 DEF Control, HeaderFieldsCurrent, HeaderRead, Checked, FrameSeen
  <2>4. QED
    BY <1>2, <2>3 DEF IInv
<1>5. QED
  BY <1>3, <1>4

LEMMA FindHeaderStep ==
  ASSUME IInv, InParse, FindHeader
  PROVE  IInv'
<1>1. dataLen >= 8 /\ frameStart = 0 /\ dataLen \in Nat /\ dataLen <= 65535
  BY IInvFacts DEF IInv, Control, FindHeader, MIN_FRAME_LEN
<1>2. UNCHANGED <<headerVars, currentTask>>
  BY DEF FindHeader
<1>3. CASE /\ HeaderStarts = {}
           /\ frameStart' = dataLen - MIN_FRAME_LEN + 1
           /\ Consume(dataLen)
           /\ Return("-1", "IDLE")
  <2>1. frameStart' \in UInt16
    <3>1. dataLen - 8 + 1 \in Nat /\ dataLen - 8 + 1 <= 65535
      BY <1>1, SMT
    <3>2. QED
      BY <1>3, <3>1, NatUInt16 DEF MIN_FRAME_LEN
  <2>2. QED
    BY <1>1, <1>2, <1>3, <2>1, SkipStep DEF Return
<1>4. ASSUME NEW k \in HeaderStarts, frameStart' = k,
             IF k > 0
             THEN Consume(k) /\ Return("0", "IDLE")
             ELSE Goto("PARSE_HEADER") /\ UNCHANGED bufferVars
      PROVE  IInv'
  <2>1. /\ k \in Nat /\ k <= 65535
        /\ ByteAt(k) = HEAD_CMD_H /\ ByteAt(k + 1) = HEAD_CMD_L
    BY <1>1 DEF HeaderStarts, MIN_FRAME_LEN
  <2>2. frameStart' \in UInt16
    BY <1>4, <2>1, NatUInt16
  <2>3. CASE k > 0
    BY <1>2, <1>4, <2>1, <2>2, <2>3, SkipStep DEF Return
  <2>4. CASE ~(k > 0)
    <3>1. /\ k = 0 /\ UNCHANGED bufferVars
          /\ state' = "PARSE_HEADER" /\ ret' = "running"
      BY <1>4, <2>1, <2>4 DEF Goto, InParse
    <3>2. /\ TypeOK' /\ IndicesAgree' /\ Window' /\ Delivered'
          /\ dataLen' = dataLen /\ \A i : ByteAt(i)' = ByteAt(i)
      BY <1>2, <2>2, <3>1, GotoKeeps, IInvFacts
      DEF headerVars, ParseState, ReturnValue
    <3>3. loop' = "parse"
      BY <3>1, AfterReturnValues DEF InParse, ReturnValue
    <3>4. ByteAt(0)' = HEAD_CMD_H /\ ByteAt(1)' = HEAD_CMD_L
      BY <2>1, <3>1, <3>2
    <3>5. Control' /\ HeaderFieldsCurrent' /\ Checked'
      BY <1>1, <3>1, <3>2, <3>3, <3>4
      DEF Control, HeaderFieldsCurrent, HeaderRead, Checked, FrameSeen,
          MIN_FRAME_LEN
    <3>6. QED
      BY <3>2, <3>5 DEF IInv
  <2>5. QED
    BY <2>3, <2>4
<1>5. QED
  BY <1>3, <1>4 DEF FindHeader

LEMMA WordIsUInt16 ==
  ASSUME NEW a \in Byte, NEW b \in Byte
  PROVE  256 * a + b \in UInt16
<1>1. a \in Nat /\ b \in Nat /\ a <= 255 /\ b <= 255
  BY ByteNat
<1>2. 256 * a + b \in Nat /\ 256 * a + b <= 65535
  BY <1>1, SMT
<1>3. QED
  BY <1>2, NatUInt16

LEMMA ParseHeaderStep ==
  ASSUME IInv, InParse, ParseHeader
  PROVE  IInv'
<1>1. /\ dataLen >= 8 /\ ByteAt(0) = HEAD_CMD_H /\ ByteAt(1) = HEAD_CMD_L
  BY DEF IInv, Control, ParseHeader, MIN_FRAME_LEN
<1>2. /\ cmdIndex' = 256 * ByteAt(2) + ByteAt(3)
      /\ contentLen' = 256 * ByteAt(4) + ByteAt(5)
      /\ totalFrameLen' = (contentLen' + 8) % 65536
      /\ UNCHANGED <<bufferVars, frameStart, currentTask>>
      /\ state' = "CHECK_FRAME_COMPLETE" /\ ret' = "running"
  BY DEF ParseHeader, Goto, InParse
<1>3. cmdIndex' \in UInt16 /\ contentLen' \in UInt16
  BY <1>2, ByteAtIsByte, IInvFacts, WordIsUInt16
<1>4. totalFrameLen' \in UInt16
  <2>1. contentLen' \in Nat
    BY <1>3, UInt16Nat
  <2>2. ASSUME NEW x \in Nat
        PROVE  (x + 8) % 65536 \in Nat /\ (x + 8) % 65536 <= 65535
    BY SMT
  <2>3. totalFrameLen' \in Nat /\ totalFrameLen' <= 65535
    BY <1>2, <2>1, <2>2, SMT
  <2>4. QED
    BY <2>3, NatUInt16
<1>5. /\ TypeOK' /\ IndicesAgree' /\ Window' /\ Delivered'
      /\ dataLen' = dataLen /\ \A i : ByteAt(i)' = ByteAt(i)
  BY <1>2, <1>3, <1>4, GotoKeeps, IInvFacts DEF ParseState, ReturnValue
<1>6. HeaderFieldsCurrent'
  BY <1>1, <1>2, <1>5 DEF HeaderFieldsCurrent, MIN_FRAME_LEN
<1>7. loop' = "parse"
  BY <1>2, AfterReturnValues DEF InParse, ReturnValue
<1>8. Control' /\ Checked'
  BY <1>2, <1>7 DEF Control, Checked, FrameSeen
<1>9. QED
  BY <1>5, <1>6, <1>8 DEF IInv

\* The header fields stay current while the buffer and they do not change.
LEMMA HeaderStays ==
  ASSUME HeaderFieldsCurrent, HeaderRead, UNCHANGED headerVars,
         dataLen' = dataLen, \A i : ByteAt(i)' = ByteAt(i)
  PROVE  HeaderFieldsCurrent'
BY DEF HeaderFieldsCurrent, headerVars

LEMMA CheckFrameCompleteStep ==
  ASSUME IInv, InParse, CheckFrameComplete
  PROVE  IInv'
<1>1. /\ UNCHANGED <<bufferVars, frameStart, headerVars, currentTask>>
      /\ state' \in ParseState /\ ret' \in ReturnValue \ {"1"}
  BY DEF CheckFrameComplete, Return, Goto, ParseState, ReturnValue, InParse
<1>2. /\ TypeOK' /\ IndicesAgree' /\ Window' /\ Delivered'
      /\ dataLen' = dataLen /\ \A i : ByteAt(i)' = ByteAt(i)
  BY <1>1, GotoKeeps, IInvFacts DEF headerVars
<1>3. HeaderFieldsCurrent'
  BY <1>1, <1>2, HeaderStays
  DEF IInv, CheckFrameComplete, HeaderRead, ParseState
<1>4. Control' /\ Checked'
  <2>1. CASE dataLen < totalFrameLen
    <3>1. state' = "CHECK_FRAME_COMPLETE" /\ ret' = "-1"
      BY <2>1 DEF CheckFrameComplete, Return
    <3>2. loop' = "receive"
      BY <3>1 DEF InParse, AfterReturn
    <3>3. QED
      BY <3>1, <3>2 DEF Control, Checked, FrameSeen
  <2>2. CASE ~(dataLen < totalFrameLen)
    <3>1. state' = "VERIFY_CRC" /\ ret' = "running" /\ totalFrameLen <= dataLen
      BY <2>2, IInvFacts, UInt16Nat DEF CheckFrameComplete, Goto, InParse
    <3>2. loop' = "parse"
      BY <3>1, AfterReturnValues DEF InParse, ReturnValue
    <3>3. QED
      BY <1>1, <1>2, <3>1, <3>2 DEF Control, Checked, FrameSeen, headerVars
  <2>3. QED
    BY <2>1, <2>2
<1>5. QED
  BY <1>2, <1>3, <1>4 DEF IInv

\* So do the CRC and the text the parser computes from them.
LEMMA FrameStays ==
  ASSUME UNCHANGED headerVars, \A i : ByteAt(i)' = ByteAt(i)
  PROVE  /\ ReceivedCrc' = ReceivedCrc /\ CrcData' = CrcData
         /\ JsonText' = JsonText
BY DEF headerVars, ReceivedCrc, CrcData, JsonText

\* A turn from one of the states behind CHECK_FRAME_COMPLETE to the next.
LEMMA FrameSeenStep ==
  ASSUME IInv, InParse, state \in FrameSeen, state' \in FrameSeen,
         UNCHANGED <<bufferVars, frameStart, headerVars>>,
         currentTask' \in UInt16, ret' \in {"running", "exception"}
  PROVE  /\ TypeOK' /\ IndicesAgree' /\ Window' /\ Delivered'
         /\ Control' /\ HeaderFieldsCurrent'
         /\ ReceivedCrc' = ReceivedCrc /\ CrcData' = CrcData
         /\ JsonText' = JsonText
<1>1. /\ TypeOK' /\ IndicesAgree' /\ Window' /\ Delivered'
      /\ dataLen' = dataLen /\ \A i : ByteAt(i)' = ByteAt(i)
  BY GotoKeeps, IInvFacts DEF headerVars, FrameSeen, ParseState, ReturnValue
<1>2. /\ ReceivedCrc' = ReceivedCrc /\ CrcData' = CrcData
      /\ JsonText' = JsonText
  BY <1>1, FrameStays
<1>3. HeaderFieldsCurrent'
  BY <1>1, HeaderStays DEF IInv, HeaderRead, FrameSeen, ParseState
<1>4. Control'
  <2>1. totalFrameLen' <= dataLen'
    BY <1>1 DEF IInv, Control, headerVars
  <2>2. /\ loop' = "parse" <=> ret' = "running"
        /\ loop' \in {"parse", "terminated"}
    BY AfterReturnValues DEF InParse, ReturnValue
  <2>3. QED
    BY <2>1, <2>2 DEF Control, FrameSeen
<1>5. QED
  BY <1>1, <1>2, <1>3, <1>4

LEMMA VerifyCrcStep ==
  ASSUME IInv, InParse, VerifyCrc
  PROVE  IInv'
<1>1. UNCHANGED <<frameStart, headerVars, currentTask>>
  BY DEF VerifyCrc
<1>2. CASE ReceivedCrc = Crc(CrcData)
  <2>1. /\ state = "VERIFY_CRC" /\ state' = "CHECK_DUPLICATE"
        /\ ret' = "running" /\ UNCHANGED bufferVars
    BY <1>2 DEF VerifyCrc, Goto, InParse
  <2>2. /\ TypeOK' /\ IndicesAgree' /\ Window' /\ Delivered'
        /\ Control' /\ HeaderFieldsCurrent'
        /\ ReceivedCrc' = ReceivedCrc /\ CrcData' = CrcData
    BY <1>1, <2>1, FrameSeenStep, IInvFacts DEF FrameSeen
  <2>3. Checked'
    BY <1>2, <2>1, <2>2 DEF Checked, FrameSeen
  <2>4. QED
    BY <2>2, <2>3 DEF IInv
<1>3. CASE ReceivedCrc # Crc(CrcData)
  <2>1. Consume(2) /\ state' = "IDLE" /\ ret' = "0"
    BY <1>3 DEF VerifyCrc, Return
  <2>2. QED
    BY <1>1, <2>1, SkipStep, IInvFacts
<1>4. QED
  BY <1>2, <1>3

LEMMA CheckDuplicateStep ==
  ASSUME IInv, InParse, CheckDuplicate
  PROVE  IInv'
<1>1. /\ state = "CHECK_DUPLICATE" /\ state' = "PARSE_JSON"
      /\ ret' = "running"
      /\ UNCHANGED <<bufferVars, frameStart, headerVars, currentTask>>
  BY DEF CheckDuplicate, Goto, InParse
<1>2. /\ TypeOK' /\ IndicesAgree' /\ Window' /\ Delivered'
      /\ Control' /\ HeaderFieldsCurrent'
      /\ ReceivedCrc' = ReceivedCrc /\ CrcData' = CrcData
  BY <1>1, FrameSeenStep, IInvFacts DEF FrameSeen
<1>3. Checked'
  BY <1>1, <1>2 DEF IInv, Checked, FrameSeen
<1>4. QED
  BY <1>2, <1>3 DEF IInv

LEMMA ParseJsonStep ==
  ASSUME IInv, InParse, ParseJson
  PROVE  IInv'
<1>1. UNCHANGED <<frameStart, headerVars, currentTask>>
  BY DEF ParseJson
<1>2. CASE JsonKind(JsonText) = "bad"
  <2>1. Consume(totalFrameLen) /\ state' = "IDLE" /\ ret' = "0"
    BY <1>2 DEF ParseJson, Return
  <2>2. totalFrameLen \in Nat
    BY IInvFacts, UInt16Nat
  <2>3. QED
    BY <1>1, <2>1, <2>2, SkipStep, IInvFacts
<1>3. CASE JsonKind(JsonText) # "bad"
  <2>1. /\ state = "PARSE_JSON" /\ state' = "BUILD_TASK"
        /\ ret' = "running" /\ UNCHANGED bufferVars
    BY <1>3 DEF ParseJson, Goto, InParse
  <2>2. /\ TypeOK' /\ IndicesAgree' /\ Window' /\ Delivered'
        /\ Control' /\ HeaderFieldsCurrent'
        /\ ReceivedCrc' = ReceivedCrc /\ CrcData' = CrcData
        /\ JsonText' = JsonText
    BY <1>1, <2>1, FrameSeenStep, IInvFacts DEF FrameSeen
  <2>3. ReceivedCrc = Crc(CrcData)
    BY <2>1 DEF IInv, Checked, FrameSeen
  <2>4. Checked'
    BY <1>3, <2>1, <2>2, <2>3 DEF Checked
  <2>5. QED
    BY <2>2, <2>4 DEF IInv
<1>4. QED
  BY <1>2, <1>3

LEMMA BuildTaskStep ==
  ASSUME IInv, InParse, BuildTask
  PROVE  IInv'
<1>1. /\ state = "BUILD_TASK" /\ state' \in {"BUILD_TASK", "CONSUME_DATA"}
      /\ ret' \in {"running", "exception"} /\ currentTask' = cmdIndex
      /\ UNCHANGED <<bufferVars, frameStart, headerVars>>
  BY DEF BuildTask, Goto, Return, InParse
<1>2. /\ TypeOK' /\ IndicesAgree' /\ Window' /\ Delivered'
      /\ Control' /\ HeaderFieldsCurrent'
      /\ ReceivedCrc' = ReceivedCrc /\ CrcData' = CrcData
      /\ JsonText' = JsonText
  BY <1>1, FrameSeenStep, IInvFacts DEF FrameSeen
<1>3. ReceivedCrc = Crc(CrcData) /\ JsonKind(JsonText) # "bad"
  BY <1>1 DEF IInv, Checked, FrameSeen
<1>4. state' = "CONSUME_DATA" =>
        JsonKind(JsonText) # "throws" /\ currentTask' = cmdIndex'
  BY <1>1 DEF BuildTask, Return, headerVars
<1>5. Checked'
  BY <1>2, <1>3, <1>4 DEF Checked
<1>6. QED
  BY <1>2, <1>5 DEF IInv

LEMMA NoWrap ==
  ASSUME NEW x \in Nat, x < 65528
  PROVE  (x + 8) % 65536 = x + 8 /\ (x + 6) % 65536 = x + 6
<1>1. \A y, m \in Nat : y < m => y % m = y
  BY SMT
<1>2. /\ x + 8 \in Nat /\ x + 8 < 65536 /\ 65536 \in Nat
      /\ x + 6 \in Nat /\ x + 6 < 65536
  BY SMT
<1>3. QED
  BY <1>1, <1>2, SMT

(***************************************************************************)
(* In STATE_CONSUME_DATA a well-formed frame stands at the head.           *)
(***************************************************************************)
LEMMA FrameAtHead ==
  ASSUME IInv, state = "CONSUME_DATA", contentLen < 65528
  PROVE  /\ FrameAt(accepted, consumed)
         /\ FrameLen(accepted, consumed) = totalFrameLen
         /\ cmdIndex = 256 * accepted[consumed + 3] + accepted[consumed + 4]
<1>1. /\ dataLen \in Nat /\ consumed \in Nat /\ contentLen \in Nat
      /\ Len(accepted) = consumed + dataLen
      /\ \A i \in 0..dataLen-1 : ByteAt(i) = accepted[consumed + i + 1]
  BY IInvFacts, UInt16Nat DEF Window
<1>2. /\ dataLen >= 8 /\ totalFrameLen <= dataLen
      /\ ByteAt(0) = HEAD_CMD_H /\ ByteAt(1) = HEAD_CMD_L
      /\ cmdIndex = 256 * ByteAt(2) + ByteAt(3)
      /\ contentLen = 256 * ByteAt(4) + ByteAt(5)
      /\ totalFrameLen = (contentLen + 8) % 65536
      /\ ReceivedCrc = Crc(CrcData)
      /\ JsonKind(JsonText) \notin {"bad", "throws"}
  BY DEF IInv, HeaderFieldsCurrent, HeaderRead, ParseState, Control, Checked,
         FrameSeen, MIN_FRAME_LEN
<1>3. totalFrameLen = contentLen + 8
  <2>1. contentLen \in Nat /\ totalFrameLen = (contentLen + 8) % 65536
    BY <1>1, <1>2, SMT
  <2>2. \A x \in Nat : x < 65528 => (x + 8) % 65536 = x + 8
    BY NoWrap, SMT
  <2>3. QED
    BY <2>1, <2>2, SMT
<1>4. /\ accepted[consumed + 1] = HEAD_CMD_H
      /\ accepted[consumed + 2] = HEAD_CMD_L
      /\ ByteAt(2) = accepted[consumed + 3]
      /\ ByteAt(3) = accepted[consumed + 4]
      /\ ByteAt(4) = accepted[consumed + 5]
      /\ ByteAt(5) = accepted[consumed + 6]
  BY <1>1, <1>2
<1>5. FrameLen(accepted, consumed) = contentLen + 8
  BY <1>2, <1>4 DEF FrameLen, MIN_FRAME_LEN
<1>5a. /\ dataLen \in Nat /\ contentLen \in Nat /\ consumed \in Nat
      /\ contentLen + 8 <= dataLen
  BY <1>1, <1>2, <1>3
<1>6. /\ ByteAt(6 + contentLen) = accepted[consumed + (contentLen + 7)]
      /\ ByteAt(7 + contentLen) = accepted[consumed + (contentLen + 8)]
  <2>1. 6 + contentLen \in 0..dataLen-1 /\ 7 + contentLen \in 0..dataLen-1
    BY <1>5a
  <2>2. /\ ByteAt(6 + contentLen) = accepted[consumed + (6 + contentLen) + 1]
        /\ ByteAt(7 + contentLen) = accepted[consumed + (7 + contentLen) + 1]
    BY <1>1, <2>1
  <2>3. /\ consumed + (6 + contentLen) + 1 = consumed + (contentLen + 7)
        /\ consumed + (7 + contentLen) + 1 = consumed + (contentLen + 8)
    BY <1>1
  <2>4. QED
    BY <2>2, <2>3
<1>7. CrcData = [i \in 1..(contentLen + 6) |-> accepted[consumed + i]]
  <2>1. ASSUME NEW i \in 1..(contentLen + 6)
        PROVE  ByteAt(i - 1) = accepted[consumed + i]
    <3>1. i - 1 \in 0..dataLen-1 /\ consumed + (i - 1) + 1 = consumed + i
      BY <1>5a
    <3>2. QED
      BY <1>1, <3>1
  <2>2. (contentLen + 6) % 65536 = contentLen + 6
    <3>1. \A x \in Nat : x < 65528 => (x + 6) % 65536 = x + 6
      BY NoWrap, SMT
    <3>2. QED
      BY <1>5a, <3>1, SMT
  <2>3. QED
    BY <2>1, <2>2 DEF CrcData
<1>8. FrameText(accepted, consumed) = JsonText
  <2>1. FrameLen(accepted, consumed) - MIN_FRAME_LEN = contentLen
    BY <1>1, <1>5 DEF MIN_FRAME_LEN
  <2>2. ASSUME NEW i \in 1..contentLen, i < contentLen
        PROVE  ByteAt(6 + i) = accepted[consumed + 7 + i]
    <3>1. /\ 6 + i \in 0..dataLen-1
          /\ consumed + (6 + i) + 1 = consumed + 7 + i
      BY <1>5a, <2>2
    <3>2. QED
      BY <1>1, <3>1
  <2>3. QED
    BY <2>1, <2>2 DEF FrameText, JsonText
<1>9. ASSUME NEW n \in Nat, n = contentLen + 8
      PROVE  256 * accepted[consumed + (n - 1)] + accepted[consumed + n]
               = Crc([i \in 1..(n - 2) |-> accepted[consumed + i]])
  <2>1. n - 1 = contentLen + 7 /\ n - 2 = contentLen + 6
    BY <1>1, <1>9
  <2>2. /\ ByteAt(6 + contentLen) = accepted[consumed + (n - 1)]
        /\ ByteAt(7 + contentLen) = accepted[consumed + n]
    BY <1>6, <1>9, <2>1
  <2>3. CrcData = [i \in 1..(n - 2) |-> accepted[consumed + i]]
    BY <1>7, <2>1
  <2>4. 256 * ByteAt(6 + contentLen) + ByteAt(7 + contentLen) = Crc(CrcData)
    BY <1>2 DEF ReceivedCrc
  <2>5. QED
    BY <2>2, <2>3, <2>4
<1>10. FrameAt(accepted, consumed)
  <2>1. /\ consumed >= 0 /\ consumed + MIN_FRAME_LEN <= Len(accepted)
        /\ consumed + FrameLen(accepted, consumed) <= Len(accepted)
    BY <1>1, <1>2, <1>3, <1>5 DEF MIN_FRAME_LEN
  <2>2. contentLen + 8 \in Nat
    BY <1>1
  <2>3. LET n == FrameLen(accepted, consumed)
        IN  256 * accepted[consumed + (n - 1)] + accepted[consumed + n]
              = Crc([i \in 1..(n - 2) |-> accepted[consumed + i]])
    BY <1>5, <1>9, <2>2
  <2>4. QED
    BY <1>2, <1>4, <1>8, <2>1, <2>3 DEF FrameAt
<1>11. QED
  BY <1>2, <1>3, <1>4, <1>5, <1>10

LEMMA ConsumeDataStep ==
  ASSUME IInv, InParse, ConsumeData
  PROVE  IInv'
<1>1. /\ state = "CONSUME_DATA" /\ Consume(totalFrameLen)
      /\ state' = "IDLE" /\ ret' = "1"
      /\ UNCHANGED <<frameStart, headerVars, currentTask>>
  BY DEF ConsumeData, Return
<1>2. /\ totalFrameLen \in Nat /\ consumed \in Nat /\ consumed' \in Nat
      /\ totalFrameLen <= dataLen
      /\ BufferInv' /\ Window' /\ consumed' \in 0..Len(accepted')
      /\ consumed' = consumed + totalFrameLen /\ consumed <= consumed'
  <2>1. totalFrameLen \in Nat /\ totalFrameLen <= dataLen
    BY <1>1, IInvFacts, UInt16Nat DEF IInv, Control, FrameSeen
  <2>2. /\ BufferInv' /\ Window' /\ consumed' \in 0..Len(accepted')
        /\ consumed' = consumed + totalFrameLen /\ consumed <= consumed'
    BY <1>1, <2>1, IInvFacts, ConsumeWindow DEF InParse
  <2>3. consumed' \in Nat
    BY <2>1, <2>2, IInvFacts
  <2>4. QED
    BY <2>1, <2>2, <2>3, IInvFacts
<1>3. TypeOK' /\ IndicesAgree' /\ Window'
  BY <1>1, <1>2, ParseKeeps, IInvFacts DEF headerVars, ParseState, ReturnValue
<1>4. Control' /\ HeaderFieldsCurrent' /\ Checked'
  BY <1>1, IdleKeeps
<1>5. /\ loop' = "push" /\ loop = "parse" /\ tasks' = tasks
      /\ accepted' = accepted
      /\ totalFrameLen' = totalFrameLen /\ contentLen' = contentLen
      /\ consumed' - totalFrameLen' = consumed
  BY <1>1, <1>2, AfterReturnValues DEF InParse, ReturnValue, headerVars
<1>6. TaskIsFrame(NewTask)'
  <2>1. NewTask' = [cmdIndex |-> cmdIndex, contentLen |-> contentLen,
                    start |-> consumed, len |-> totalFrameLen]
    BY <1>1, <1>5 DEF NewTask, IInv, Checked
  <2>2. TaskIsFrame([cmdIndex |-> cmdIndex, contentLen |-> contentLen,
                     start |-> consumed, len |-> totalFrameLen])
    BY <1>1, FrameAtHead DEF TaskIsFrame, IsFrameOf
  <2>3. \A t : TaskIsFrame(t) => TaskIsFrame(t)'
    BY <1>5 DEF TaskIsFrame
  <2>4. QED
    BY <1>5, <2>1, <2>2
    DEF TaskIsFrame
<1>7. Delivered'
  <2>1. /\ \A i \in DOMAIN tasks : tasks[i].start + tasks[i].len <= consumed
        /\ TasksAreFrames
    BY <1>5 DEF IInv, Delivered, NextStart
  <2>2. TasksAreFrames'
    BY <1>5, <2>1 DEF TasksAreFrames, TaskIsFrame
  <2>3. totalFrameLen' <= consumed'
    BY <1>2, <1>5
  <2>4. QED
    BY <1>5, <1>6, <2>1, <2>2, <2>3 DEF Delivered, NextStart
<1>8. QED
  BY <1>3, <1>4, <1>7 DEF IInv
-----------------------------------------------------------------------------
LEMMA PushStep ==
  ASSUME IInv, Push
  PROVE  IInv'
<1>1. /\ loop = "push" /\ loop' = "receive"
      /\ tasks' = Append(tasks, NewTask)
      /\ UNCHANGED <<bufferVars, parserVars, wire, history>>
  BY DEF Push
<1>2. state = "IDLE" /\ ret # "running"
  BY <1>1 DEF IInv, Control
<1>3. /\ totalFrameLen \in Nat /\ consumed \in Nat
      /\ totalFrameLen <= consumed /\ TaskIsFrame(NewTask)
      /\ NextStart = consumed - totalFrameLen
  BY <1>1, IInvFacts, UInt16Nat DEF IInv, Delivered, NextStart
<1>4. /\ NewTask.start = consumed - totalFrameLen
      /\ NewTask.len = totalFrameLen
      /\ NewTask \in [cmdIndex : UInt16, contentLen : UInt16, start : Nat,
                      len : UInt16]
  BY <1>3, IInvFacts DEF NewTask
<1>5. /\ tasks' \in Seq([cmdIndex : UInt16, contentLen : UInt16, start : Nat,
                         len : UInt16])
      /\ Len(tasks) \in Nat
      /\ DOMAIN tasks = 1..Len(tasks) /\ DOMAIN tasks' = 1..(Len(tasks) + 1)
      /\ \A i \in 1..Len(tasks) : tasks'[i] = tasks[i]
      /\ tasks'[Len(tasks) + 1] = NewTask
  <2>1. tasks \in Seq([cmdIndex : UInt16, contentLen : UInt16, start : Nat,
                       len : UInt16])
    BY DEF IInv, TypeOK
  <2>2. QED
    BY <1>1, <1>4, <2>1, AppendProperties, LenProperties
<1>6. TypeOK'
  BY <1>1, <1>5
  DEF IInv, TypeOK, TypeOKParser, TypeOKBuffer, bufferVars, parserVars, history
<1>7. /\ IndicesAgree' /\ Window' /\ HeaderFieldsCurrent' /\ Checked'
  BY <1>1 DEF IInv, IndicesAgree, Window, HeaderFieldsCurrent, HeaderRead,
              Checked, ReceivedCrc, CrcData, JsonText, ByteAt, bufferVars,
              parserVars, history
<1>8. Control'
  BY <1>1, <1>2 DEF Control, FrameSeen, parserVars
<1>9. TasksAreFrames'
  <2>1. accepted' = accepted
    BY <1>1 DEF history
  <2>2. ASSUME NEW i \in 1..(Len(tasks) + 1)
        PROVE  TaskIsFrame(tasks'[i])
    <3>1. CASE i \in 1..Len(tasks)
      BY <1>5, <3>1 DEF IInv, Delivered, TasksAreFrames
    <3>2. CASE i = Len(tasks) + 1
      BY <1>3, <1>5, <3>2
    <3>3. QED
      BY <1>5, <3>1, <3>2
  <2>3. ASSUME NEW i \in 1..(Len(tasks) + 1), NEW j \in 1..(Len(tasks) + 1),
               i < j
        PROVE  tasks'[i].start + tasks'[i].len <= tasks'[j].start
    <3>1. i \in 1..Len(tasks) /\ tasks'[i] = tasks[i]
      BY <1>5, <2>3
    <3>2. CASE j \in 1..Len(tasks)
      BY <1>5, <2>3, <3>1, <3>2 DEF IInv, Delivered, TasksAreFrames
    <3>3. CASE j = Len(tasks) + 1
      BY <1>3, <1>4, <1>5, <3>1, <3>3 DEF IInv, Delivered
    <3>4. QED
      BY <1>5, <3>2, <3>3
  <2>4. ASSUME NEW i \in 1..(Len(tasks) + 1)
        PROVE  TaskIsFrame(tasks[i])'
    <3>1. TaskIsFrame(tasks'[i])
      BY <2>2
    <3>2. QED
      BY <2>1, <3>1 DEF TaskIsFrame
  <2>5. QED
    BY <1>5, <2>3, <2>4 DEF TasksAreFrames
<1>10. \A i \in DOMAIN tasks' : tasks'[i].start + tasks'[i].len <= NextStart'
  <2>1. NextStart' = consumed
    BY <1>1 DEF NextStart, history
  <2>2. ASSUME NEW i \in 1..Len(tasks)
        PROVE  tasks[i].start + tasks[i].len <= consumed
    <3>1. tasks[i].start \in Nat /\ tasks[i].len \in Nat
      BY <1>5, TaskFields DEF IInv
    <3>2. tasks[i].start + tasks[i].len <= consumed - totalFrameLen
      BY <1>3, <1>5 DEF IInv, Delivered
    <3>3. QED
      BY <1>3, <3>1, <3>2
  <2>3. NewTask.start + NewTask.len <= consumed
    BY <1>3, <1>4
  <2>4. QED
    BY <1>5, <2>1, <2>2, <2>3
<1>11. QED
  BY <1>1, <1>6, <1>7, <1>8, <1>9, <1>10 DEF IInv, Delivered

\* The tasks pushed stay frames of the stream when it grows.
LEMMA TasksStay ==
  ASSUME IInv, NEW block \in Seq(Byte), accepted' = accepted \o block,
         tasks' = tasks
  PROVE  TasksAreFrames'
<1>1. ASSUME NEW i \in DOMAIN tasks
      PROVE  TaskIsFrame(tasks[i])'
  <2>1. tasks[i].start \in Int /\ accepted \in Seq(Byte)
    BY TaskFields, IInvFacts DEF IInv
  <2>2. TaskIsFrame(tasks[i])
    BY DEF IInv, Delivered, TasksAreFrames
  <2>3. IsFrameOf(tasks[i], accepted \o block)
    <3>1. CASE ~(tasks[i].contentLen < 65528)
      BY <3>1 DEF IsFrameOf
    <3>2. CASE tasks[i].contentLen < 65528
      <4>1. /\ FrameAt(accepted, tasks[i].start)
            /\ tasks[i].len = FrameLen(accepted, tasks[i].start)
            /\ tasks[i].cmdIndex = 256 * accepted[tasks[i].start + 3]
                                     + accepted[tasks[i].start + 4]
        BY <2>2, <3>2 DEF TaskIsFrame, IsFrameOf
      <4>2. /\ FrameAt(accepted \o block, tasks[i].start)
            /\ FrameLen(accepted \o block, tasks[i].start)
                 = FrameLen(accepted, tasks[i].start)
            /\ (accepted \o block)[tasks[i].start + 3]
                 = accepted[tasks[i].start + 3]
            /\ (accepted \o block)[tasks[i].start + 4]
                 = accepted[tasks[i].start + 4]
        BY <2>1, <4>1, FrameAtExtends, Zenon
      <4>3. QED
        BY <4>1, <4>2 DEF IsFrameOf
    <3>3. QED
      BY <3>1, <3>2
  <2>4. QED
    BY <2>3 DEF TaskIsFrame
<1>2. QED
  BY <1>1 DEF IInv, Delivered, TasksAreFrames

\* A block written to the buffer extends the window.
LEMMA WriteWindow ==
  ASSUME BufferInv, Window, accepted \in Seq(Byte), consumed \in Nat,
         NEW block \in Seq(Byte), Write(block), accepted' = accepted \o block,
         consumed' = consumed
  PROVE  /\ BufferInv' /\ Window' /\ dataLen <= dataLen'
         /\ \A i \in 0..dataLen-1 : ByteAt(i)' = ByteAt(i)
<1>1. /\ BufferInv' /\ dataLen' = dataLen + Len(block)
      /\ \A i \in 0..dataLen-1 : ByteAt(i)' = ByteAt(i)
      /\ \A i \in dataLen..dataLen'-1 : ByteAt(i)' = block[i - dataLen + 1]
  BY WriteAppends
<1>2. /\ dataLen \in Nat /\ Len(block) \in Nat /\ Len(accepted) \in Nat
      /\ Len(accepted) = consumed + dataLen
      /\ Len(accepted') = Len(accepted) + Len(block)
      /\ \A i \in 1..Len(accepted) : accepted'[i] = accepted[i]
      /\ \A i \in 1..Len(block) : accepted'[Len(accepted) + i] = block[i]
  <2>1. dataLen \in Nat
    BY SizeNat DEF BufferInv, TypeOKBuffer
  <2>2. Len(accepted) = consumed + dataLen
    BY DEF Window
  <2>3. /\ Len(block) \in Nat /\ Len(accepted) \in Nat
        /\ Len(accepted') = Len(accepted) + Len(block)
        /\ \A i \in 1..Len(accepted) : accepted'[i] = accepted[i]
        /\ \A i \in 1..Len(block) : accepted'[Len(accepted) + i] = block[i]
    BY ConcatProperties, LenProperties
  <2>4. QED
    BY <2>1, <2>2, <2>3
<1>3. ASSUME NEW i \in 0..dataLen'-1
      PROVE  ByteAt(i)' = accepted'[consumed + i + 1]
  <2>1. CASE i < dataLen
    <3>1. i \in 0..dataLen-1 /\ consumed + i + 1 \in 1..Len(accepted)
      BY <1>1, <1>2, <2>1
    <3>2. QED
      BY <1>1, <1>2, <3>1 DEF Window
  <2>2. CASE i >= dataLen
    <3>1. /\ i \in dataLen..dataLen'-1 /\ i - dataLen + 1 \in 1..Len(block)
          /\ Len(accepted) + (i - dataLen + 1) = consumed + i + 1
      BY <1>1, <1>2, <2>2
    <3>2. QED
      BY <1>1, <1>2, <3>1
  <2>3. i < dataLen \/ i >= dataLen
    BY <1>1, <1>2
  <2>4. QED
    BY <2>1, <2>2, <2>3, Zenon
<1>4. QED
  BY <1>1, <1>2, <1>3 DEF Window

LEMMA ReceiveStep ==
  ASSUME IInv, NEW n \in 0..Len(wire), Receive(n)
  PROVE  IInv'
<1> DEFINE block == SubSeq(wire, 1, n)
<1>1. block \in Seq(Byte) /\ SubSeq(wire, n + 1, Len(wire)) \in Seq(Byte)
  BY SubSeqProperties, LenProperties DEF IInv, TypeOK
<1>2. /\ loop = "receive" /\ loop' = "parse" /\ ret' = "running"
      /\ wire' \in Seq(Byte) /\ refused' \in BOOLEAN
      /\ UNCHANGED <<state, frameStart, headerVars, currentTask, tasks, sent,
                     consumed>>
      /\ Fits(block) => Write(block) /\ accepted' = accepted \o block
      /\ ~Fits(block) => UNCHANGED <<bufferVars, accepted>>
  BY <1>1 DEF Receive, IInv, TypeOK
<1> HIDE DEF block
<1>3. state \in {"IDLE", "CHECK_FRAME_COMPLETE"}
  BY <1>2 DEF IInv, Control
<1>4. /\ BufferInv' /\ Window' /\ dataLen <= dataLen'
      /\ accepted' \in Seq(Byte)
      /\ \A i \in 0..dataLen-1 : ByteAt(i)' = ByteAt(i)
      /\ TasksAreFrames'
  <2>1. CASE Fits(block)
    <3>1. Write(block) /\ accepted' = accepted \o block
      BY <1>2, <2>1
    <3>2. accepted' \in Seq(Byte)
      BY <1>1, <3>1, IInvFacts, ConcatProperties
    <3>3. TasksAreFrames'
      BY <1>1, <1>2, <3>1, TasksStay
    <3>4. /\ BufferInv' /\ Window' /\ dataLen <= dataLen'
          /\ \A i \in 0..dataLen-1 : ByteAt(i)' = ByteAt(i)
      <4>1. consumed' = consumed
        BY <1>2
      <4>2. /\ BufferInv /\ Window /\ accepted \in Seq(Byte)
            /\ consumed \in Nat
        BY IInvFacts
      <4>3. QED
        BY <1>1, <3>1, <4>1, <4>2, WriteWindow
    <3>5. QED
      BY <3>2, <3>3, <3>4
  <2>2. CASE ~Fits(block)
    <3>1. UNCHANGED <<bufferVars, accepted>>
      BY <1>2, <2>2
    <3>2. consumed' = consumed + (dataLen - dataLen')
      BY <1>2, <3>1, IInvFacts DEF bufferVars
    <3>3. BufferInv' /\ Window' /\ \A i : ByteAt(i)' = ByteAt(i)
      BY <3>1, <3>2, IInvFacts, StutterWindow
    <3>4. dataLen <= dataLen'
      BY <3>1, IInvFacts DEF bufferVars
    <3>5. TasksAreFrames'
      BY <1>2, <3>1
      DEF IInv, Delivered, TasksAreFrames, TaskIsFrame
    <3>6. QED
      BY <3>1, <3>3, <3>4, <3>5, IInvFacts
  <2>3. QED
    BY <2>1, <2>2
<1>5. TypeOK'
  <2>1. consumed' \in 0..Len(accepted')
    <3>1. Len(accepted') = consumed' + dataLen' /\ dataLen' \in Nat
      <4>1. Len(accepted') = consumed' + dataLen'
        BY <1>4 DEF Window
      <4>2. dataLen' \in Nat
        BY <1>4, SizeNat DEF BufferInv, TypeOKBuffer
      <4>3. QED
        BY <4>1, <4>2
    <3>2. consumed' \in Nat
      BY <1>2, IInvFacts
    <3>3. \A a, b \in Nat : a \in 0..(a + b)
      BY SMT
    <3>4. QED
      BY <3>1, <3>2, <3>3
  <2>2. TypeOKParser'
    BY <1>2, <1>4 DEF IInv, TypeOK, TypeOKParser, BufferInv, headerVars
  <2>3. QED
    BY <1>2, <1>4, <2>1, <2>2 DEF IInv, TypeOK
<1>6. Control' /\ Checked'
  BY <1>2, <1>3 DEF Control, Checked, FrameSeen
<1>7. HeaderFieldsCurrent'
  <2>1. CASE state = "IDLE"
    BY <1>2, <2>1 DEF HeaderFieldsCurrent, HeaderRead
  <2>2. CASE state = "CHECK_FRAME_COMPLETE"
    <3>1. HeaderRead
      BY <2>2 DEF HeaderRead, ParseState
    <3>2. dataLen >= 8 /\ dataLen \in Nat /\ dataLen' \in Nat
      <4>1. dataLen >= MIN_FRAME_LEN
        BY <3>1 DEF IInv, HeaderFieldsCurrent
      <4>2. dataLen' \in Nat
        BY <1>4, SizeNat DEF BufferInv, TypeOKBuffer
      <4>3. QED
        BY <4>1, <4>2, IInvFacts DEF MIN_FRAME_LEN
    <3>3. /\ ByteAt(0)' = ByteAt(0) /\ ByteAt(1)' = ByteAt(1)
          /\ ByteAt(2)' = ByteAt(2) /\ ByteAt(3)' = ByteAt(3)
          /\ ByteAt(4)' = ByteAt(4) /\ ByteAt(5)' = ByteAt(5)
      BY <1>4, <3>2
    <3>4. dataLen' >= 8
      BY <1>4, <3>2
    <3>5. UNCHANGED headerVars
      BY <1>2
    <3>6. QED
      BY <3>1, <3>3, <3>4, <3>5
      DEF IInv, HeaderFieldsCurrent, headerVars, MIN_FRAME_LEN
  <2>3. QED
    BY <1>3, <2>1, <2>2
<1>8. Delivered'
  BY <1>2, <1>4 DEF IInv, Delivered, NextStart
<1>9. QED
  BY <1>4, <1>5, <1>6, <1>7, <1>8 DEF IInv, BufferInv

LEMMA StutterStep ==
  ASSUME IInv, UNCHANGED vars
  PROVE  IInv'
<1>1. UNCHANGED <<bufferVars, parserVars, wire, loop, tasks, history>>
  BY DEF vars
<1>2. TypeOK' /\ IndicesAgree' /\ Window'
  BY <1>1 DEF IInv, TypeOK, TypeOKParser, TypeOKBuffer, IndicesAgree, Window,
              ByteAt, bufferVars, parserVars, history
<1>3. Control' /\ HeaderFieldsCurrent' /\ Checked'
  BY <1>1 DEF IInv, Control, HeaderFieldsCurrent, HeaderRead, Checked,
              ReceivedCrc, CrcData, JsonText, ByteAt, bufferVars, parserVars,
              history
<1>4. Delivered'
  BY <1>1 DEF IInv, Delivered, NextStart, NewTask, TasksAreFrames, TaskIsFrame,
              FrameAt, FrameLen, FrameText, bufferVars, parserVars, history
<1>5. QED
  BY <1>2, <1>3, <1>4 DEF IInv

LEMMA ParseCases ==
  ASSUME IInv, Parse
  PROVE  IInv'
<1>1. InParse
  BY DEF Parse, ParseStep, InParse
<1>2. CASE Idle BY <1>1, <1>2, IdleStep
<1>3. CASE FindHeader BY <1>1, <1>3, FindHeaderStep
<1>4. CASE ParseHeader BY <1>1, <1>4, ParseHeaderStep
<1>5. CASE CheckFrameComplete BY <1>1, <1>5, CheckFrameCompleteStep
<1>6. CASE VerifyCrc BY <1>1, <1>6, VerifyCrcStep
<1>7. CASE CheckDuplicate BY <1>1, <1>7, CheckDuplicateStep
<1>8. CASE ParseJson BY <1>1, <1>8, ParseJsonStep
<1>9. CASE BuildTask BY <1>1, <1>9, BuildTaskStep
<1>10. CASE ConsumeData BY <1>1, <1>10, ConsumeDataStep
<1>11. QED
  BY <1>2, <1>3, <1>4, <1>5, <1>6, <1>7, <1>8, <1>9, <1>10 DEF Parse, ParseStep
-----------------------------------------------------------------------------
LEMMA InitIInv == Init => IInv
<1> SUFFICES ASSUME Init PROVE IInv
  OBVIOUS
<1>1. /\ TypeOKBuffer /\ IndicesAgree
  BY InitBufferInv DEF Init, InitParser, BufferInv
<1>2. /\ sent \in Seq(Byte) /\ wire \in Seq(Byte) /\ accepted = <<>>
      /\ consumed = 0 /\ tasks = <<>> /\ loop = "receive" /\ refused = FALSE
      /\ state = "IDLE" /\ ret = "-1" /\ dataLen = 0
      /\ frameStart = 0 /\ cmdIndex = 0 /\ contentLen = 0
      /\ totalFrameLen = 0 /\ currentTask = 0
  BY StreamAssumption DEF Init, InitParser, InitBuffer
<1>3. 0 \in UInt16
  BY NatUInt16
<1>4. TypeOK
  <2>1. TypeOKParser
    BY <1>1, <1>2, <1>3 DEF TypeOKParser, ParseState
  <2>2. /\ accepted \in Seq(Byte) /\ Len(accepted) = 0
        /\ tasks \in Seq([cmdIndex : UInt16, contentLen : UInt16,
                          start : Nat, len : UInt16])
    BY <1>2, EmptySeq
  <2>3. consumed \in 0..Len(accepted)
    BY <1>2, <2>2
  <2>4. QED
    BY <1>2, <2>1, <2>2, <2>3 DEF TypeOK
<1>5. Window
  BY <1>2, EmptySeq DEF Window
<1>6. Control /\ HeaderFieldsCurrent /\ Checked
  BY <1>2 DEF Control, HeaderFieldsCurrent, HeaderRead, Checked, FrameSeen
<1>7. Delivered
  <2>1. DOMAIN tasks = {}
    BY <1>2, EmptySeq
  <2>2. QED
    BY <1>2, <2>1 DEF Delivered, TasksAreFrames
<1>8. QED
  BY <1>1, <1>4, <1>5, <1>6, <1>7 DEF IInv

LEMMA NextIInv == IInv /\ [Next]_vars => IInv'
<1> SUFFICES ASSUME IInv, [Next]_vars PROVE IInv'
  OBVIOUS
<1>1. CASE \E n \in 0..Len(wire) : Receive(n)
  BY <1>1, ReceiveStep
<1>2. CASE Parse
  BY <1>2, ParseCases
<1>3. CASE Push
  BY <1>3, PushStep
<1>4. CASE Terminated \/ UNCHANGED vars
  BY <1>4, StutterStep DEF Terminated
<1>5. QED
  BY <1>1, <1>2, <1>3, <1>4 DEF Next

(***************************************************************************)
(* The invariant holds, and with it the properties the runs check.         *)
(***************************************************************************)
THEOREM ReceiverInductive == Spec => []IInv
<1>1. Init => IInv
  BY InitIInv
<1>2. IInv /\ [Next]_vars => IInv'
  BY NextIInv
<1>3. QED
  BY <1>1, <1>2, PTL DEF Spec

\* Every variable keeps its type: the 16-bit fields of the parser stay so.
THEOREM ReceiverTypeCorrect == Spec => []TypeOK
<1>1. IInv => TypeOK
  BY DEF IInv
<1>2. QED
  BY <1>1, ReceiverInductive, PTL

\* The two indices and the length of the ring buffer never disagree.
THEOREM IndicesAlwaysAgree == Spec => []IndicesAgree
<1>1. IInv => IndicesAgree
  BY DEF IInv
<1>2. QED
  BY <1>1, ReceiverInductive, PTL

\* A resumed call works with the header fields of the frame at the head.
THEOREM HeaderFieldsStayCurrent == Spec => []HeaderFieldsCurrent
<1>1. IInv => HeaderFieldsCurrent
  BY DEF IInv
<1>2. QED
  BY <1>1, ReceiverInductive, PTL

\* Every task is one well-formed frame received, in order and disjoint.
THEOREM EveryTaskIsAFrame == Spec => []TasksAreFrames
<1>1. IInv => TasksAreFrames
  BY DEF IInv, Delivered
<1>2. QED
  BY <1>1, ReceiverInductive, PTL
-----------------------------------------------------------------------------
LEMMA FunctionIsSeq ==
  ASSUME NEW S, NEW n \in Nat, NEW c \in [1..n -> S]
  PROVE  c \in Seq(S) /\ Len(c) = n
  OBVIOUS

\* The bytes the ring holds, read as a sequence.
ContentHolds ==
  /\ Content \in Seq(Byte) /\ Len(Content) = dataLen
  /\ dataLen \in Nat /\ dataLen <= BufferSize
  /\ \A i \in 1..dataLen : Content[i] = ByteAt(i - 1)

LEMMA ContentIsSeq == TypeOKBuffer => ContentHolds
<1> SUFFICES ASSUME TypeOKBuffer PROVE ContentHolds
  OBVIOUS
<1>1. dataLen \in Nat /\ dataLen <= BufferSize
  BY SizeNat DEF TypeOKBuffer
<1>2. ASSUME NEW i \in 1..dataLen PROVE ByteAt(i - 1) \in Byte
  <2>1. i - 1 \in Nat
    BY <1>1
  <2>2. QED
    BY <2>1, ByteAtIsByte
<1>3. Content \in [1..dataLen -> Byte]
  BY <1>2 DEF Content
<1>4. QED
  BY <1>1, <1>3, FunctionIsSeq DEF Content, ContentHolds

LEMMA NextContentIsSeq == TypeOKBuffer' => ContentHolds'
  BY ContentIsSeq, PTL

LEMMA WriteIsAppend ==
  ASSUME BufferInv, NEW data \in Seq(Byte), Write(data)
  PROVE  Fifo!Append_
<1>1. /\ BufferInv' /\ dataLen' = dataLen + Len(data)
      /\ \A i \in 0..dataLen-1 : ByteAt(i)' = ByteAt(i)
  BY WriteAppends
<1>2. /\ Content \in Seq(Byte) /\ Len(Content) = dataLen /\ dataLen \in Nat
      /\ \A i \in 1..dataLen : Content[i] = ByteAt(i - 1)
  BY ContentIsSeq DEF BufferInv, ContentHolds
<1>3. /\ Content' \in Seq(Byte) /\ Len(Content') = dataLen'
      /\ dataLen' \in Nat /\ dataLen' <= BufferSize
      /\ \A i \in 1..dataLen' : Content'[i] = ByteAt(i - 1)'
  BY <1>1, NextContentIsSeq DEF BufferInv, ContentHolds
<1>4. Len(data) \in Nat \ {0}
  BY EmptySeq, LenProperties DEF Write, Fits
<1>5. SubSeq(Content', 1, dataLen) = Content
  <2>1. /\ SubSeq(Content', 1, dataLen) \in Seq(Byte)
        /\ Len(SubSeq(Content', 1, dataLen)) = dataLen
        /\ \A i \in 1..dataLen :
              SubSeq(Content', 1, dataLen)[i] = Content'[i]
    BY <1>1, <1>2, <1>3, <1>4, ElementOfSeq, SubSeqProperties
  <2>2. ASSUME NEW i \in 1..dataLen PROVE Content'[i] = Content[i]
    <3>1. i - 1 \in 0..dataLen-1 /\ i \in 1..dataLen'
      BY <1>1, <1>2, <1>4
    <3>2. QED
      BY <1>1, <1>2, <1>3, <3>1
  <2>3. QED
    BY <1>2, <2>1, <2>2, SeqEqual
<1>6. QED
  BY <1>1, <1>2, <1>3, <1>4, <1>5 DEF Fifo!Append_

LEMMA ConsumeIsRemove ==
  ASSUME BufferInv, NEW n \in Nat, Consume(n)
  PROVE  Fifo!Remove \/ UNCHANGED Content
<1>1. /\ BufferInv'
      /\ dataLen' = IF n >= dataLen THEN 0 ELSE dataLen - n
      /\ \A i \in 0..dataLen'-1 : ByteAt(i)' = ByteAt(n + i)
  BY ConsumeShifts
<1>2. /\ Content \in Seq(Byte) /\ Len(Content) = dataLen /\ dataLen \in Nat
      /\ \A i \in 1..dataLen : Content[i] = ByteAt(i - 1)
  BY ContentIsSeq DEF BufferInv, ContentHolds
<1>3. /\ Content' \in Seq(Byte) /\ Len(Content') = dataLen'
      /\ dataLen' \in Nat
      /\ \A i \in 1..dataLen' : Content'[i] = ByteAt(i - 1)'
  BY <1>1, NextContentIsSeq DEF BufferInv, ContentHolds
<1>4. PICK k \in 0..dataLen :
        /\ dataLen' = dataLen - k
        /\ k = n \/ dataLen' = 0
  <2>1. CASE n >= dataLen
    BY <1>1, <1>2, <2>1
  <2>2. CASE ~(n >= dataLen)
    BY <1>1, <1>2, <2>2
  <2>3. QED
    BY <2>1, <2>2
<1>5. ASSUME NEW i \in 1..dataLen' PROVE Content'[i] = Content[k + i]
  <2>1. k = n /\ i - 1 \in 0..dataLen'-1 /\ k + i \in 1..dataLen
    BY <1>2, <1>3, <1>4
  <2>2. /\ Content'[i] = ByteAt(i - 1)' /\ ByteAt(i - 1)' = ByteAt(n + (i - 1))
        /\ Content[k + i] = ByteAt((k + i) - 1)
    BY <1>1, <1>2, <1>3, <2>1
  <2>3. n + (i - 1) = (k + i) - 1
    BY <2>1
  <2>4. QED
    BY <2>2, <2>3
<1>6. Content' = SubSeq(Content, k + 1, dataLen)
  <2>1. /\ SubSeq(Content, k + 1, dataLen) \in Seq(Byte)
        /\ Len(SubSeq(Content, k + 1, dataLen)) = dataLen'
        /\ \A i \in 1..dataLen' :
              SubSeq(Content, k + 1, dataLen)[i] = Content[k + i]
    <3>1. /\ k + 1 \in Int /\ dataLen \in Int
          /\ \A i \in (k + 1)..dataLen : Content[i] \in Byte
      BY <1>2, <1>4, ElementOfSeq
    <3>2. /\ SubSeq(Content, k + 1, dataLen) \in Seq(Byte)
          /\ Len(SubSeq(Content, k + 1, dataLen))
                = IF k + 1 <= dataLen THEN dataLen - (k + 1) + 1 ELSE 0
          /\ \A i \in 1..(dataLen - (k + 1) + 1) :
               SubSeq(Content, k + 1, dataLen)[i] = Content[(k + 1) + i - 1]
      BY <3>1, SubSeqProperties
    <3>3. /\ dataLen - (k + 1) + 1 = dataLen'
          /\ \A i \in 1..dataLen' : (k + 1) + i - 1 = k + i
      BY <1>2, <1>3, <1>4
    <3>4. (IF k + 1 <= dataLen THEN dataLen - (k + 1) + 1 ELSE 0) = dataLen'
      BY <1>2, <1>3, <1>4
    <3>5. QED
      BY <3>2, <3>3, <3>4
  <2>2. QED
    BY <1>3, <1>5, <2>1, SeqEqual
<1>7. CASE k = 0
  <2>1. SubSeq(Content, 1, dataLen) = Content
    BY <1>2, SubSeqFull
  <2>2. QED
    BY <1>6, <1>7, <2>1
<1>8. CASE k > 0
  BY <1>2, <1>4, <1>6, <1>8 DEF Fifo!Remove
<1>9. QED
  BY <1>4, <1>7, <1>8

(***************************************************************************)
(* The ring buffer, as the receive loop uses it, is a FIFO of bytes.       *)
(***************************************************************************)
THEOREM BufferIsFifo == Spec => ImplementsFifo
<1>1. Init => Fifo!Init
  <2>1. ASSUME dataLen = 0 PROVE Content = <<>>
    BY <2>1 DEF Content
  <2>2. QED
    BY <2>1 DEF Init, InitParser, InitBuffer, Fifo!Init
<1>2. ASSUME IInv, [Next]_vars
      PROVE  [Fifo!Next]_Content
  <2>1. CASE \E n \in 0..Len(wire) : Receive(n)
    <3>1. PICK n \in 0..Len(wire) : Receive(n)
      BY <2>1
    <3>2. SubSeq(wire, 1, n) \in Seq(Byte)
      BY <1>2, SubSeqProperties, LenProperties DEF IInv, TypeOK
    <3>3. CASE Fits(SubSeq(wire, 1, n))
      <4>1. Write(SubSeq(wire, 1, n))
        BY <3>1, <3>3 DEF Receive
      <4>2. QED
        <5>1. BufferInv
          BY <1>2, IInvFacts
        <5>2. Fifo!Append_
          BY <3>2, <4>1, <5>1, WriteIsAppend
        <5>3. QED
          BY <5>2 DEF Fifo!Next
    <3>4. CASE ~Fits(SubSeq(wire, 1, n))
      BY <3>1, <3>4 DEF Receive, Content, ByteAt, bufferVars
    <3>5. QED
      BY <3>3, <3>4
  <2>2. CASE Parse
    <3>1. \/ UNCHANGED bufferVars
          \/ \E n \in {2, dataLen, totalFrameLen} : Consume(n)
          \/ \E n \in HeaderStarts : Consume(n)
      BY <2>2
      DEF Parse, ParseStep, Idle, FindHeader, ParseHeader, CheckFrameComplete,
          VerifyCrc, CheckDuplicate, ParseJson, BuildTask, ConsumeData
    <3>2. ASSUME UNCHANGED bufferVars PROVE UNCHANGED Content
      BY <3>2 DEF Content, ByteAt, bufferVars
    <3>3. dataLen \in Nat /\ totalFrameLen \in Nat /\ HeaderStarts \subseteq Nat
      BY <1>2, IInvFacts, UInt16Nat DEF HeaderStarts
    <3>4. ASSUME NEW n \in Nat, Consume(n)
          PROVE  Fifo!Next \/ UNCHANGED Content
      BY <1>2, <3>4, IInvFacts, ConsumeIsRemove DEF Fifo!Next
    <3>5. QED
      BY <3>1, <3>2, <3>3, <3>4
  <2>3. CASE Push \/ Terminated \/ UNCHANGED vars
    BY <2>3 DEF Push, Terminated, vars, Content, ByteAt, bufferVars
  <2>4. QED
    BY <1>2, <2>1, <2>2, <2>3 DEF Next
<1>3. QED
  BY <1>1, <1>2, ReceiverInductive, PTL DEF Spec, ImplementsFifo, Fifo!Spec

\* Lengths of the frame being parsed, and tasks that are frames of the stream.
THEOREM FramesAreAsReceived == Spec => []FramesAsReceived
BY HeaderFieldsStayCurrent, EveryTaskIsAFrame, PTL DEF FramesAsReceived
-----------------------------------------------------------------------------
(***************************************************************************)
(* What the scan for a header and the skipping of one throw away.          *)
(***************************************************************************)
LEMMA ContentBytes ==
  ASSUME IInv
  PROVE  /\ Len(Content) = dataLen /\ dataLen \in Nat
         /\ \A i \in 1..dataLen : Content[i] = ByteAt(i - 1)
<1>1. Len(Content) = dataLen
  BY IInvFacts, ContentIsSeq DEF ContentHolds
<1>2. QED
  BY <1>1, IInvFacts DEF Content

\* A frame in the buffer begins where the scan would stop.
LEMMA FramesStartWithHeaders ==
  ASSUME IInv, NEW k \in FrameStarts(Content)
  PROVE  /\ k \in Nat /\ k + MIN_FRAME_LEN <= dataLen
         /\ ByteAt(k) = HEAD_CMD_H /\ ByteAt(k + 1) = HEAD_CMD_L
<1>1. /\ k \in Nat /\ k + 8 <= dataLen
      /\ Content[k + 1] = HEAD_CMD_H /\ Content[k + 2] = HEAD_CMD_L
  BY ContentBytes DEF FrameStarts, FrameAt, MIN_FRAME_LEN
<1>2. /\ k + 1 \in 1..dataLen /\ (k + 1) - 1 = k
      /\ k + 2 \in 1..dataLen /\ (k + 2) - 1 = k + 1
  BY <1>1, ContentBytes
<1>3. Content[k + 1] = ByteAt((k + 1) - 1) /\ Content[k + 2] = ByteAt((k + 2) - 1)
  BY <1>2, ContentBytes
<1>4. QED
  BY <1>1, <1>2, <1>3 DEF MIN_FRAME_LEN

LEMMA FindHeaderSkips ==
  ASSUME IInv, InParse, FindHeader, NEW k \in FrameStarts(Content)
  PROVE  consumed' <= consumed + k
<1>1. /\ frameStart = 0 /\ dataLen \in Nat /\ consumed \in Nat
      /\ consumed' = consumed + (dataLen - dataLen')
  BY IInvFacts DEF IInv, Control, FindHeader, InParse
<1>2. k \in Nat /\ k + 8 <= dataLen /\ k \in HeaderStarts
  BY <1>1, FramesStartWithHeaders DEF HeaderStarts, MIN_FRAME_LEN
<1>3. PICK h \in HeaderStarts :
        /\ \A j \in HeaderStarts : h <= j
        /\ IF h > 0
           THEN Consume(h) /\ Return("0", "IDLE")
           ELSE Goto("PARSE_HEADER") /\ UNCHANGED bufferVars
  BY <1>2 DEF FindHeader
<1>4. h \in Nat /\ h + 8 <= dataLen /\ h <= k
  BY <1>1, <1>2, <1>3 DEF HeaderStarts, MIN_FRAME_LEN
<1>5. dataLen' = dataLen - h
  <2>1. CASE h > 0
    BY <1>1, <1>3, <1>4, <2>1 DEF Consume
  <2>2. CASE ~(h > 0)
    BY <1>1, <1>3, <1>4, <2>2 DEF bufferVars
  <2>3. QED
    BY <2>1, <2>2
<1>6. QED
  BY <1>1, <1>2, <1>4, <1>5

\* A frame behind a header whose CRC is wrong begins behind that header.
LEMMA NoFrameAtBadCrc ==
  ASSUME IInv, state = "VERIFY_CRC", ReceivedCrc # Crc(CrcData),
         NEW k \in FrameStarts(Content)
  PROVE  k >= 2
<1>1. /\ dataLen \in Nat /\ contentLen \in Nat
      /\ dataLen <= 65535 /\ dataLen >= 8
      /\ ByteAt(1) = HEAD_CMD_L
      /\ contentLen = 256 * ByteAt(4) + ByteAt(5)
  BY IInvFacts, UInt16Nat
  DEF IInv, HeaderFieldsCurrent, HeaderRead, ParseState, MIN_FRAME_LEN
<1>2. k \in Nat /\ ByteAt(k) = HEAD_CMD_H
  BY FramesStartWithHeaders
<1>3. k # 1
  BY <1>1, <1>2 DEF HEAD_CMD_H, HEAD_CMD_L
<1>4. ASSUME k = 0 PROVE FALSE
  <2>1. FrameLen(Content, 0) = contentLen + 8
    <3>1. Content[5] = ByteAt(4) /\ Content[6] = ByteAt(5)
      <4>1. Content[5] = ByteAt(5 - 1) /\ Content[6] = ByteAt(6 - 1)
        BY <1>1, ContentBytes
      <4>2. QED
        BY <4>1
    <3>2. QED
      BY <1>1, <3>1 DEF FrameLen, MIN_FRAME_LEN
  <2>2. FrameAt(Content, 0)
    BY <1>4 DEF FrameStarts
  <2>3. contentLen + 8 <= dataLen
    BY <1>1, <2>1, <2>2, ContentBytes DEF FrameAt
  <2>4. ASSUME NEW n \in Nat, n = contentLen + 8
        PROVE  256 * Content[n - 1] + Content[n]
                 = Crc([i \in 1..(n - 2) |-> Content[i]])
    <3>1. n = FrameLen(Content, 0)
      BY <2>1, <2>4
    <3>2. 256 * Content[0 + (n - 1)] + Content[0 + n]
            = Crc([i \in 1..(n - 2) |-> Content[0 + i]])
      BY <2>2, <3>1 DEF FrameAt
    <3>3. 0 + (n - 1) = n - 1 /\ 0 + n = n
      BY <2>4
    <3>4. [i \in 1..(n - 2) |-> Content[0 + i]] = [i \in 1..(n - 2) |-> Content[i]]
      <4>1. \A i \in 1..(n - 2) : 0 + i = i
        BY <2>4
      <4>2. QED
        BY <4>1, Zenon
    <3>5. QED
      BY <3>2, <3>3, <3>4
  <2>5. PICK n \in Nat : n = contentLen + 8
    BY <1>1
  <2>6. /\ Content[n - 1] = ByteAt(6 + contentLen)
        /\ Content[n] = ByteAt(7 + contentLen)
    <3>1. /\ n - 1 \in 1..dataLen /\ (n - 1) - 1 = 6 + contentLen
          /\ n \in 1..dataLen /\ n - 1 = 7 + contentLen
      BY <1>1, <2>3, <2>5
    <3>2. Content[n - 1] = ByteAt((n - 1) - 1) /\ Content[n] = ByteAt(n - 1)
      BY <3>1, ContentBytes
    <3>3. QED
      BY <3>1, <3>2
  <2>7. [i \in 1..(n - 2) |-> Content[i]] = CrcData
    <3>1. (contentLen + 6) % 65536 = contentLen + 6
      <4>1. \A x \in Nat : x < 65528 => (x + 6) % 65536 = x + 6
        BY NoWrap, SMT
      <4>2. contentLen < 65528
        BY <1>1, <2>3
      <4>3. QED
        BY <1>1, <4>1, <4>2, SMT
    <3>2. n - 2 = contentLen + 6 /\ 1..(n - 2) \subseteq 1..dataLen
      BY <1>1, <2>3, <2>5
    <3>3. \A i \in 1..(n - 2) : Content[i] = ByteAt(i - 1)
      BY <3>2, ContentBytes
    <3>4. QED
      BY <3>1, <3>2, <3>3 DEF CrcData
  <2>8. ReceivedCrc = Crc(CrcData)
    BY <2>4, <2>5, <2>6, <2>7 DEF ReceivedCrc
  <2>9. QED
    BY <2>8
<1>5. QED
  BY <1>2, <1>3, <1>4

LEMMA VerifyCrcSkips ==
  ASSUME IInv, InParse, VerifyCrc, NEW k \in FrameStarts(Content)
  PROVE  consumed' <= consumed + k
<1>1. /\ dataLen \in Nat /\ consumed \in Nat /\ k \in Nat
      /\ k + 8 <= dataLen /\ state = "VERIFY_CRC"
      /\ consumed' = consumed + (dataLen - dataLen')
  BY IInvFacts, FramesStartWithHeaders DEF VerifyCrc, InParse, MIN_FRAME_LEN
<1>2. CASE ReceivedCrc = Crc(CrcData)
  <2>1. dataLen' = dataLen
    BY <1>2 DEF VerifyCrc, bufferVars
  <2>2. QED
    BY <1>1, <2>1
<1>3. CASE ReceivedCrc # Crc(CrcData)
  <2>1. Consume(2)
    BY <1>3 DEF VerifyCrc
  <2>2. dataLen' = dataLen - 2
    BY <1>1, <2>1 DEF Consume
  <2>3. k >= 2
    BY <1>1, <1>3, NoFrameAtBadCrc
  <2>4. QED
    BY <1>1, <2>2, <2>3
<1>4. QED
  BY <1>2, <1>3

LEMMA SkipsNoFrame ==
  ASSUME IInv, [Next]_vars, Skipping, NEW k \in FrameStarts(Content)
  PROVE  consumed' <= consumed + k
<1>1. consumed \in Nat /\ k \in Nat
  BY IInvFacts, FramesStartWithHeaders
<1>2. CASE Parse
  <2>1. InParse
    BY <1>2 DEF Parse, ParseStep, InParse
  <2>2. FindHeader \/ VerifyCrc
    BY <1>2 DEF Skipping, Parse, ParseStep, Idle, ParseHeader, CheckFrameComplete,
                CheckDuplicate, ParseJson, BuildTask, ConsumeData
  <2>3. QED
    BY <2>1, <2>2, FindHeaderSkips, VerifyCrcSkips
<1>3. CASE (\E n \in 0..Len(wire) : Receive(n)) \/ Push \/ Terminated \/ UNCHANGED vars
  <2>1. consumed' = consumed
    BY <1>3 DEF Receive, Push, Terminated, vars, history
  <2>2. QED
    BY <1>1, <2>1
<1>4. QED
  BY <1>2, <1>3 DEF Next

\* No step of the parser throws away a well-formed frame that is in the buffer.
THEOREM CompleteFramesAreKept == Spec => NoCompleteFrameSkipped
<1>1. IInv /\ [Next]_vars
        => (Skipping => \A k \in FrameStarts(Content) : consumed' <= consumed + k)
  BY SkipsNoFrame
<1>2. IInv /\ [Next]_vars
        => [Skipping => \A k \in FrameStarts(Content) : consumed' <= consumed + k]_vars
  BY <1>1
<1>3. QED
  BY <1>2, ReceiverInductive, PTL DEF Spec, NoCompleteFrameSkipped
=============================================================================

---------------------------- MODULE BufferManager ----------------------------
(***************************************************************************)
(* BufferManager.cpp: the ring buffer between the UART and the parser.     *)
(* Every call is made under ProtocolParser::mutex_, so one call is one     *)
(* step.  buffer, readIdx, writeIdx and dataLen are buffer_, readIdx_,     *)
(* writeIdx_ and dataLen_; cells and offsets count from 0 as in the code.  *)
(***************************************************************************)
EXTENDS Integers, Sequences

CONSTANT BufferSize  \* BUFFER_SIZE of Constants.h (4096)

ASSUME BufferSizeAssumption == BufferSize \in 1..65535

VARIABLES buffer, readIdx, writeIdx, dataLen

bufferVars == <<buffer, readIdx, writeIdx, dataLen>>

Byte == 0..255
Cell == 0..BufferSize-1
UINT16_MAX == 65535
UInt16 == 0..UINT16_MAX

InitBuffer ==
  /\ buffer = [c \in Cell |-> 0]
  /\ readIdx = 0 /\ writeIdx = 0 /\ dataLen = 0

\* operator[]: index is a uint16_t parameter; out of range reads as 0.
ByteAt(index) ==
  LET i == index % 65536
  IN  IF i >= dataLen THEN 0 ELSE buffer[(readIdx + i) % BufferSize]

\* The bytes held, in the order operator[] gives them.
Content == [i \in 1..dataLen |-> ByteAt(i - 1)]

FitsOffByOne(data) == data # <<>> /\ Len(data) <= BufferSize - dataLen + 1
Fits(data) == data # <<>> /\ Len(data) <= BufferSize - dataLen

\* How far a cell lies behind the write index, going round the ring.
WriteOffset(c) == (c + BufferSize - writeIdx) % BufferSize

\* The loop of write() fills the cells from writeIdx on with the block.
Write(data) ==
  /\ Fits(data)
  /\ buffer' = [c \in Cell |-> IF WriteOffset(c) < Len(data)
                               THEN data[WriteOffset(c) + 1]
                               ELSE buffer[c]]
  /\ writeIdx' = (writeIdx + Len(data)) % BufferSize
  /\ dataLen' = dataLen + Len(data)
  /\ UNCHANGED readIdx

ClearKeepsWriteIdx ==
  /\ readIdx' = 0 /\ dataLen' = 0
  /\ UNCHANGED <<buffer, writeIdx>>

Clear ==
  /\ readIdx' = 0 /\ writeIdx' = 0 /\ dataLen' = 0
  /\ UNCHANGED buffer

Consume(len) ==
  \/ len >= dataLen /\ Clear
  \/ /\ len < dataLen
     /\ readIdx' = (readIdx + len) % BufferSize
     /\ dataLen' = dataLen - len
     /\ UNCHANGED <<buffer, writeIdx>>

TypeOKBuffer ==
  /\ buffer \in [Cell -> Byte]
  /\ readIdx \in Cell /\ writeIdx \in Cell
  /\ dataLen \in 0..BufferSize

\* The redundancy between the two indices and the length: the write index is
\* always the cell just behind the last byte held.
IndicesAgree == writeIdx = (readIdx + dataLen) % BufferSize

\* The FIFO of bytes this ring buffer stands for.
Fifo == INSTANCE ByteFifo WITH Capacity <- BufferSize, content <- Content
==============================================================================

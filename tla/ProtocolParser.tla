--------------------------- MODULE ProtocolParser ---------------------------
(***************************************************************************)
(* ProtocolParser.cpp: the state machine of parseFrame().  One action per  *)
(* case of its switch; a call runs from ret = "running" to the value it    *)
(* returns, under mutex_, so nothing else touches the parser meanwhile.    *)
(* A frame is 0x3A 0x3B, command index (2), content length (2), content,   *)
(* CRC (2).  The CRC polynomial and the JSON grammar are parameters: the   *)
(* parser only compares the one and branches on the other.                 *)
(***************************************************************************)
EXTENDS BufferManager

CONSTANTS Crc(_),     \* Crc16::Calculator::calculate on a sequence of bytes
          JsonKind(_) \* what JsonHelper::parse and asInt() make of the text:
                      \* "bad" (no JSON), "task" (a subCommand that is a number
                      \* or is missing), or "throws" (JSON that is no object,
                      \* or another subCommand); JsonReader defines it

VARIABLES state,          \* state_
          frameStart,     \* frameStart_
          cmdIndex,       \* cmdIndex_
          contentLen,     \* contentLen_
          totalFrameLen,  \* totalFrameLen_
          currentTask,    \* the command index of currentTask_
          ret             \* what parseFrame() returned, "running" during a call

parserVars ==
  <<state, frameStart, cmdIndex, contentLen, totalFrameLen, currentTask, ret>>

HEAD_CMD_H == 58
HEAD_CMD_L == 59
MIN_FRAME_LEN == 8

\* STATE_ERROR and the default case are unreachable: nothing sets them.
ParseState == {"IDLE", "FIND_HEADER", "PARSE_HEADER", "CHECK_FRAME_COMPLETE",
               "VERIFY_CRC", "CHECK_DUPLICATE", "PARSE_JSON", "BUILD_TASK",
               "CONSUME_DATA"}

InitParser ==
  /\ InitBuffer
  /\ state = "IDLE"
  /\ frameStart = 0 /\ cmdIndex = 0 /\ contentLen = 0 /\ totalFrameLen = 0
  /\ currentTask = 0
  /\ ret = "-1"

\* The switch falls through to the next turn of the loop in another state.
Goto(next) == state' = next /\ UNCHANGED ret
Return(value, next) == state' = next /\ ret' = value

headerVars == <<cmdIndex, contentLen, totalFrameLen>>

Idle ==
  /\ state = "IDLE"
  /\ IF dataLen < MIN_FRAME_LEN
     THEN Return("-1", "IDLE") /\ UNCHANGED frameStart
     ELSE Goto("FIND_HEADER") /\ frameStart' = 0
  /\ UNCHANGED <<bufferVars, headerVars, currentTask>>

\* Where the scan of STATE_FIND_HEADER would stop: it leaves the last seven
\* bytes unexamined, a frame cannot start there yet.
HeaderStarts ==
  {k \in frameStart..(dataLen - MIN_FRAME_LEN) :
     ByteAt(k) = HEAD_CMD_H /\ ByteAt(k + 1) = HEAD_CMD_L}

FindHeader ==
  /\ state = "FIND_HEADER"
  /\ \/ /\ HeaderStarts = {}
        /\ frameStart' = dataLen - MIN_FRAME_LEN + 1
        /\ Consume(dataLen)
        /\ Return("-1", "IDLE")
     \/ \E k \in HeaderStarts :
          /\ \A j \in HeaderStarts : k <= j
          /\ frameStart' = k
          /\ IF k > 0
             THEN Consume(k) /\ Return("0", "IDLE")
             ELSE Goto("PARSE_HEADER") /\ UNCHANGED bufferVars
  /\ UNCHANGED <<headerVars, currentTask>>

ParseHeader ==
  /\ state = "PARSE_HEADER"
  /\ cmdIndex' = 256 * ByteAt(2) + ByteAt(3)
  /\ contentLen' = 256 * ByteAt(4) + ByteAt(5)
  /\ totalFrameLen' = (contentLen' + 8) % 65536
  /\ Goto("CHECK_FRAME_COMPLETE")
  /\ UNCHANGED <<bufferVars, frameStart, currentTask>>

\* An incomplete frame returns and leaves the state: the next call resumes here.
CheckFrameComplete ==
  /\ state = "CHECK_FRAME_COMPLETE"
  /\ IF dataLen < totalFrameLen
     THEN Return("-1", "CHECK_FRAME_COMPLETE")
     ELSE Goto("VERIFY_CRC")
  /\ UNCHANGED <<bufferVars, frameStart, headerVars, currentTask>>

\* calculate() takes the length in 16 bits.
CrcData == [i \in 1..((contentLen + 6) % 65536) |-> ByteAt(i - 1)]
ReceivedCrc == 256 * ByteAt(6 + contentLen) + ByteAt(7 + contentLen)

\* Two ways to get the failing branch wrong: forgetting to go back to
\* STATE_IDLE, and clearing the buffer instead of skipping the header.
VerifyCrcKeepsState ==
  /\ state = "VERIFY_CRC"
  /\ IF ReceivedCrc = Crc(CrcData)
     THEN Goto("CHECK_DUPLICATE") /\ UNCHANGED bufferVars
     ELSE Consume(2) /\ Return("0", "VERIFY_CRC")
  /\ UNCHANGED <<frameStart, headerVars, currentTask>>

VerifyCrcClears ==
  /\ state = "VERIFY_CRC"
  /\ IF ReceivedCrc = Crc(CrcData)
     THEN Goto("CHECK_DUPLICATE") /\ UNCHANGED bufferVars
     ELSE Clear /\ Return("0", "IDLE")
  /\ UNCHANGED <<frameStart, headerVars, currentTask>>

VerifyCrc ==
  /\ state = "VERIFY_CRC"
  /\ IF ReceivedCrc = Crc(CrcData)
     THEN Goto("CHECK_DUPLICATE") /\ UNCHANGED bufferVars
     ELSE Consume(2) /\ Return("0", "IDLE")
  /\ UNCHANGED <<frameStart, headerVars, currentTask>>

\* The comparison with lastCmdIndex_ is commented out: nothing is dropped here.
CheckDuplicate ==
  /\ state = "CHECK_DUPLICATE"
  /\ Goto("PARSE_JSON")
  /\ UNCHANGED <<bufferVars, frameStart, headerVars, currentTask>>

\* The content without its first byte, padded to contentLen_ with a zero.
JsonText ==
  [i \in 1..contentLen |-> IF i < contentLen THEN ByteAt(6 + i) ELSE 0]

ParseJson ==
  /\ state = "PARSE_JSON"
  /\ IF JsonKind(JsonText) = "bad"
     THEN Consume(totalFrameLen) /\ Return("0", "IDLE")
     ELSE Goto("BUILD_TASK") /\ UNCHANGED bufferVars
  /\ UNCHANGED <<frameStart, headerVars, currentTask>>

\* currentTask_.cmdIndex is assigned before asInt() can throw.
BuildTask ==
  /\ state = "BUILD_TASK"
  /\ currentTask' = cmdIndex
  /\ IF JsonKind(JsonText) = "throws"
     THEN Return("exception", "BUILD_TASK")
     ELSE Goto("CONSUME_DATA")
  /\ UNCHANGED <<bufferVars, frameStart, headerVars>>

\* Consuming everything.
ConsumeDataClears ==
  /\ state = "CONSUME_DATA"
  /\ Clear
  /\ Return("1", "IDLE")
  /\ UNCHANGED <<frameStart, headerVars, currentTask>>

ConsumeData ==
  /\ state = "CONSUME_DATA"
  /\ Consume(totalFrameLen)
  /\ Return("1", "IDLE")
  /\ UNCHANGED <<frameStart, headerVars, currentTask>>

\* One turn of the while (true) of parseFrame().
ParseStep ==
  /\ ret = "running"
  /\ \/ Idle \/ FindHeader \/ ParseHeader \/ CheckFrameComplete \/ VerifyCrc
     \/ CheckDuplicate \/ ParseJson \/ BuildTask \/ ConsumeData

TypeOKParser ==
  /\ TypeOKBuffer
  /\ state \in ParseState
  /\ frameStart \in UInt16 /\ cmdIndex \in UInt16 /\ contentLen \in UInt16
  /\ totalFrameLen \in UInt16 /\ currentTask \in UInt16
  /\ ret \in {"running", "-1", "0", "1", "exception"}

\* The states in which the header fields have been read from the buffer.
HeaderRead == state \in ParseState \ {"IDLE", "FIND_HEADER", "PARSE_HEADER"}
=============================================================================

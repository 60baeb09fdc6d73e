---------------------------- MODULE FrameReceiver ----------------------------
(***************************************************************************)
(* The receive loop of main.cpp over ProtocolParser: read what the UART    *)
(* has, buffer it, call parseFrame() once, push the task it built.         *)
(* wire is what the host has sent and the loop has not read.  The history  *)
(* variables accepted and consumed name every byte by its place in the     *)
(* stream of bytes that entered the buffer, so that a task can be traced   *)
(* to the bytes it came from.                                              *)
(***************************************************************************)
EXTENDS ProtocolParser

CONSTANTS Stream,   \* the byte sequences the host may send
          MaxRead   \* sizeof(buffer) in main() (1024): one read gets no more

ASSUME StreamAssumption == Stream \subseteq Seq(Byte)
ASSUME MaxReadAssumption == MaxRead \in 1..65535

VARIABLES wire,      \* bytes sent and not yet read
          loop,      \* where the main thread is
          tasks,     \* the tasks pushed, each with the bytes it came from
          sent,      \* history: the whole stream chosen
          accepted,  \* history: all bytes that ever entered the buffer
          consumed,  \* history: how many of them have left it
          refused    \* history: whether a block was ever refused

history == <<sent, accepted, consumed, refused>>
vars == <<bufferVars, parserVars, wire, loop, tasks, history>>

Init ==
  /\ InitParser
  /\ sent \in Stream /\ wire = sent
  /\ loop = "receive"
  /\ tasks = <<>>
  /\ accepted = <<>> /\ consumed = 0 /\ refused = FALSE

\* receiveData() is non-blocking: n = 0 stands for its -1 (EAGAIN).  A block
\* that does not fit is dropped whole: writeBuffer() only logs it.
Receive(n) ==
  /\ loop = "receive"
  /\ n <= MaxRead /\ n <= Len(wire)
  /\ LET block == SubSeq(wire, 1, n)
     IN  IF Fits(block)
         THEN /\ Write(block)
              /\ accepted' = accepted \o block
              /\ UNCHANGED refused
         ELSE /\ refused' = (refused \/ n > 0)
              /\ UNCHANGED <<bufferVars, accepted>>
  /\ wire' = SubSeq(wire, n + 1, Len(wire))
  /\ ret' = "running" /\ loop' = "parse"
  /\ UNCHANGED <<state, frameStart, headerVars, currentTask, tasks, sent, consumed>>

\* Where main() goes with what parseFrame() returned; an exception leaves main().
AfterReturn(value) ==
  CASE value = "running" -> "parse"
    [] value = "1" -> "push"
    [] value = "exception" -> "terminated"
    [] OTHER -> "receive"

Parse ==
  /\ loop = "parse"
  /\ ParseStep
  /\ loop' = AfterReturn(ret')
  /\ consumed' = consumed + (dataLen - dataLen')
  /\ UNCHANGED <<wire, tasks, sent, accepted, refused>>

\* getTask() and TaskQueue::push.  The frame was consumed by the call that
\* built the task, so it ends where the buffer now starts.
NewTask == [cmdIndex |-> currentTask, contentLen |-> contentLen,
            start |-> consumed - totalFrameLen, len |-> totalFrameLen]

Push ==
  /\ loop = "push"
  /\ tasks' = Append(tasks, NewTask)
  /\ loop' = "receive"
  /\ UNCHANGED <<bufferVars, parserVars, wire, history>>

\* An exception out of main() ends the process.
Terminated == loop = "terminated" /\ UNCHANGED vars

Next == (\E n \in 0..Len(wire) : Receive(n)) \/ Parse \/ Push \/ Terminated

\* The main thread polls and never blocks.  A byte that was sent arrives after
\* some reads that found nothing: strong fairness, since Receive is enabled
\* once in every turn of the loop only.
Spec == Init /\ [][Next]_vars
             /\ WF_vars(Parse) /\ WF_vars(Push)
             /\ WF_vars(\E n \in 0..Len(wire) : Receive(n))
             /\ SF_vars(\E n \in 1..Len(wire) : Receive(n))
-----------------------------------------------------------------------------
TypeOK ==
  /\ TypeOKParser
  /\ sent \in Seq(Byte) /\ wire \in Seq(Byte) /\ accepted \in Seq(Byte)
  /\ loop \in {"receive", "parse", "push", "terminated"}
  /\ tasks \in Seq([cmdIndex : UInt16, contentLen : UInt16,
                    start : Nat, len : UInt16])
  /\ consumed \in 0..Len(accepted) /\ refused \in BOOLEAN

\* A well-formed frame that carries a task stands at this place of a stream.
FrameLen(s, start) == 256 * s[start + 5] + s[start + 6] + MIN_FRAME_LEN
FrameText(s, start) ==
  LET n == FrameLen(s, start) - MIN_FRAME_LEN
  IN  [i \in 1..n |-> IF i < n THEN s[start + 7 + i] ELSE 0]
FrameAt(s, start) ==
  /\ start >= 0 /\ start + MIN_FRAME_LEN <= Len(s)
  /\ s[start + 1] = HEAD_CMD_H /\ s[start + 2] = HEAD_CMD_L
  /\ start + FrameLen(s, start) <= Len(s)
  /\ LET n == FrameLen(s, start)
     IN  256 * s[start + (n - 1)] + s[start + n]
           = Crc([i \in 1..(n - 2) |-> s[start + i]])
  /\ JsonKind(FrameText(s, start)) \notin {"bad", "throws"}

FrameStarts(s) == {k \in 0..Len(s) : FrameAt(s, k)}
TaskStarts == {tasks[i].start : i \in DOMAIN tasks}

\* The host sent nothing but such frames, one behind the other.
Clean == \A i \in 1..Len(sent) :
           \E k \in FrameStarts(sent) : k < i /\ i <= k + FrameLen(sent, k)

(***************************************************************************)
(* A parser that has left a call with an incomplete frame resumes on the   *)
(* header fields it read then: they are still those of the frame at the    *)
(* head of the buffer, however many blocks arrived in between.             *)
(***************************************************************************)
HeaderFieldsCurrent ==
  HeaderRead =>
    /\ dataLen >= MIN_FRAME_LEN
    /\ ByteAt(0) = HEAD_CMD_H /\ ByteAt(1) = HEAD_CMD_L
    /\ cmdIndex = 256 * ByteAt(2) + ByteAt(3)
    /\ contentLen = 256 * ByteAt(4) + ByteAt(5)
    /\ totalFrameLen = (contentLen + MIN_FRAME_LEN) % 65536

(***************************************************************************)
(* Every task pushed to the handler is one well-formed frame of the bytes  *)
(* received, with that frame's command index, and the tasks come from      *)
(* disjoint frames in the order they were received: no byte is read twice, *)
(* nothing is put together from two frames.  A content length from 65528   *)
(* wraps the 16-bit frame length and is left out: only a chance CRC match  *)
(* could make a task of it.                                                *)
(***************************************************************************)
IsFrameOf(t, s) ==
  t.contentLen < 65528 =>
    /\ FrameAt(s, t.start)
    /\ t.len = FrameLen(s, t.start)
    /\ t.cmdIndex = 256 * s[t.start + 3] + s[t.start + 4]
TaskIsFrame(t) == IsFrameOf(t, accepted)

TasksAreFrames ==
  /\ \A i \in DOMAIN tasks : TaskIsFrame(tasks[i])
  /\ \A i, j \in DOMAIN tasks :
       i < j => tasks[i].start + tasks[i].len <= tasks[j].start

(***************************************************************************)
(* What a task says of its frame is what the frame's own header says: the  *)
(* lengths in the members belong to the frame being parsed, and the tasks  *)
(* are frames of the stream, in its order.                                 *)
(***************************************************************************)
FramesAsReceived == HeaderFieldsCurrent /\ TasksAreFrames

(***************************************************************************)
(* Looking for a header, or skipping one whose CRC is wrong, never throws  *)
(* away a well-formed frame that is completely in the buffer.              *)
(***************************************************************************)
Skipping == state \in {"FIND_HEADER", "VERIFY_CRC"}
NoCompleteFrameSkipped ==
  [][Skipping => \A k \in FrameStarts(Content) : consumed' <= consumed + k]_vars

(***************************************************************************)
(* When the host sends well-formed frames only, every one becomes a task,  *)
(* however the UART cuts the stream into reads, unless a block was refused *)
(* because the buffer was full.                                            *)
(***************************************************************************)
CleanStreamDelivered ==
  Clean => <>[](refused \/ TaskStarts = FrameStarts(sent))

\* The ring buffer, as this loop uses it, is the FIFO of bytes ByteFifo.
ImplementsFifo == Fifo!Spec
=============================================================================

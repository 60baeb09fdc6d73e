------------------------------ MODULE Responder ------------------------------
(***************************************************************************)
(* How answers reach the host: sendResponse() and packData()               *)
(* (ProtocolParser.cpp) and Uart.cpp.  Results take the next index of a    *)
(* counter that all threads share.  The port is opened without blocking    *)
(* and written to once; nobody looks at what write() took.                 *)
(***************************************************************************)
EXTENDS Descriptors

CONSTANTS Width,   \* 2^16, the values of contentLen and totalLen
          Lengths  \* the lengths of the JSON texts of the results

ASSUME ResponderAssumption ==
  /\ Width \in Nat \ 0..8 /\ Lengths \subseteq Nat
  /\ None \notin [index : Nat, length : Nat, content : Nat, bytes : Nat]

VARIABLES reportCmdIndex, \* ProtocolParser::reportCmdIndex_
          crossed         \* history: tests whose sending overlapped another's

responderVars == <<reportCmdIndex, crossed>>

\* packData(): content, its type and a terminating zero; head, index, CRC.
ContentLen(length) == (length + 1) % Width
TotalLen(length) == (ContentLen(length) + 8) % Width
Frame(index, length, taken) ==
  [index |-> index, length |-> length, content |-> ContentLen(length),
   bytes |-> taken]
-----------------------------------------------------------------------------
\* reportCmdIndex_++ of a plain integer: read here ...
Senders(k) == {j \in DOMAIN th \ {k} : th[j].at = "pack"}
SendNumber(k) ==
  /\ At(k, "send") /\ UNCHANGED reportCmdIndex
  /\ crossed' = IF Senders(k) = {} THEN crossed ELSE crossed \cup Senders(k) \cup {k}
  /\ Local(k, [th[k] EXCEPT !.at = "pack", !.n = reportCmdIndex])
\* ... and written here.  A text for which contentLen wraps to 0 is copied
\* with a length of -1.
SendPack(k) ==
  /\ At(k, "pack") /\ UNCHANGED crossed
  /\ reportCmdIndex' = (th[k].n + 1) % Width
  /\ \E length \in Lengths :
       IF ContentLen(length) = 0 THEN alive' = FALSE /\ UNCHANGED <<th, fds>>
       ELSE Local(k, [th[k] EXCEPT !.at = "write", !.try = length]) /\ UNCHANGED alive
\* write(): all of it, or less when the port is full or locked.
SendWrite(k) ==
  /\ At(k, "write") /\ UNCHANGED <<responderVars, alive>>
  /\ \E taken \in {TotalLen(th[k].try) \div 2, TotalLen(th[k].try)} :
       Local(k, [th[k] EXCEPT !.at = "done", !.frame = Frame(th[k].n, th[k].try, taken)])

SendStep(k) == (SendNumber(k) /\ UNCHANGED alive) \/ SendPack(k) \/ SendWrite(k)
=============================================================================

------------------------------ MODULE ByteFifo ------------------------------
(***************************************************************************)
(* What a bounded byte buffer promises to the protocol parser: the bytes   *)
(* it holds are a sequence; a write appends a whole block or changes       *)
(* nothing; consuming removes bytes from the front, never from the middle. *)
(* BufferManager, a ring of cells with two indices, implements this.       *)
(***************************************************************************)
EXTENDS Integers, Sequences

CONSTANTS Byte,     \* what one cell can hold
          Capacity  \* the number of bytes the buffer can hold

VARIABLE content    \* the bytes held, oldest first

Init == content = <<>>

\* A block is accepted whole, behind what is already there.
Append_ ==
  /\ content' \in Seq(Byte)
  /\ Len(content) < Len(content') /\ Len(content') <= Capacity
  /\ SubSeq(content', 1, Len(content)) = content

\* The n oldest bytes go.
Remove == \E n \in 1..Len(content) :
            content' = SubSeq(content, n + 1, Len(content))

Next == Append_ \/ Remove

Spec == Init /\ [][Next]_content
=============================================================================

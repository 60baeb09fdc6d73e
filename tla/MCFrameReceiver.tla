--------------------------- MODULE MCFrameReceiver ---------------------------
(***************************************************************************)
(* Small instances of FrameReceiver. A frame has two content bytes: the    *)
(* leading 0x04 and one byte that stands for a document, which JsonReader  *)
(* reads. The CRC is that of Crc16. The tables of Crc16 are checked here   *)
(* against the definition of the code, JsonReader against a grammar.       *)
(***************************************************************************)
EXTENDS FrameReceiver, SequencesExt, FiniteSets

Code == INSTANCE Crc16
MCCrc(s) == Code!calculate(s)

\* Two bytes lead through every entry of the tables; the nine digits have a known
\* result under each code.
ASSUME CrcIsModbus ==
  /\ \A x \in {0, 4, 255} : \A y \in Code!Octet :
       Code!calculate(<<x, y>>) = Code!Swapped(Code!Modbus(<<x, y>>))
  /\ Code!Modbus(Code!Digits) = 19255 /\ Code!CcittFalse(Code!Digits) = 10673
  /\ Code!calculate(Code!Digits) \notin {10673, Code!Swapped(10673)}

Json == INSTANCE JsonReader WITH StackLimit <- 8
Flat == INSTANCE JsonReader WITH StackLimit <- 2

Lexemes == {"{", "}", "[", "]", ",", ":", "comment", "int", "subCommand", "", "error"}
Documents(lexemes, n) == UNION {[1..m -> lexemes] : m \in 0..n}

\* parse() reads what the grammar accepts and nothing else, at the lengths at
\* which two members, their commas and an object that ends in a comma fit.
ASSUME ReaderAcceptsGrammar ==
  \A doc \in Documents(Lexemes, 4)
            \cup Documents({"{", "}", ",", ":", "comment", "int", ""}, 6) :
    (Json!Parse(doc).end = "ok") = Json!Accepted(doc)

\* Short of the limit on the depth, which is never met by text nested less
\* deeply, parse() throws nothing; beyond it the text need not be wrong.
ASSUME ReaderThrowsInDepth ==
  /\ \A doc \in Documents({"{", "}", "[", "]", ":", "int", "data"}, 5) :
       LET opened == {i \in DOMAIN doc : doc[i] \in {"{", "["}}
       IN  /\ Flat!Parse(doc).end \in {"thrown", Json!Parse(doc).end}
           /\ Cardinality(opened) < 2 => Flat!Parse(doc).end # "thrown"
  /\ Flat!Parse(<<"[", "[", "int", "]", "]">>).end = "thrown"

\* The documents that the byte behind 0x04 stands for.
Document(byte) ==
  LET command(value) == <<"{", "subCommand", ":", value, "}">>
  IN  CASE byte = 1 -> command("int")
        [] byte = 2 -> SubSeq(command("int"), 1, 4)
        [] byte = 3 -> command("data")
        [] OTHER -> <<"null">>

MCJsonKind(text) == Json!Kind(IF Len(text) < 2 THEN <<>> ELSE Document(text[1]))

\* A frame with command index i and content c, its CRC off by err.
FrameOf(i, c, err) ==
  LET head == <<HEAD_CMD_H, HEAD_CMD_L, 0, i, 0, Len(c)>> \o c
      crc == MCCrc(head) + err
  IN  head \o <<crc \div 256, crc % 256>>

Good(i)   == FrameOf(i, <<4, 1>>, 0)
\* A frame whose content looks like the start of another frame.
Nested(i) == FrameOf(i, <<HEAD_CMD_H, HEAD_CMD_L>>, 0)
BadCrc(i) == FrameOf(i, <<4, 1>>, 1)
BadJson   == FrameOf(9, <<4, 2>>, 0)
NoContent == FrameOf(9, <<>>, 0)
Throwing  == FrameOf(9, <<4, 3>>, 0)
\* Lengths that wrap the 16-bit frame length, and that the buffer cannot hold.
Wrapping  == <<HEAD_CMD_H, HEAD_CMD_L, 0, 9, 255, 255>>
TooLong   == <<HEAD_CMD_H, HEAD_CMD_L, 0, 9, 0, 60>>

CleanStreams == { Good(1) \o Good(2) \o Nested(3), Good(1) \o Good(1) }

RoughStreams == { <<0, HEAD_CMD_H>> \o Good(1) \o BadCrc(2) \o Good(3),
                  Good(1) \o BadJson \o NoContent \o Good(2),
                  Good(1) \o Throwing \o Good(2),
                  Wrapping \o Good(1) \o Good(2),
                  Good(1) \o TooLong \o Good(2) }

MCStreams == CleanStreams \cup RoughStreams
=============================================================================

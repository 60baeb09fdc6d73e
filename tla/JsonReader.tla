----------------------------- MODULE JsonReader -----------------------------
(***************************************************************************)
(* What TestApp makes of the text in a frame: Json::Reader, as JsonHelper  *)
(* uses it with all its features, and the accesses of STATE_BUILD_TASK to  *)
(* the value.  A document is a sequence of lexemes.  One lexeme stands for *)
(* all spellings that the reader treats alike: a number is "int" (in the   *)
(* range of int), "large" (beyond it) or "nan" (no number for the stream   *)
(* it is read from), a string is its text or "escape" (an escape sequence  *)
(* in it is wrong), "error" is what is no lexeme, such as a string without *)
(* an end.  Behind the text, and for a zero byte in it, there is "end".    *)
(***************************************************************************)
EXTENDS Integers, Sequences

CONSTANT StackLimit \* stackLimit_g (1000)

Literal == {"true", "false", "null"}
Number == {"int", "large", "nan"}
String == {"subCommand", "data", "", "escape"}
Lexeme == {"{", "}", "[", "]", ",", ":", "comment", "error", "end"}
            \cup Literal \cup Number \cup String
Wrong == {"nan", "escape"}

ReadToken(doc, p) == IF p \in DOMAIN doc THEN doc[p] ELSE "end"

\* readTokenSkippingComments(): the first place from p on without a comment.
Skip(doc, p) ==
  CHOOSE q \in p .. Len(doc) + p :
    /\ ReadToken(doc, q) # "comment"
    /\ \A i \in p .. q - 1 : ReadToken(doc, i) = "comment"

\* What a call returns: how it ended, where it stopped, the type of the value
\* and, of an object, the type of its member "subCommand".
Value(type, sub, p) == [end |-> "ok", next |-> p, type |-> type, sub |-> sub]
Failed(p) == [end |-> "failed", next |-> p, type |-> "null", sub |-> "null"]
Thrown == [end |-> "thrown", next |-> 0, type |-> "null", sub |-> "null"]

\* What is left of the container, or of the text, is skipped.
RecoverFromError(doc, p, until) ==
  Failed(1 + CHOOSE q \in p .. Len(doc) + p :
               /\ ReadToken(doc, q) \in {until, "end"}
               /\ \A i \in p .. q - 1 : ReadToken(doc, i) \notin {until, "end"})

TypeOf(lexeme) == IF lexeme \in String THEN "string"
                  ELSE IF lexeme \in {"true", "false"} THEN "boolean" ELSE lexeme

RECURSIVE ReadValue(_, _, _), ReadObject(_, _, _, _, _), ReadArray(_, _, _)

\* depth is the size of nodes_.
ReadValue(doc, p, depth) ==
  LET q == Skip(doc, p)
      token == ReadToken(doc, q)
  IN  CASE depth > StackLimit -> Thrown
        [] depth <= StackLimit /\ token = "{" -> ReadObject(doc, q + 1, depth, "", "null")
        [] depth <= StackLimit /\ token = "[" ->
             IF ReadToken(doc, q + 1) = "]" THEN Value("array", "null", q + 2)
             ELSE ReadArray(doc, q + 1, depth)
        [] depth <= StackLimit /\ token \in (Literal \cup Number \cup String) \ Wrong ->
             Value(TypeOf(token), "null", q + 1)
        [] OTHER -> Failed(q + 1)

\* One turn of the loop of readObject(); name is that of the member before.
ReadObject(doc, p, depth, name, sub) ==
  LET q == Skip(doc, p)
      token == ReadToken(doc, q)
      value == ReadValue(doc, q + 2, depth + 1)
      s == Skip(doc, value.next)
      comma == ReadToken(doc, s)
      subNow == IF token = "subCommand" THEN value.type ELSE sub
  IN  IF token = "}" /\ name = "" THEN Value("object", sub, q + 1)
      ELSE IF token \notin String \ Wrong THEN RecoverFromError(doc, q + 1, "}")
      ELSE IF ReadToken(doc, q + 1) # ":" THEN RecoverFromError(doc, q + 2, "}")
      ELSE CASE value.end = "thrown" -> Thrown
             [] value.end = "failed" -> RecoverFromError(doc, value.next, "}")
             [] value.end = "ok" /\ comma = "}" -> Value("object", subNow, s + 1)
             [] value.end = "ok" /\ comma = "," -> ReadObject(doc, s + 1, depth, token, subNow)
             [] OTHER -> RecoverFromError(doc, s + 1, "}")

\* One turn of the loop of readArray().
ReadArray(doc, p, depth) ==
  LET value == ReadValue(doc, p, depth + 1)
      s == Skip(doc, value.next)
      comma == ReadToken(doc, s)
  IN  CASE value.end = "thrown" -> Thrown
        [] value.end = "failed" -> RecoverFromError(doc, value.next, "]")
        [] value.end = "ok" /\ comma = "]" -> Value("array", "null", s + 1)
        [] value.end = "ok" /\ comma = "," -> ReadArray(doc, s + 1, depth)
        [] OTHER -> RecoverFromError(doc, s + 1, "]")

\* parse(): what follows the value is not looked at.
Parse(doc) == ReadValue(doc, 1, 1)

\* jsonRoot_["subCommand"].asInt(): a null becomes an object, what is missing is null.
Member(root) == IF root.type \in {"null", "object"} THEN root.sub ELSE "throws"
AsInt(type) == type \in {"int", "null", "boolean"}

Kind(doc) ==
  LET root == Parse(doc)
  IN  CASE root.end = "failed" -> "bad"
        [] root.end = "ok" /\ AsInt(Member(root)) -> "task"
        [] OTHER -> "throws"
-----------------------------------------------------------------------------
(***************************************************************************)
(* The documents the reader accepts, by a grammar over stretches of the    *)
(* document: the JSON of RFC 8259 with comments before a value, a name, a  *)
(* comma or the end of a container, but not before a colon or in an array  *)
(* without elements; an object may end in a comma if its last name is      *)
(* empty.                                                                  *)
(***************************************************************************)
Comments(doc, i, j) == \A m \in i .. j : doc[m] = "comment"

RECURSIVE IsValue(_, _, _), AreElements(_, _, _), AreMembers(_, _, _)
IsValue(doc, i, j) ==
  \E m \in i .. j :
    /\ Comments(doc, i, m - 1)
    /\ \/ m = j /\ doc[m] \in (Literal \cup Number \cup String) \ Wrong
       \/ /\ doc[m] = "[" /\ doc[j] = "]"
          /\ j = m + 1 \/ AreElements(doc, m + 1, j - 1)
       \/ /\ doc[m] = "{" /\ doc[j] = "}"
          /\ Comments(doc, m + 1, j - 1) \/ AreMembers(doc, m + 1, j - 1)

\* A value from i on and comments behind it, up to j.
Element(doc, i, j) == \E m \in i .. j : IsValue(doc, i, m) /\ Comments(doc, m + 1, j)
AreElements(doc, i, j) ==
  \/ Element(doc, i, j)
  \/ \E c \in i .. j : doc[c] = "," /\ Element(doc, i, c - 1) /\ AreElements(doc, c + 1, j)

\* A name at n, behind comments, and its value.
Named(doc, i, n, j) ==
  /\ Comments(doc, i, n - 1) /\ doc[n] \in String \ Wrong
  /\ n < j /\ doc[n + 1] = ":" /\ Element(doc, n + 2, j)
AreMembers(doc, i, j) ==
  \E n \in i .. j :
    \/ Named(doc, i, n, j)
    \/ \E c \in n .. j :
         /\ doc[c] = "," /\ Named(doc, i, n, c - 1)
         /\ \/ AreMembers(doc, c + 1, j)
            \/ doc[n] = "" /\ Comments(doc, c + 1, j)

\* A value is read to its end, whatever follows it.
Accepted(doc) == \E n \in DOMAIN doc : IsValue(doc, 1, n)
=============================================================================

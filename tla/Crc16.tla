------------------------------- MODULE Crc16 -------------------------------
(***************************************************************************)
(* Crc16::Calculator.  Its two tables hold the low and the high bytes of   *)
(* the remainders of CRC-16/MODBUS (polynomial 0x8005, bits reflected),    *)
(* and the low byte of the result comes first, while the comments of       *)
(* Crc16.h name CRC-16/CCITT-FALSE (polynomial 0x1021).                    *)
(***************************************************************************)
EXTENDS Integers, Sequences, SequencesExt

Octet == 0..255

\* Exclusive or of two bytes, as a table, and of one bit.
ExclusiveOr ==
  LET bit(x, y, k) == 2^k * ((x \div 2^k + y \div 2^k) % 2)
  IN  [x \in Octet |-> [y \in Octet |->
        bit(x, y, 0) + bit(x, y, 1) + bit(x, y, 2) + bit(x, y, 3)
          + bit(x, y, 4) + bit(x, y, 5) + bit(x, y, 6) + bit(x, y, 7)]]
Flip(x, k) == IF (x \div 2^k) % 2 = 1 THEN x - 2^k ELSE x + 2^k

\* What is left of a register when eight bits have been shifted out: 0xA001 is
\* the polynomial, bits 15, 13 and 0.
Remainder(r) ==
  LET shift[x \in 0..65535] ==
        IF x % 2 = 1 THEN Flip(Flip(Flip(x \div 2, 15), 13), 0) ELSE x \div 2
  IN  shift[shift[shift[shift[shift[shift[shift[shift[r]]]]]]]]

auchCRCHi == [i \in Octet |-> Remainder(i) % 256]
auchCRCLo == [i \in Octet |-> Remainder(i) \div 256]

\* The loop over the buffer: a look-up for each byte.
calculate(buffer) ==
  LET feed[crc \in Octet \X Octet, byte \in Octet] ==
        LET crcIndex == ExclusiveOr[crc[1]][byte]
        IN  <<ExclusiveOr[crc[2]][auchCRCHi[crcIndex]], auchCRCLo[crcIndex]>>
      bytes == FoldLeft(LAMBDA crc, byte : feed[crc, byte], <<255, 255>>, buffer)
  IN  IF buffer = <<>> THEN 0 ELSE 256 * bytes[1] + bytes[2]
-----------------------------------------------------------------------------
(***************************************************************************)
(* The two codes by their definitions, a bit at a time.                    *)
(***************************************************************************)
Modbus(buffer) ==
  FoldLeft(LAMBDA r, byte : Remainder(256 * (r \div 256) + ExclusiveOr[r % 256][byte]),
           65535, buffer)
Swapped(r) == 256 * (r % 256) + r \div 256

\* 0x1021: bits 12, 5 and 0.
Remainder1021(r) ==
  LET shift[x \in 0..65535] ==
        LET twice == (2 * x) % 65536
        IN  IF x >= 32768 THEN Flip(Flip(Flip(twice, 12), 5), 0) ELSE twice
  IN  shift[shift[shift[shift[shift[shift[shift[shift[r]]]]]]]]
CcittFalse(buffer) ==
  FoldLeft(LAMBDA r, byte :
             Remainder1021(256 * ExclusiveOr[r \div 256][byte] + (r % 256)),
           65535, buffer)

Digits == <<49, 50, 51, 52, 53, 54, 55, 56, 57>> \* "123456789"
=============================================================================

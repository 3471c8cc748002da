-------------------------------- MODULE MCCrc --------------------------------
(***************************************************************************)
(* The instance of Crc for TLC: the polynomial 0x1021 and the initial      *)
(* remainder 0xFFFF of crc.h, and a packet of 9 bytes before chksum and,   *)
(* as in the code, 12 behind, undamaged and with bursts of up to 16 bits   *)
(* at every place.                                                         *)
(***************************************************************************)
EXTENDS Crc

Bits(n, places) == [i \in places |-> (n \div 2 ^ i) % 2]

MCPolynomial == Bits(4129, 0 .. 15)
MCInitialRemainder == Bits(65535, 0 .. 15)

\* The digits 1 to 9 in ASCII, chksum not yet set, and the last three fields.
Digits == [i \in 1 .. 9 |-> Bits(48 + i, 0 .. 7)]
MCPacket == [i \in 1 .. 25 |-> IF i <= 9 THEN Digits[i] ELSE Bits(7 * i, 0 .. 7)]

\* Bursts: which bits are flipped, counted from the first that is.  The last one
\* across the front of chksum goes unnoticed: x^144 leaves the remainder 0x10E2.
Bursts ==
  {{0, i} : i \in {0, 1, 4, 7, 8, 14, 15}} \cup {0 .. i : i \in {2, 7, 15}} \cup
    {{0, 4, 11}, {0, 4, 11, 15}, {0, 5, 12}, {0, 1, 2, 3, 7, 12}}

FlipsOf(burst, place) ==
  [i \in 1 .. 25 |->
     [b \in 0 .. 7 |-> IF 8 * (i - 1) + 7 - b - place \in burst THEN 1 ELSE 0]]

MCDeliveries ==
  {[packet |-> MCPacket, flips |-> FlipsOf(burst, place)] :
     burst \in Bursts, place \in 0 .. 8 * 25}

(* crc.h gives CHECK_VALUE 0x29B1, the CRC of the nine digits. *)
CheckValue == SubSeq(message, 1, 9) = Digits /\ byte = 9 => fast = Bits(10673, 0 .. 15)
===============================================================================

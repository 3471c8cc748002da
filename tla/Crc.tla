--------------------------------- MODULE Crc ---------------------------------
(***************************************************************************)
(* crc.c with the parameters CRC_CCITT of crc.h: the bitwise crcSlow, the  *)
(* table that crcInit fills and crcFast, which uses it; and the check that *)
(* tcpd builds on them.  The sender computes crcFast of a packet whose     *)
(* field chksum is zero and puts the result there (tcpd.c, sendPacket);    *)
(* the receiver takes it out, puts zero there, computes crcFast of what    *)
(* arrived and compares the two (main --s).  The network may damage the    *)
(* field like any other byte.                                              *)
(*                                                                         *)
(* A word or a byte is the function from places to bits, place 0 being the *)
(* least significant.  The machine runs three loops over the bytes side by *)
(* side: crcSlow and crcFast over the packet that was sent, crcFast over   *)
(* what arrived of it.                                                     *)
(***************************************************************************)
EXTENDS Integers, Sequences

CONSTANTS
  POLYNOMIAL,
  INITIAL_REMAINDER,
  ChksumAt,           \* how many bytes of a packet are before chksum (1024)
  Deliveries          \* the packets sent, each with the bits the network flipped

WIDTH == 16
Word == [0 .. WIDTH - 1 -> {0, 1}]
Byte == [0 .. 7 -> {0, 1}]

\* The places of chksum, an int.
Field == ChksumAt + 1 .. ChksumAt + 4

ASSUME PolynomialAssumption == POLYNOMIAL \in Word /\ POLYNOMIAL[0] = 1
ASSUME InitialAssumption == INITIAL_REMAINDER \in Word
ASSUME ChksumAssumption == ChksumAt \in Nat
ASSUME DeliveriesAssumption ==
  \A d \in Deliveries : /\ d.packet \in Seq(Byte) /\ d.flips \in Seq(Byte)
                        /\ Len(d.packet) = Len(d.flips)
                        /\ ChksumAt + 4 <= Len(d.packet)

VARIABLES
  message,     \* the packet that was sent, chksum being zero
  flips,       \* the bits that were flipped on the way, chksum included
  arrived,     \* the packet that arrived, chksum put to zero
  byte,        \* how many bytes the loops have been through
  slow,        \* remainder in crcSlow(message)
  fast,        \* remainder in crcFast(message)
  heard        \* remainder in crcFast(arrived)

vars == <<message, flips, arrived, byte, slow, fast, heard>>

(***************************************************************************)
(* The operations on words.                                                *)
(***************************************************************************)
XorBit(x, y) == IF x = y THEN 0 ELSE 1

Xor(a, b) == [i \in 0 .. WIDTH - 1 |-> XorBit(a[i], b[i])]

\* Mutant of ShiftLeft: the bit shifted out is kept, as in an int.
ShiftLeftWide(a) == [i \in 0 .. WIDTH |-> IF i = 0 THEN 0 ELSE a[i - 1]]

ShiftLeft(a) == [i \in 0 .. WIDTH - 1 |-> IF i = 0 THEN 0 ELSE a[i - 1]]

\* remainder << 8, and a byte << WIDTH - 8
ShiftByte(a) == [i \in 0 .. WIDTH - 1 |-> IF i < 8 THEN 0 ELSE a[i - 8]]

\* message[byte] ^ (remainder >> (WIDTH - 8))
XorHigh(b, a) == [i \in 0 .. 7 |-> XorBit(b[i], a[i + 8])]

(***************************************************************************)
(* One turn of the loops over the bits, and the eight turns of a byte.     *)
(***************************************************************************)
DivideBit(r) == IF r[WIDTH - 1] = 1 THEN Xor(ShiftLeft(r), POLYNOMIAL) ELSE ShiftLeft(r)

DivideTwo(r) == DivideBit(DivideBit(r))
DivideFour(r) == DivideTwo(DivideTwo(r))

\* Mutant of DivideByte: the loop over the bits ends one bit early.
DivideSeven(r) == DivideFour(DivideTwo(DivideBit(r)))

DivideByte(r) == DivideFour(DivideFour(r))

\* One turn of crcSlow's loop over the bytes.
SlowByte(r, data) == DivideByte(Xor(r, ShiftByte(data)))

\* crcInit
crcTable == [dividend \in Byte |-> DivideByte(ShiftByte(dividend))]

\* Mutant of FastByte: the byte of the remainder that indexes the table is not
\* shifted out.
FastByteUnshifted(r, data) == Xor(crcTable[XorHigh(data, r)], r)

\* One turn of crcFast's loop.
FastByte(r, data) == Xor(crcTable[XorHigh(data, r)], ShiftByte(r))

(***************************************************************************)
(* The packet on its way, and the check.                                   *)
(***************************************************************************)
ByteXor(b, c) == [i \in 0 .. 7 |-> XorBit(b[i], c[i])]

ZeroByte == [i \in 0 .. 7 |-> 0]

\* packet.chksum = 0
ChksumZero(m) == [i \in 1 .. Len(m) |-> IF i \in Field THEN ZeroByte ELSE m[i]]

Flipped(m, f) == [i \in 1 .. Len(m) |-> ByteXor(m[i], f[i])]

\* The bytes j \in 0 .. 3 of an int that holds a remainder, lowest byte first.
ChksumByte(r, j) == [i \in 0 .. 7 |-> IF j < 2 THEN r[8 * j + i] ELSE 0]

\* recv_chksum, the int that was sent in the field as it arrived.
RecvChksumByte(j) == ByteXor(ChksumByte(fast, j), flips[ChksumAt + 1 + j])

\* chksum = recv_chksum, once the loops have ended
Accepted == \A j \in 0 .. 3 : ChksumByte(heard, j) = RecvChksumByte(j)

-------------------------------------------------------------------------------
Init ==
  /\ \E d \in Deliveries : /\ message = ChksumZero(d.packet)
                            /\ flips = d.flips
                            /\ arrived = ChksumZero(Flipped(d.packet, d.flips))
  /\ byte = 0
  /\ slow = INITIAL_REMAINDER
  /\ fast = INITIAL_REMAINDER
  /\ heard = INITIAL_REMAINDER

\* Mutant of NextByte: the first byte is left out.
NextByteSkipsFirst ==
  /\ byte < Len(message)
  /\ byte' = byte + 1
  /\ slow' = IF byte = 0 THEN slow ELSE SlowByte(slow, message[byte'])
  /\ fast' = IF byte = 0 THEN fast ELSE FastByte(fast, message[byte'])
  /\ heard' = IF byte = 0 THEN heard ELSE FastByte(heard, arrived[byte'])
  /\ UNCHANGED <<message, flips, arrived>>

NextByte ==
  /\ byte < Len(message)
  /\ byte' = byte + 1
  /\ slow' = SlowByte(slow, message[byte'])
  /\ fast' = FastByte(fast, message[byte'])
  /\ heard' = FastByte(heard, arrived[byte'])
  /\ UNCHANGED <<message, flips, arrived>>

Spec == Init /\ [][NextByte]_vars

-------------------------------------------------------------------------------
TypeOK ==
  /\ message \in Seq(Byte) /\ arrived \in Seq(Byte) /\ flips \in Seq(Byte)
  /\ Len(arrived) = Len(message) /\ Len(flips) = Len(message)
  /\ ChksumAt + 4 <= Len(message)
  /\ byte \in 0 .. Len(message)
  /\ slow \in Word /\ fast \in Word /\ heard \in Word

(* The table does in one step per byte what the division does in eight: both
   functions return the same number for every packet. *)
SlowIsFast == slow = fast

(* The bits of a packet are numbered in the order in which the division meets
   them. *)
ByteOf(k) == 1 + (k \div 8)

Damage == {k \in 0 .. 8 * Len(message) - 1 : flips[ByteOf(k)][7 - (k % 8)] = 1}

AcrossFront == \E j, k \in Damage : ByteOf(j) <= ChksumAt /\ ByteOf(k) > ChksumAt

(* The check of tcpd --s (tcpd.c:520): if what was damaged of a packet lies
   within 16 consecutive bits, chksum and recv_chksum agree exactly if nothing
   was.  The exception are bursts that begin before the field chksum and end in
   it: what they do to the remainder may be what they do to the field. *)
BurstIsDetected ==
  /\ byte = Len(message)
  /\ \A j, k \in Damage : j - k < WIDTH
  /\ ~AcrossFront
  => (Accepted <=> Damage = {})

-------------------------------------------------------------------------------
(* The inductive invariant.  What matters is the exclusive or of the two
   packets, byte by byte. *)
DamageTo(i) == ByteXor(message[i], arrived[i])

\* Outside the field the packets differ where bits were flipped, and only there.
FieldIsZero ==
  \A i \in 1 .. Len(message) :
    /\ i \in Field => message[i] = ZeroByte /\ arrived[i] = ZeroByte
    /\ i \notin Field => arrived[i] = ByteXor(message[i], flips[i])

\* A burst that starts in byte f after k intact bits.
BurstAt(f, k) ==
  /\ arrived[f] # message[f]
  /\ \A i \in 0 .. 7 : i > 7 - k => DamageTo(f)[i] = 0
  /\ f + 2 <= Len(message) => \A i \in 0 .. 7 : i <= 7 - k => DamageTo(f + 2)[i] = 0
  /\ \A i \in 1 .. Len(message) : i \notin f .. f + 2 => arrived[i] = message[i]

\* The first bytes of damage as one word.
FirstTwo(f) ==
  [i \in 0 .. WIDTH - 1 |-> IF i < 8 THEN DamageTo(f + 1)[i] ELSE DamageTo(f)[i - 8]]

\* The remainders differ by the remainder of the damage alone.
DamageIsHeard ==
  \A f \in 1 .. Len(message), k \in 0 .. 7 :
    BurstAt(f, k) =>
      /\ byte < f => fast = heard
      /\ byte = f => Xor(fast, heard) = DivideByte(ShiftByte(DamageTo(f)))
      /\ byte = f + 1 => Xor(fast, heard) = DivideByte(DivideByte(FirstTwo(f)))
      /\ byte > f + 1 => fast # heard

IntactIsHeard == message = arrived => fast = heard

(* The inductive invariant of the three loops: the two functions agree, and of
   crcFast the remainders differ by the remainder of the damage. *)
IInv == TypeOK /\ SlowIsFast /\ FieldIsZero /\ DamageIsHeard /\ IntactIsHeard
===============================================================================

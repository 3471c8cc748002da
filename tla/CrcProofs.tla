------------------------------ MODULE CrcProofs ------------------------------
(***************************************************************************)
(* Proofs about Crc, for every polynomial whose last bit is set, every     *)
(* initial remainder, every packet and every place of chksum in it: the    *)
(* table gives the same remainder as the division (SlowIsFast), and the    *)
(* check tells a packet whose damage lies within 16 consecutive bits from  *)
(* an intact one, unless that damage begins before chksum and ends in it   *)
(* (BurstIsDetected).                                                      *)
(*                                                                         *)
(* The division is linear over exclusive or and loses no information, so   *)
(* what counts is the remainder of the damage alone.                       *)
(***************************************************************************)
EXTENDS Crc, WellFoundedInduction, TLAPS

Place == 0 .. 15

Zero == [i \in Place |-> 0]

\* A byte as a word: the upper half is zero.
LowWord(b) == [i \in Place |-> IF i < 8 THEN b[i] ELSE 0]

-------------------------------------------------------------------------------
(* Words are equal if their bits are. *)
LEMMA WordsEqual ==
  ASSUME NEW a \in Word, NEW b \in Word, \A i \in Place : a[i] = b[i]
  PROVE  a = b
  BY DEF Word, WIDTH, Place

(* A bit is 0 or 1. *)
LEMMA BitIs ==
  ASSUME NEW a \in Word, NEW i \in Place
  PROVE  a[i] \in {0, 1}
  BY DEF Word, WIDTH, Place

(* A bit of a byte is 0 or 1. *)
LEMMA ByteBitIs ==
  ASSUME NEW b \in Byte, NEW i \in 0 .. 7
  PROVE  b[i] \in {0, 1}
  BY DEF Byte

(* Zero is a word. *)
LEMMA ZeroWord == Zero \in Word /\ \A i \in Place : Zero[i] = 0
  BY DEF Zero, Word, WIDTH, Place

(* Exclusive or of words. *)
LEMMA XorWord ==
  ASSUME NEW a \in Word, NEW b \in Word
  PROVE  /\ Xor(a, b) \in Word
         /\ \A i \in Place : Xor(a, b)[i] = XorBit(a[i], b[i])
  BY DEF Xor, XorBit, Word, WIDTH, Place

(* The shift by one place. *)
LEMMA ShiftWord ==
  ASSUME NEW a \in Word
  PROVE  /\ ShiftLeft(a) \in Word
         /\ ShiftLeft(a)[0] = 0
         /\ \A i \in 1 .. 15 : ShiftLeft(a)[i] = a[i - 1]
  BY DEF ShiftLeft, Word, WIDTH

(* The shift of a word by eight places. *)
LEMMA ShiftByteWord ==
  ASSUME NEW a \in Word
  PROVE  /\ ShiftByte(a) \in Word
         /\ \A i \in 0 .. 7 : ShiftByte(a)[i] = 0
         /\ \A i \in 8 .. 15 : ShiftByte(a)[i] = a[i - 8]
  BY DEF ShiftByte, Word, WIDTH

(* A byte shifted into the upper half. *)
LEMMA ShiftByteByte ==
  ASSUME NEW b \in Byte
  PROVE  /\ ShiftByte(b) \in Word
         /\ \A i \in 0 .. 7 : ShiftByte(b)[i] = 0
         /\ \A i \in 8 .. 15 : ShiftByte(b)[i] = b[i - 8]
  BY DEF ShiftByte, Word, Byte, WIDTH

(* A byte in the lower half. *)
LEMMA LowWordWord ==
  ASSUME NEW b \in Byte
  PROVE  /\ LowWord(b) \in Word
         /\ \A i \in 0 .. 7 : LowWord(b)[i] = b[i]
         /\ \A i \in 8 .. 15 : LowWord(b)[i] = 0
  BY DEF LowWord, Word, Byte, WIDTH, Place

(* The index into the table is a byte. *)
LEMMA XorHighByte ==
  ASSUME NEW b \in Byte, NEW a \in Word
  PROVE  /\ XorHigh(b, a) \in Byte
         /\ \A i \in 0 .. 7 : XorHigh(b, a)[i] = XorBit(b[i], a[i + 8])
  BY DEF XorHigh, XorBit, Word, Byte, WIDTH

(* One turn of the loop over the bits, bit by bit. *)
LEMMA DivideWord ==
  ASSUME NEW a \in Word
  PROVE  /\ DivideBit(a) \in Word
         /\ DivideBit(a)[0] = a[15]
         /\ \A i \in 1 .. 15 :
              DivideBit(a)[i] =
                IF a[15] = 1 THEN XorBit(a[i - 1], POLYNOMIAL[i]) ELSE a[i - 1]
<1>1. POLYNOMIAL \in Word /\ POLYNOMIAL[0] = 1
  BY PolynomialAssumption
<1>2. a[15] \in {0, 1}
  BY BitIs DEF Place
<1>3. CASE a[15] = 1
  <2>1. DivideBit(a) = Xor(ShiftLeft(a), POLYNOMIAL)
    BY <1>3 DEF DivideBit, WIDTH
  <2>2. ShiftLeft(a) \in Word /\ DivideBit(a) \in Word
    BY <1>1, <2>1, ShiftWord, XorWord
  <2>3. \A i \in Place : DivideBit(a)[i] = XorBit(ShiftLeft(a)[i], POLYNOMIAL[i])
    BY <1>1, <2>1, <2>2, XorWord
  <2> QED
    BY <1>1, <1>3, <2>2, <2>3, ShiftWord DEF XorBit, Place
<1>4. CASE a[15] = 0
  <2>1. DivideBit(a) = ShiftLeft(a)
    BY <1>4 DEF DivideBit, WIDTH
  <2> QED
    BY <1>4, <2>1, ShiftWord
<1> QED
  BY <1>2, <1>3, <1>4

-------------------------------------------------------------------------------
(* The remainder of two bit strings combined is the two remainders combined. *)
LEMMA DivideLinear ==
  ASSUME NEW a \in Word, NEW b \in Word
  PROVE  DivideBit(Xor(a, b)) = Xor(DivideBit(a), DivideBit(b))
<1> DEFINE x == Xor(a, b)
<1>1. x \in Word /\ \A i \in Place : x[i] = XorBit(a[i], b[i])
  BY XorWord
<1> HIDE DEF x
<1>2. DivideBit(a) \in Word /\ DivideBit(b) \in Word /\ DivideBit(x) \in Word
  BY <1>1, DivideWord
<1>3. Xor(DivideBit(a), DivideBit(b)) \in Word
  BY <1>2, XorWord
<1>4. ASSUME NEW i \in Place
      PROVE  DivideBit(x)[i] = XorBit(DivideBit(a)[i], DivideBit(b)[i])
  <2>1. a[15] \in {0, 1} /\ b[15] \in {0, 1} /\ x[15] = XorBit(a[15], b[15])
    BY <1>1, BitIs DEF Place
  <2>2. CASE i = 0
    BY <1>1, <2>1, <2>2, DivideWord
  <2>3. CASE i \in 1 .. 15
    <3>1. a[i - 1] \in {0, 1} /\ b[i - 1] \in {0, 1} /\ POLYNOMIAL[i] \in {0, 1}
      BY <2>3, BitIs, PolynomialAssumption DEF Place
    <3>2. x[i - 1] = XorBit(a[i - 1], b[i - 1])
      BY <1>1, <2>3 DEF Place
    <3>3. /\ DivideBit(a)[i] = IF a[15] = 1 THEN XorBit(a[i - 1], POLYNOMIAL[i]) ELSE a[i - 1]
          /\ DivideBit(b)[i] = IF b[15] = 1 THEN XorBit(b[i - 1], POLYNOMIAL[i]) ELSE b[i - 1]
          /\ DivideBit(x)[i] = IF x[15] = 1 THEN XorBit(x[i - 1], POLYNOMIAL[i]) ELSE x[i - 1]
      BY <1>1, <2>3, DivideWord
    <3> QED
      BY <2>1, <3>1, <3>2, <3>3 DEF XorBit
  <2> QED
    BY <2>2, <2>3 DEF Place
<1>5. \A i \in Place : DivideBit(x)[i] = Xor(DivideBit(a), DivideBit(b))[i]
  BY <1>2, <1>4, XorWord
<1> QED
  BY <1>2, <1>3, <1>5, WordsEqual DEF x

(* One turn of the loop loses nothing: only zero becomes zero. *)
LEMMA DivideNotZero ==
  ASSUME NEW a \in Word, a # Zero
  PROVE  DivideBit(a) # Zero
<1>1. PICK i \in Place : a[i] # 0
  BY ZeroWord, WordsEqual
<1>2. CASE a[15] = 1
  BY <1>2, DivideWord, ZeroWord DEF Place
<1>3. CASE a[15] = 0
  <2>1. i + 1 \in 1 .. 15 /\ i + 1 \in Place
    BY <1>1, <1>3 DEF Place
  <2>2. DivideBit(a)[i + 1] = a[i]
    BY <1>3, <2>1, DivideWord DEF Place
  <2> QED
    BY <1>1, <2>1, <2>2, ZeroWord
<1> QED
  BY <1>2, <1>3, BitIs DEF Place

(* The eight turns of a byte are linear, and only zero becomes zero. *)
LEMMA DivideByteLinear ==
  ASSUME NEW a \in Word, NEW b \in Word
  PROVE  /\ DivideByte(a) \in Word
         /\ DivideByte(Xor(a, b)) = Xor(DivideByte(a), DivideByte(b))
         /\ a # Zero => DivideByte(a) # Zero
<1>1. ASSUME NEW x \in Word, NEW y \in Word
      PROVE  /\ DivideTwo(x) \in Word
             /\ DivideTwo(Xor(x, y)) = Xor(DivideTwo(x), DivideTwo(y))
             /\ x # Zero => DivideTwo(x) # Zero
  <2>1. DivideBit(x) \in Word /\ DivideBit(y) \in Word
    BY DivideWord
  <2>2. DivideBit(Xor(x, y)) = Xor(DivideBit(x), DivideBit(y))
    BY DivideLinear
  <2> QED
    BY <2>1, <2>2, DivideWord, DivideLinear, DivideNotZero DEF DivideTwo
<1>2. ASSUME NEW x \in Word, NEW y \in Word
      PROVE  /\ DivideFour(x) \in Word
             /\ DivideFour(Xor(x, y)) = Xor(DivideFour(x), DivideFour(y))
             /\ x # Zero => DivideFour(x) # Zero
  <2>1. DivideTwo(x) \in Word /\ DivideTwo(y) \in Word
    BY <1>1
  <2>2. DivideTwo(Xor(x, y)) = Xor(DivideTwo(x), DivideTwo(y))
    BY <1>1
  <2> QED
    BY <2>1, <2>2, <1>1 DEF DivideFour
<1>3. DivideFour(a) \in Word /\ DivideFour(b) \in Word
  BY <1>2
<1>4. DivideFour(Xor(a, b)) = Xor(DivideFour(a), DivideFour(b))
  BY <1>2
<1> QED
  BY <1>2, <1>3, <1>4 DEF DivideByte

(* The lower half is moved up by the eight turns, as no bit of it is divided. *)
LEMMA DivideLowByte ==
  ASSUME NEW a \in Word, \A i \in 8 .. 15 : a[i] = 0
  PROVE  DivideByte(a) = ShiftByte(a)
<1>1. ASSUME NEW x \in Word, x[15] = 0
      PROVE  /\ DivideBit(x) \in Word
             /\ DivideBit(x)[0] = 0
             /\ \A i \in 1 .. 15 : DivideBit(x)[i] = x[i - 1]
  BY <1>1, DivideWord
<1>2. ASSUME NEW x \in Word, x[15] = 0, x[14] = 0
      PROVE  /\ DivideTwo(x) \in Word
             /\ \A i \in 0 .. 1 : DivideTwo(x)[i] = 0
             /\ \A i \in 2 .. 15 : DivideTwo(x)[i] = x[i - 2]
  <2> DEFINE y == DivideBit(x)
  <2>1. /\ y \in Word /\ y[0] = 0 /\ y[15] = 0
        /\ \A i \in 1 .. 15 : y[i] = x[i - 1]
    BY <1>1, <1>2
  <2> HIDE DEF y
  <2>2. /\ DivideBit(y) \in Word
        /\ DivideBit(y)[0] = 0
        /\ \A i \in 1 .. 15 : DivideBit(y)[i] = y[i - 1]
    BY <1>1, <2>1
  <2>3. DivideTwo(x) = DivideBit(y)
    BY DEF DivideTwo, y
  <2> QED
    BY <2>1, <2>2, <2>3
<1>3. ASSUME NEW x \in Word, \A i \in 12 .. 15 : x[i] = 0
      PROVE  /\ DivideFour(x) \in Word
             /\ \A i \in 0 .. 3 : DivideFour(x)[i] = 0
             /\ \A i \in 4 .. 15 : DivideFour(x)[i] = x[i - 4]
  <2> DEFINE y == DivideTwo(x)
  <2>1. /\ y \in Word /\ y[15] = 0 /\ y[14] = 0
        /\ \A i \in 0 .. 1 : y[i] = 0
        /\ \A i \in 2 .. 15 : y[i] = x[i - 2]
    BY <1>2, <1>3
  <2> HIDE DEF y
  <2>2. /\ DivideTwo(y) \in Word
        /\ \A i \in 0 .. 1 : DivideTwo(y)[i] = 0
        /\ \A i \in 2 .. 15 : DivideTwo(y)[i] = y[i - 2]
    BY <1>2, <2>1
  <2>3. DivideFour(x) = DivideTwo(y)
    BY DEF DivideFour, y
  <2> QED
    BY <2>1, <2>2, <2>3
<1> DEFINE y == DivideFour(a)
<1>4. /\ y \in Word
      /\ \A i \in 0 .. 3 : y[i] = 0
      /\ \A i \in 4 .. 15 : y[i] = a[i - 4]
  BY <1>3
<1>5. \A i \in 12 .. 15 : y[i] = 0
  BY <1>4
<1> HIDE DEF y
<1>6. /\ DivideFour(y) \in Word
      /\ \A i \in 0 .. 3 : DivideFour(y)[i] = 0
      /\ \A i \in 4 .. 15 : DivideFour(y)[i] = y[i - 4]
  BY <1>3, <1>4, <1>5
<1>7. DivideByte(a) = DivideFour(y)
  BY DEF DivideByte, y
<1>8. \A i \in Place : DivideByte(a)[i] = ShiftByte(a)[i]
  BY <1>4, <1>6, <1>7, ShiftByteWord DEF Place
<1> QED
  BY <1>6, <1>7, <1>8, ShiftByteWord, WordsEqual

(* One byte through the table is one byte through the division. *)
LEMMA FastIsSlow ==
  ASSUME NEW r \in Word, NEW data \in Byte
  PROVE  SlowByte(r, data) = FastByte(r, data) /\ FastByte(r, data) \in Word
<1> DEFINE high == XorHigh(data, r)
           low  == [i \in Place |-> IF i < 8 THEN r[i] ELSE 0]
<1>1. high \in Byte /\ \A i \in 0 .. 7 : high[i] = XorBit(data[i], r[i + 8])
  BY XorHighByte
<1>2. /\ low \in Word
      /\ \A i \in 0 .. 7 : low[i] = r[i]
      /\ \A i \in 8 .. 15 : low[i] = 0
  BY DEF Word, WIDTH, Place
<1> HIDE DEF high, low
<1>3. ShiftByte(high) \in Word /\ ShiftByte(data) \in Word
  BY <1>1, ShiftByteByte
<1>4. Xor(r, ShiftByte(data)) \in Word /\ Xor(ShiftByte(high), low) \in Word
  BY <1>2, <1>3, XorWord
<1>5. ASSUME NEW i \in Place
      PROVE  Xor(r, ShiftByte(data))[i] = Xor(ShiftByte(high), low)[i]
  <2>1. /\ Xor(r, ShiftByte(data))[i] = XorBit(r[i], ShiftByte(data)[i])
        /\ Xor(ShiftByte(high), low)[i] = XorBit(ShiftByte(high)[i], low[i])
    BY <1>2, <1>3, XorWord
  <2>2. CASE i \in 0 .. 7
    <3>1. ShiftByte(data)[i] = 0 /\ ShiftByte(high)[i] = 0 /\ low[i] = r[i]
      BY <1>1, <1>2, <2>2, ShiftByteByte
    <3> QED
      BY <2>1, <3>1, BitIs DEF XorBit
  <2>3. CASE i \in 8 .. 15
    <3>1. /\ ShiftByte(data)[i] = data[i - 8] /\ ShiftByte(high)[i] = high[i - 8]
          /\ low[i] = 0 /\ high[i - 8] = XorBit(data[i - 8], r[i])
      BY <1>1, <1>2, <2>3, ShiftByteByte
    <3>2. r[i] \in {0, 1} /\ data[i - 8] \in {0, 1}
      BY <2>3, BitIs, ByteBitIs
    <3> QED
      BY <2>1, <3>1, <3>2 DEF XorBit
  <2> QED
    BY <2>2, <2>3 DEF Place
<1>6. Xor(r, ShiftByte(data)) = Xor(ShiftByte(high), low)
  BY <1>4, <1>5, WordsEqual
<1>7. DivideByte(low) = ShiftByte(low)
  BY <1>2, DivideLowByte
<1>8. ShiftByte(low) = ShiftByte(r)
  <2>1. \A i \in Place : ShiftByte(low)[i] = ShiftByte(r)[i]
    BY <1>2, ShiftByteWord DEF Place
  <2> QED
    BY <1>2, <2>1, ShiftByteWord, WordsEqual
<1>9. crcTable[high] = DivideByte(ShiftByte(high))
  BY <1>1 DEF crcTable
<1>10. SlowByte(r, data) = Xor(DivideByte(ShiftByte(high)), ShiftByte(r))
  BY <1>2, <1>3, <1>6, <1>7, <1>8, DivideByteLinear DEF SlowByte
<1>11. SlowByte(r, data) = FastByte(r, data)
  BY <1>9, <1>10 DEF FastByte, high
<1> QED
  BY <1>4, <1>11, DivideByteLinear DEF SlowByte

-------------------------------------------------------------------------------
(* A word whose j-th turn of the division has only bits from place 0 up to the
   j-th, and none below j - k. *)
Inside(x, j, k) ==
  /\ \A i \in Place : i < j - k => x[i] = 0
  /\ \A i \in Place : i >= j => x[i] = 0

(* Shifted j times without a division, k - j more to come. *)
Shifted(x, j, k) ==
  /\ \A i \in Place : i < j => x[i] = 0
  /\ \A i \in Place : i >= 16 - k + j => x[i] = 0

(* A turn that divides nothing shifts. *)
LEMMA ShiftedOn ==
  ASSUME NEW x \in Word, NEW j \in 0 .. 15, NEW k \in 0 .. 15, j < k,
         Shifted(x, j, k)
  PROVE  Shifted(DivideBit(x), j + 1, k)
<1>1. x[15] = 0
  BY DEF Shifted, Place
<1>2. /\ DivideBit(x)[0] = 0
      /\ \A i \in 1 .. 15 : DivideBit(x)[i] = x[i - 1]
  BY <1>1, DivideWord
<1> QED
  BY <1>2 DEF Shifted, Place

(* A turn whose result ends in 0 has not divided. *)
LEMMA InsideBefore ==
  ASSUME NEW x \in Word, NEW j \in 0 .. 15, NEW k \in 0 .. 15, j >= k,
         Inside(DivideBit(x), j + 1, k)
  PROVE  Inside(x, j, k)
<1>1. DivideBit(x)[0] = 0
  BY DEF Inside, Place
<1>2. x[15] = 0
  BY <1>1, DivideWord
<1>3. \A i \in 1 .. 15 : DivideBit(x)[i] = x[i - 1]
  BY <1>2, DivideWord
<1>4. ASSUME NEW i \in 0 .. 14, i < j - k \/ i >= j
      PROVE  x[i] = 0
  <2>1. i + 1 \in 1 .. 15 /\ i + 1 \in Place /\ (i + 1) - 1 = i
    BY DEF Place
  <2>2. DivideBit(x)[i + 1] = x[i]
    BY <1>3, <2>1
  <2>3. DivideBit(x)[i + 1] = 0
    BY <1>4, <2>1 DEF Inside
  <2> QED
    BY <2>2, <2>3
<1> QED
  BY <1>2, <1>4 DEF Inside, Place

(* Two bytes of damage, of which the first k bits are intact, cannot be undone
   by damage in the first k bits of the third. *)
LEMMA Window ==
  ASSUME NEW u \in Word, u # Zero, NEW k \in 0 .. 7,
         \A i \in Place : i > 15 - k => u[i] = 0,
         NEW e \in Word, \A i \in Place : i < 16 - k => e[i] = 0
  PROVE  DivideByte(DivideByte(u)) # e
<1> SUFFICES ASSUME DivideByte(DivideByte(u)) = e
             PROVE  FALSE
  OBVIOUS
<1> DEFINE x1 == DivideBit(u)
<1> DEFINE x2 == DivideBit(x1)
<1> DEFINE x3 == DivideBit(x2)
<1> DEFINE x4 == DivideBit(x3)
<1> DEFINE x5 == DivideBit(x4)
<1> DEFINE x6 == DivideBit(x5)
<1> DEFINE x7 == DivideBit(x6)
<1> DEFINE x8 == DivideBit(x7)
<1> DEFINE x9 == DivideBit(x8)
<1> DEFINE x10 == DivideBit(x9)
<1> DEFINE x11 == DivideBit(x10)
<1> DEFINE x12 == DivideBit(x11)
<1> DEFINE x13 == DivideBit(x12)
<1> DEFINE x14 == DivideBit(x13)
<1> DEFINE x15 == DivideBit(x14)
<1> DEFINE x16 == DivideBit(x15)
<1>1. DivideByte(DivideByte(u)) = x16
  BY DEF DivideByte, DivideFour, DivideTwo
<1>w1. x1 \in Word /\ x1 # Zero
  BY DivideWord, DivideNotZero
<1>w2. x2 \in Word /\ x2 # Zero
  BY <1>w1, DivideWord, DivideNotZero
<1>w3. x3 \in Word /\ x3 # Zero
  BY <1>w2, DivideWord, DivideNotZero
<1>w4. x4 \in Word /\ x4 # Zero
  BY <1>w3, DivideWord, DivideNotZero
<1>w5. x5 \in Word /\ x5 # Zero
  BY <1>w4, DivideWord, DivideNotZero
<1>w6. x6 \in Word /\ x6 # Zero
  BY <1>w5, DivideWord, DivideNotZero
<1>w7. x7 \in Word /\ x7 # Zero
  BY <1>w6, DivideWord, DivideNotZero
<1>w8. x8 \in Word /\ x8 # Zero
  BY <1>w7, DivideWord, DivideNotZero
<1>w9. x9 \in Word /\ x9 # Zero
  BY <1>w8, DivideWord, DivideNotZero
<1>w10. x10 \in Word /\ x10 # Zero
  BY <1>w9, DivideWord, DivideNotZero
<1>w11. x11 \in Word /\ x11 # Zero
  BY <1>w10, DivideWord, DivideNotZero
<1>w12. x12 \in Word /\ x12 # Zero
  BY <1>w11, DivideWord, DivideNotZero
<1>w13. x13 \in Word /\ x13 # Zero
  BY <1>w12, DivideWord, DivideNotZero
<1>w14. x14 \in Word /\ x14 # Zero
  BY <1>w13, DivideWord, DivideNotZero
<1>w15. x15 \in Word /\ x15 # Zero
  BY <1>w14, DivideWord, DivideNotZero
<1>w16. x16 \in Word /\ x16 # Zero
  BY <1>w15, DivideWord, DivideNotZero
<1>2. Shifted(u, 0, k)
  BY DEF Shifted, Place
<1>s1. 1 <= k => Shifted(x1, 1, k)
  BY <1>2, ShiftedOn
<1>s2. 2 <= k => Shifted(x2, 2, k)
  BY <1>w1, <1>s1, ShiftedOn
<1>s3. 3 <= k => Shifted(x3, 3, k)
  BY <1>w2, <1>s2, ShiftedOn
<1>s4. 4 <= k => Shifted(x4, 4, k)
  BY <1>w3, <1>s3, ShiftedOn
<1>s5. 5 <= k => Shifted(x5, 5, k)
  BY <1>w4, <1>s4, ShiftedOn
<1>s6. 6 <= k => Shifted(x6, 6, k)
  BY <1>w5, <1>s5, ShiftedOn
<1>s7. 7 <= k => Shifted(x7, 7, k)
  BY <1>w6, <1>s6, ShiftedOn
<1>3. Inside(x16, 16, k)
  BY <1>1 DEF Inside, Place
<1> HIDE DEF x1, x2, x3, x4, x5, x6, x7, x8, x9, x10, x11, x12, x13, x14, x15, x16
<1>i15. 15 >= k => Inside(x15, 15, k)
  BY <1>w15, <1>3, InsideBefore DEF x16
<1>i14. 14 >= k => Inside(x14, 14, k)
  BY <1>w14, <1>i15, InsideBefore DEF x15
<1>i13. 13 >= k => Inside(x13, 13, k)
  BY <1>w13, <1>i14, InsideBefore DEF x14
<1>i12. 12 >= k => Inside(x12, 12, k)
  BY <1>w12, <1>i13, InsideBefore DEF x13
<1>i11. 11 >= k => Inside(x11, 11, k)
  BY <1>w11, <1>i12, InsideBefore DEF x12
<1>i10. 10 >= k => Inside(x10, 10, k)
  BY <1>w10, <1>i11, InsideBefore DEF x11
<1>i9. 9 >= k => Inside(x9, 9, k)
  BY <1>w9, <1>i10, InsideBefore DEF x10
<1>i8. 8 >= k => Inside(x8, 8, k)
  BY <1>w8, <1>i9, InsideBefore DEF x9
<1>i7. 7 >= k => Inside(x7, 7, k)
  BY <1>w7, <1>i8, InsideBefore DEF x8
<1>i6. 6 >= k => Inside(x6, 6, k)
  BY <1>w6, <1>i7, InsideBefore DEF x7
<1>i5. 5 >= k => Inside(x5, 5, k)
  BY <1>w5, <1>i6, InsideBefore DEF x6
<1>i4. 4 >= k => Inside(x4, 4, k)
  BY <1>w4, <1>i5, InsideBefore DEF x5
<1>i3. 3 >= k => Inside(x3, 3, k)
  BY <1>w3, <1>i4, InsideBefore DEF x4
<1>i2. 2 >= k => Inside(x2, 2, k)
  BY <1>w2, <1>i3, InsideBefore DEF x3
<1>i1. 1 >= k => Inside(x1, 1, k)
  BY <1>w1, <1>i2, InsideBefore DEF x2
<1>i0. 0 >= k => Inside(u, 0, k)
  BY <1>i1, InsideBefore DEF x1
<1>4. ASSUME NEW x \in Word, Shifted(x, k, k), Inside(x, k, k)
      PROVE  x = Zero
  BY <1>4, ZeroWord, WordsEqual DEF Shifted, Inside, Place
<1>k0. CASE k = 0
  BY <1>k0, <1>2, <1>i0, <1>4
<1>k1. CASE k = 1
  BY <1>k1, <1>w1, <1>s1, <1>i1, <1>4
<1>k2. CASE k = 2
  BY <1>k2, <1>w2, <1>s2, <1>i2, <1>4
<1>k3. CASE k = 3
  BY <1>k3, <1>w3, <1>s3, <1>i3, <1>4
<1>k4. CASE k = 4
  BY <1>k4, <1>w4, <1>s4, <1>i4, <1>4
<1>k5. CASE k = 5
  BY <1>k5, <1>w5, <1>s5, <1>i5, <1>4
<1>k6. CASE k = 6
  BY <1>k6, <1>w6, <1>s6, <1>i6, <1>4
<1>k7. CASE k = 7
  BY <1>k7, <1>w7, <1>s7, <1>i7, <1>4
<1> QED
  BY <1>k0, <1>k1, <1>k2, <1>k3, <1>k4, <1>k5, <1>k6, <1>k7

-------------------------------------------------------------------------------
(* The damage of a byte is a byte. *)
LEMMA ByteXorByte ==
  ASSUME NEW b \in Byte, NEW c \in Byte
  PROVE  /\ ByteXor(b, c) \in Byte
         /\ \A i \in 0 .. 7 : ByteXor(b, c)[i] = XorBit(b[i], c[i])
  BY DEF ByteXor, XorBit, Byte

(* Words are equal if combined they are zero. *)
LEMMA XorZero ==
  ASSUME NEW a \in Word, NEW b \in Word
  PROVE  Xor(a, b) = Zero <=> a = b
<1>1. Xor(a, b) \in Word /\ \A i \in Place : Xor(a, b)[i] = XorBit(a[i], b[i])
  BY XorWord
<1>2. ASSUME Xor(a, b) = Zero PROVE a = b
  <2>1. \A i \in Place : XorBit(a[i], b[i]) = 0
    BY <1>1, <1>2, ZeroWord
  <2> QED
    BY <2>1, WordsEqual DEF XorBit
<1>3. ASSUME a = b PROVE Xor(a, b) = Zero
  <2>1. \A i \in Place : Xor(a, b)[i] = 0
    BY <1>1, <1>3 DEF XorBit
  <2> QED
    BY <1>1, <2>1, ZeroWord, WordsEqual
<1> QED
  BY <1>2, <1>3

(* How the remainders of the two packets differ after one more byte. *)
LEMMA DifferenceStep ==
  ASSUME NEW r \in Word, NEW s \in Word, NEW b \in Byte, NEW c \in Byte
  PROVE  Xor(FastByte(r, b), FastByte(s, c)) =
           DivideByte(Xor(Xor(r, s), ShiftByte(ByteXor(b, c))))
<1> DEFINE e == ByteXor(b, c)
<1>1. e \in Byte /\ \A i \in 0 .. 7 : e[i] = XorBit(b[i], c[i])
  BY ByteXorByte
<1> HIDE DEF e
<1>2. ShiftByte(b) \in Word /\ ShiftByte(c) \in Word /\ ShiftByte(e) \in Word
  BY <1>1, ShiftByteByte
<1>3. /\ Xor(r, ShiftByte(b)) \in Word /\ Xor(s, ShiftByte(c)) \in Word
      /\ Xor(r, s) \in Word
  BY <1>2, XorWord
<1>4. /\ Xor(Xor(r, s), ShiftByte(e)) \in Word
      /\ Xor(Xor(r, ShiftByte(b)), Xor(s, ShiftByte(c))) \in Word
  BY <1>2, <1>3, XorWord
<1>5. ASSUME NEW i \in Place
      PROVE  Xor(Xor(r, ShiftByte(b)), Xor(s, ShiftByte(c)))[i]
               = Xor(Xor(r, s), ShiftByte(e))[i]
  <2>1. Xor(Xor(r, ShiftByte(b)), Xor(s, ShiftByte(c)))[i]
          = XorBit(XorBit(r[i], ShiftByte(b)[i]), XorBit(s[i], ShiftByte(c)[i]))
    BY <1>2, <1>3, XorWord
  <2>2. Xor(Xor(r, s), ShiftByte(e))[i] = XorBit(XorBit(r[i], s[i]), ShiftByte(e)[i])
    BY <1>2, <1>3, XorWord
  <2>3. ShiftByte(e)[i] = XorBit(ShiftByte(b)[i], ShiftByte(c)[i])
    <3>1. CASE i \in 0 .. 7
      BY <1>1, <3>1, ShiftByteByte DEF XorBit
    <3>2. CASE i \in 8 .. 15
      BY <1>1, <3>2, ShiftByteByte
    <3> QED
      BY <3>1, <3>2 DEF Place
  <2>4. /\ r[i] \in {0, 1} /\ s[i] \in {0, 1}
        /\ ShiftByte(b)[i] \in {0, 1} /\ ShiftByte(c)[i] \in {0, 1}
    BY <1>2, BitIs
  <2> QED
    BY <2>1, <2>2, <2>3, <2>4 DEF XorBit
<1>6. Xor(Xor(r, ShiftByte(b)), Xor(s, ShiftByte(c))) = Xor(Xor(r, s), ShiftByte(e))
  BY <1>4, <1>5, WordsEqual
<1>7. Xor(FastByte(r, b), FastByte(s, c))
        = Xor(DivideByte(Xor(r, ShiftByte(b))), DivideByte(Xor(s, ShiftByte(c))))
  BY FastIsSlow DEF SlowByte
<1>8. DivideByte(Xor(Xor(r, ShiftByte(b)), Xor(s, ShiftByte(c))))
        = Xor(DivideByte(Xor(r, ShiftByte(b))), DivideByte(Xor(s, ShiftByte(c))))
  BY <1>3, DivideByteLinear
<1> QED
  BY <1>6, <1>7, <1>8 DEF e

(* Where nothing is damaged the difference is only carried on. *)
LEMMA IntactStep ==
  ASSUME NEW r \in Word, NEW s \in Word, NEW b \in Byte
  PROVE  Xor(FastByte(r, b), FastByte(s, b)) = DivideByte(Xor(r, s))
<1>1. Xor(r, s) \in Word /\ ShiftByte(ByteXor(b, b)) \in Word
  BY ByteXorByte, ShiftByteByte, XorWord
<1>2. \A i \in Place : ShiftByte(ByteXor(b, b))[i] = 0
  <2>1. \A i \in 0 .. 7 : ByteXor(b, b)[i] = 0
    BY ByteXorByte DEF XorBit
  <2> QED
    BY <2>1, ByteXorByte, ShiftByteByte DEF Place
<1>3. Xor(Xor(r, s), ShiftByte(ByteXor(b, b))) \in Word
  BY <1>1, XorWord
<1>4. \A i \in Place : Xor(Xor(r, s), ShiftByte(ByteXor(b, b)))[i] = Xor(r, s)[i]
  BY <1>1, <1>2, XorWord, BitIs DEF XorBit
<1>5. Xor(Xor(r, s), ShiftByte(ByteXor(b, b))) = Xor(r, s)
  BY <1>1, <1>3, <1>4, WordsEqual
<1> QED
  BY <1>5, DifferenceStep

(* Combining with zero changes nothing. *)
LEMMA ZeroXor ==
  ASSUME NEW a \in Word, NEW z \in Word, \A i \in Place : z[i] = 0
  PROVE  Xor(z, a) = a
<1>1. Xor(z, a) \in Word /\ \A i \in Place : Xor(z, a)[i] = XorBit(z[i], a[i])
  BY XorWord
<1>2. \A i \in Place : Xor(z, a)[i] = a[i]
  BY <1>1, BitIs DEF XorBit
<1> QED
  BY <1>1, <1>2, WordsEqual

-------------------------------------------------------------------------------
(* The damage of each byte is a byte, and zero where the packets agree. *)
LEMMA DamageByte ==
  ASSUME TypeOK, NEW i \in 1 .. Len(message)
  PROVE  /\ message[i] \in Byte /\ arrived[i] \in Byte
         /\ DamageTo(i) \in Byte
         /\ \A b \in 0 .. 7 : DamageTo(i)[b] = 0 <=> message[i][b] = arrived[i][b]
         /\ arrived[i] # message[i] => \E b \in 0 .. 7 : DamageTo(i)[b] # 0
<1>1. message[i] \in Byte /\ arrived[i] \in Byte
  BY DEF TypeOK
<1>2. /\ DamageTo(i) \in Byte
      /\ \A b \in 0 .. 7 : DamageTo(i)[b] = XorBit(message[i][b], arrived[i][b])
  BY <1>1, ByteXorByte DEF DamageTo
<1>3. \A b \in 0 .. 7 : DamageTo(i)[b] = 0 <=> message[i][b] = arrived[i][b]
  BY <1>2 DEF XorBit
<1>4. (\A b \in 0 .. 7 : message[i][b] = arrived[i][b]) => arrived[i] = message[i]
  BY <1>1 DEF Byte
<1> QED
  BY <1>1, <1>2, <1>3, <1>4

(* The first two bytes of a burst as a word. *)
LEMMA FirstTwoWord ==
  ASSUME TypeOK, NEW f \in 1 .. Len(message), f + 1 \in 1 .. Len(message),
         NEW k \in 0 .. 7, BurstAt(f, k)
  PROVE  /\ FirstTwo(f) \in Word
         /\ FirstTwo(f) # Zero
         /\ \A i \in Place : i > 15 - k => FirstTwo(f)[i] = 0
         /\ FirstTwo(f) = Xor(ShiftByte(DamageTo(f)), LowWord(DamageTo(f + 1)))
<1> DEFINE d == DamageTo(f)
           e == DamageTo(f + 1)
           u == FirstTwo(f)
<1>1. /\ d \in Byte /\ e \in Byte
      /\ \E b \in 0 .. 7 : d[b] # 0
      /\ \A i \in 0 .. 7 : i > 7 - k => d[i] = 0
  BY DamageByte DEF BurstAt
<1>2. u = [i \in Place |-> IF i < 8 THEN e[i] ELSE d[i - 8]]
  BY DEF FirstTwo, WIDTH, Place
<1> HIDE DEF d, e, u
<1>3. /\ \A i \in 0 .. 7 : u[i] = e[i]
      /\ \A i \in 8 .. 15 : u[i] = d[i - 8]
  BY <1>2 DEF Place
<1>4. u \in Word
  <2>1. ASSUME NEW i \in Place PROVE u[i] \in {0, 1}
    <3>1. CASE i \in 0 .. 7
      BY <1>1, <1>3, <3>1, ByteBitIs
    <3>2. CASE i \in 8 .. 15
      <4>1. i - 8 \in 0 .. 7 /\ u[i] = d[i - 8]
        BY <1>3, <3>2
      <4> QED
        BY <1>1, <4>1, ByteBitIs
    <3> QED
      BY <3>1, <3>2 DEF Place
  <2> QED
    BY <1>2, <2>1 DEF Word, WIDTH, Place
<1>5. u # Zero
  <2>1. PICK b \in 0 .. 7 : d[b] # 0
    BY <1>1
  <2>2. b + 8 \in 8 .. 15 /\ b + 8 \in Place /\ (b + 8) - 8 = b
    BY DEF Place
  <2>3. u[b + 8] = d[b]
    BY <1>3, <2>2
  <2> QED
    BY <2>1, <2>2, <2>3, ZeroWord
<1>6. \A i \in Place : i > 15 - k => u[i] = 0
  <2> SUFFICES ASSUME NEW i \in Place, i > 15 - k
               PROVE  u[i] = 0
    OBVIOUS
  <2>1. i \in 8 .. 15 /\ i - 8 \in 0 .. 7 /\ i - 8 > 7 - k
    BY DEF Place
  <2> QED
    BY <1>1, <1>3, <2>1
<1>7. u = Xor(ShiftByte(d), LowWord(e))
  <2>1. ShiftByte(d) \in Word /\ LowWord(e) \in Word
    BY <1>1, ShiftByteByte, LowWordWord
  <2>2. /\ Xor(ShiftByte(d), LowWord(e)) \in Word
        /\ \A i \in Place : Xor(ShiftByte(d), LowWord(e))[i]
                              = XorBit(ShiftByte(d)[i], LowWord(e)[i])
    BY <2>1, XorWord
  <2>3. ASSUME NEW i \in Place
        PROVE  u[i] = Xor(ShiftByte(d), LowWord(e))[i]
    <3>1. CASE i \in 0 .. 7
      <4>1. ShiftByte(d)[i] = 0 /\ LowWord(e)[i] = e[i] /\ e[i] \in {0, 1}
        BY <1>1, <3>1, ShiftByteByte, LowWordWord, ByteBitIs
      <4> QED
        BY <1>3, <2>2, <3>1, <4>1 DEF XorBit
    <3>2. CASE i \in 8 .. 15
      <4>1. ShiftByte(d)[i] = d[i - 8]
        BY <1>1, <3>2, ShiftByteByte
      <4>2. LowWord(e)[i] = 0
        BY <1>1, <3>2, LowWordWord
      <4>3. i - 8 \in 0 .. 7
        BY <3>2
      <4>4. d[i - 8] \in {0, 1}
        BY <1>1, <4>3, ByteBitIs
      <4> QED
        BY <1>3, <2>2, <3>2, <4>1, <4>2, <4>4 DEF XorBit
    <3> QED
      BY <3>1, <3>2 DEF Place
  <2> QED
    BY <1>4, <2>2, <2>3, WordsEqual
<1> QED
  BY <1>4, <1>5, <1>6, <1>7 DEF d, e, u

(* A byte moved up is the remainder of that byte moved up by none. *)
LEMMA ShiftIsDivided ==
  ASSUME NEW b \in Byte
  PROVE  ShiftByte(b) = DivideByte(LowWord(b))
<1>1. /\ LowWord(b) \in Word
      /\ \A i \in 0 .. 7 : LowWord(b)[i] = b[i]
      /\ \A i \in 8 .. 15 : LowWord(b)[i] = 0
  BY LowWordWord
<1>2. DivideByte(LowWord(b)) = ShiftByte(LowWord(b))
  BY <1>1, DivideLowByte
<1>3. \A i \in Place : ShiftByte(b)[i] = ShiftByte(LowWord(b))[i]
  BY <1>1, ShiftByteWord, ShiftByteByte DEF Place
<1> QED
  BY <1>1, <1>2, <1>3, ShiftByteWord, ShiftByteByte, WordsEqual

-------------------------------------------------------------------------------
(* A byte combined with another: 0 where they agree. *)
LEMMA FlipByte ==
  ASSUME NEW b \in Byte, NEW c \in Byte
  PROVE  /\ ByteXor(b, c) \in Byte
         /\ \A i \in 0 .. 7 : ByteXor(b, c)[i] = b[i] <=> c[i] = 0
         /\ c = ZeroByte => ByteXor(b, c) = b
<1>1. ByteXor(b, c) \in Byte /\ \A i \in 0 .. 7 : ByteXor(b, c)[i] = XorBit(b[i], c[i])
  BY ByteXorByte
<1>2. \A i \in 0 .. 7 : b[i] \in {0, 1} /\ c[i] \in {0, 1}
  BY ByteBitIs
<1>3. \A i \in 0 .. 7 : ByteXor(b, c)[i] = b[i] <=> c[i] = 0
  BY <1>1, <1>2 DEF XorBit
<1>4. ASSUME c = ZeroByte PROVE ByteXor(b, c) = b
  <2>1. \A i \in 0 .. 7 : ByteXor(b, c)[i] = b[i]
    BY <1>3, <1>4 DEF ZeroByte
  <2> QED
    BY <1>1, <2>1 DEF Byte
<1> QED
  BY <1>1, <1>3, <1>4

(* A packet without its checksum is a packet. *)
LEMMA ChksumZeroSeq ==
  ASSUME NEW m \in Seq(Byte)
  PROVE  /\ ChksumZero(m) \in Seq(Byte) /\ Len(ChksumZero(m)) = Len(m)
         /\ \A i \in 1 .. Len(m) :
              ChksumZero(m)[i] = IF i \in Field THEN ZeroByte ELSE m[i]
<1>1. ZeroByte \in Byte
  BY DEF ZeroByte, Byte
<1>2. \A i \in 1 .. Len(m) : m[i] \in Byte
  OBVIOUS
<1> QED
  BY <1>1, <1>2 DEF ChksumZero

(* A damaged packet is a packet. *)
LEMMA FlippedSeq ==
  ASSUME NEW m \in Seq(Byte), NEW f \in Seq(Byte), Len(f) = Len(m)
  PROVE  /\ Flipped(m, f) \in Seq(Byte) /\ Len(Flipped(m, f)) = Len(m)
         /\ \A i \in 1 .. Len(m) : Flipped(m, f)[i] = ByteXor(m[i], f[i])
<1>1. \A i \in 1 .. Len(m) : m[i] \in Byte /\ f[i] \in Byte
  OBVIOUS
<1>2. \A i \in 1 .. Len(m) : ByteXor(m[i], f[i]) \in Byte
  BY <1>1, ByteXorByte
<1> QED
  BY <1>2 DEF Flipped

(* The machine starts with the initial remainder, before any damage. *)
LEMMA InitInv == Init => IInv
<1> SUFFICES ASSUME Init PROVE IInv
  OBVIOUS
<1>1. PICK d \in Deliveries :
        /\ message = ChksumZero(d.packet) /\ flips = d.flips
        /\ arrived = ChksumZero(Flipped(d.packet, d.flips))
  BY DEF Init
<1> DEFINE m == d.packet
           hit == Flipped(m, flips)
<1>2. m \in Seq(Byte) /\ flips \in Seq(Byte) /\ Len(flips) = Len(m) /\ ChksumAt + 4 <= Len(m)
  BY <1>1, DeliveriesAssumption
<1> HIDE DEF m
<1>3. /\ hit \in Seq(Byte) /\ Len(hit) = Len(m)
      /\ \A i \in 1 .. Len(m) : hit[i] = ByteXor(m[i], flips[i])
  BY <1>2, FlippedSeq
<1> HIDE DEF hit
<1>4. message = ChksumZero(m) /\ arrived = ChksumZero(hit)
  BY <1>1 DEF m, hit
<1>5. /\ message \in Seq(Byte) /\ Len(message) = Len(m)
      /\ \A i \in 1 .. Len(m) : message[i] = IF i \in Field THEN ZeroByte ELSE m[i]
  BY <1>2, <1>4, ChksumZeroSeq
<1>6. /\ arrived \in Seq(Byte) /\ Len(arrived) = Len(m)
      /\ \A i \in 1 .. Len(m) : arrived[i] = IF i \in Field THEN ZeroByte ELSE hit[i]
  BY <1>3, <1>4, ChksumZeroSeq
<1>7. byte = 0 /\ slow = fast /\ fast = heard /\ fast \in Word
  BY InitialAssumption DEF Init
<1>8. TypeOK
  BY <1>2, <1>5, <1>6, <1>7 DEF TypeOK
<1>9. FieldIsZero
  BY <1>3, <1>5, <1>6 DEF FieldIsZero
<1>10. DamageIsHeard
  BY <1>5, <1>7 DEF DamageIsHeard
<1> QED
  BY <1>7, <1>8, <1>9, <1>10 DEF IInv, SlowIsFast, IntactIsHeard

(* Every turn keeps the three remainders words and the place inside. *)
LEMMA StepType ==
  ASSUME IInv, NextByte
  PROVE  /\ TypeOK' /\ SlowIsFast'
         /\ byte + 1 \in 1 .. Len(message) /\ byte' = byte + 1
         /\ message' = message /\ arrived' = arrived /\ flips' = flips
         /\ fast' = FastByte(fast, message[byte + 1])
         /\ heard' = FastByte(heard, arrived[byte + 1])
<1> TypeOK
  BY DEF IInv
<1>1. byte + 1 \in 1 .. Len(message) /\ byte' = byte + 1
  BY DEF TypeOK, NextByte
<1>2. message[byte + 1] \in Byte /\ arrived[byte + 1] \in Byte
  BY <1>1, DamageByte
<1>3. /\ fast' = FastByte(fast, message[byte + 1])
      /\ heard' = FastByte(heard, arrived[byte + 1])
      /\ slow' = SlowByte(slow, message[byte + 1])
      /\ message' = message /\ arrived' = arrived /\ flips' = flips
  BY <1>1 DEF NextByte
<1>4. slow = fast
  BY DEF IInv, SlowIsFast
<1>5. slow' = fast' /\ fast' \in Word /\ heard' \in Word
  BY <1>2, <1>3, <1>4, FastIsSlow DEF TypeOK
<1>6. TypeOK'
  BY <1>1, <1>3, <1>5 DEF TypeOK
<1> QED
  BY <1>1, <1>3, <1>5, <1>6 DEF SlowIsFast

(* Every turn carries the remainder of the damage on. *)
LEMMA StepDamage ==
  ASSUME IInv, NextByte
  PROVE  DamageIsHeard'
<1> TypeOK
  BY DEF IInv
<1> DEFINE n == byte + 1
<1>1. /\ n \in 1 .. Len(message) /\ byte' = n
      /\ message' = message /\ arrived' = arrived
      /\ fast' = FastByte(fast, message[n])
      /\ heard' = FastByte(heard, arrived[n])
      /\ TypeOK'
  BY StepType
<1>2. /\ fast \in Word /\ heard \in Word /\ byte \in Nat
      /\ fast' \in Word /\ heard' \in Word
      /\ Len(message) \in Nat
  BY <1>1 DEF TypeOK
<1>3. message[n] \in Byte /\ arrived[n] \in Byte /\ DamageTo(n) \in Byte
  BY <1>1, DamageByte
<1>4. DamageTo(n) = ByteXor(message[n], arrived[n])
  BY DEF DamageTo
<1>5. Xor(fast, heard) \in Word /\ ShiftByte(DamageTo(n)) \in Word
  BY <1>2, <1>3, XorWord, ShiftByteByte
<1>6. Xor(fast', heard') = DivideByte(Xor(Xor(fast, heard), ShiftByte(DamageTo(n))))
  BY <1>1, <1>2, <1>3, <1>4, DifferenceStep
<1> HIDE DEF n
<1>7. ASSUME NEW f \in 1 .. Len(message), NEW k \in 0 .. 7, BurstAt(f, k)
      PROVE  /\ n < f => fast' = heard'
             /\ n = f => Xor(fast', heard') = DivideByte(ShiftByte(DamageTo(f)))
             /\ n = f + 1 => Xor(fast', heard') = DivideByte(DivideByte(FirstTwo(f)))
             /\ n > f + 1 => fast' # heard'
  <2>1. /\ byte < f => fast = heard
        /\ byte = f => Xor(fast, heard) = DivideByte(ShiftByte(DamageTo(f)))
        /\ byte = f + 1 => Xor(fast, heard) = DivideByte(DivideByte(FirstTwo(f)))
        /\ byte > f + 1 => fast # heard
    BY <1>7 DEF IInv, DamageIsHeard
  <2>2. ASSUME n < f PROVE fast' = heard'
    <3>1. fast = heard
      BY <1>2, <2>1, <2>2 DEF n
    <3>2. arrived[n] = message[n]
      BY <1>1, <1>7, <2>2 DEF BurstAt
    <3> QED
      BY <1>1, <3>1, <3>2
  <2>3. ASSUME n = f
        PROVE  Xor(fast', heard') = DivideByte(ShiftByte(DamageTo(f)))
    <3>1. fast = heard
      BY <1>2, <2>1, <2>3 DEF n
    <3>2. Xor(fast, heard) = Zero
      BY <1>2, <3>1, XorZero
    <3>3. Xor(Xor(fast, heard), ShiftByte(DamageTo(n))) = ShiftByte(DamageTo(n))
      BY <1>5, <3>2, ZeroXor, ZeroWord
    <3> QED
      BY <1>6, <2>3, <3>3
  <2>4. ASSUME n = f + 1
        PROVE  Xor(fast', heard') = DivideByte(DivideByte(FirstTwo(f)))
    <3>1. Xor(fast, heard) = DivideByte(ShiftByte(DamageTo(f)))
      BY <1>2, <2>1, <2>4 DEF n
    <3>2. ShiftByte(DamageTo(n)) = DivideByte(LowWord(DamageTo(n)))
      BY <1>3, ShiftIsDivided
    <3>3. DamageTo(f) \in Byte
      BY DamageByte
    <3>4. ShiftByte(DamageTo(f)) \in Word /\ LowWord(DamageTo(n)) \in Word
      BY <1>3, <3>3, ShiftByteByte, LowWordWord
    <3>5. DivideByte(Xor(ShiftByte(DamageTo(f)), LowWord(DamageTo(n))))
            = Xor(DivideByte(ShiftByte(DamageTo(f))), DivideByte(LowWord(DamageTo(n))))
      BY <3>4, DivideByteLinear
    <3>6. FirstTwo(f) = Xor(ShiftByte(DamageTo(f)), LowWord(DamageTo(n)))
      BY <1>1, <1>7, <2>4, FirstTwoWord
    <3> QED
      BY <1>6, <3>1, <3>2, <3>5, <3>6
  <2>5. ASSUME n = f + 2
        PROVE  fast' # heard'
    <3>1. Xor(fast, heard) = DivideByte(DivideByte(FirstTwo(f)))
      BY <1>2, <2>1, <2>5 DEF n
    <3>2. f + 1 \in 1 .. Len(message) /\ f + 2 <= Len(message)
      BY <1>1, <1>2, <2>5
    <3>3. /\ FirstTwo(f) \in Word /\ FirstTwo(f) # Zero
          /\ \A i \in Place : i > 15 - k => FirstTwo(f)[i] = 0
      BY <1>7, <3>2, FirstTwoWord
    <3>4. \A i \in 0 .. 7 : i <= 7 - k => DamageTo(n)[i] = 0
      BY <1>7, <2>5, <3>2 DEF BurstAt
    <3>5. ASSUME NEW i \in Place, i < 16 - k
          PROVE  ShiftByte(DamageTo(n))[i] = 0
      <4>1. CASE i \in 0 .. 7
        BY <1>3, <4>1, ShiftByteByte
      <4>2. CASE i \in 8 .. 15
        <5>1. i - 8 \in 0 .. 7 /\ i - 8 <= 7 - k
          BY <3>5, <4>2
        <5> QED
          BY <1>3, <3>4, <4>2, <5>1, ShiftByteByte
      <4> QED
        BY <4>1, <4>2 DEF Place
    <3>6. DivideByte(DivideByte(FirstTwo(f))) # ShiftByte(DamageTo(n))
      BY <1>5, <3>3, <3>5, Window
    <3>7. Xor(Xor(fast, heard), ShiftByte(DamageTo(n))) # Zero
      BY <1>5, <3>1, <3>6, XorZero
    <3>8. Xor(fast', heard') # Zero
      BY <1>5, <1>6, <3>7, XorWord, DivideByteLinear
    <3> QED
      BY <1>2, <3>8, XorZero
  <2>6. ASSUME n > f + 2
        PROVE  fast' # heard'
    <3>1. fast # heard
      BY <1>2, <2>1, <2>6 DEF n
    <3>2. arrived[n] = message[n]
      BY <1>1, <1>7, <2>6 DEF BurstAt
    <3>3. Xor(fast', heard') = DivideByte(Xor(fast, heard))
      BY <1>1, <1>2, <1>3, <3>2, IntactStep
    <3>4. Xor(fast, heard) # Zero
      BY <1>2, <3>1, XorZero
    <3>5. Xor(fast', heard') # Zero
      BY <1>5, <3>3, <3>4, DivideByteLinear
    <3> QED
      BY <1>2, <3>5, XorZero
  <2>7. n > f + 1 => n = f + 2 \/ n > f + 2
    BY <1>1
  <2> QED
    BY <2>2, <2>3, <2>4, <2>5, <2>6, <2>7
<1>8. \A f : /\ DamageTo(f)' = DamageTo(f) /\ FirstTwo(f)' = FirstTwo(f)
             /\ \A k : BurstAt(f, k)' = BurstAt(f, k)
  BY <1>1 DEF DamageTo, FirstTwo, BurstAt
<1> QED
  BY <1>1, <1>7, <1>8 DEF DamageIsHeard

(* Packets that agree keep the remainders equal, and both stay what they are. *)
LEMMA StepIntact ==
  ASSUME IInv, NextByte
  PROVE  FieldIsZero' /\ IntactIsHeard'
<1>1. /\ byte + 1 \in 1 .. Len(message)
      /\ message' = message /\ arrived' = arrived /\ flips' = flips
      /\ fast' = FastByte(fast, message[byte + 1])
      /\ heard' = FastByte(heard, arrived[byte + 1])
  BY StepType
<1>2. FieldIsZero'
  BY <1>1 DEF IInv, FieldIsZero
<1>3. IntactIsHeard'
  BY <1>1 DEF IInv, IntactIsHeard
<1> QED
  BY <1>2, <1>3

(* A turn that does nothing keeps everything. *)
LEMMA StutterInv == IInv /\ UNCHANGED vars => IInv'
<1> SUFFICES ASSUME IInv, UNCHANGED vars PROVE IInv'
  OBVIOUS
<1>1. /\ message' = message /\ arrived' = arrived /\ byte' = byte /\ flips' = flips
      /\ slow' = slow /\ fast' = fast /\ heard' = heard
  BY DEF vars
<1>2. TypeOK' /\ SlowIsFast' /\ FieldIsZero' /\ IntactIsHeard'
  BY <1>1 DEF TypeOK, IInv, SlowIsFast, FieldIsZero, IntactIsHeard
<1>3. \A f : /\ DamageTo(f)' = DamageTo(f) /\ FirstTwo(f)' = FirstTwo(f)
             /\ \A k : BurstAt(f, k)' = BurstAt(f, k)
  BY <1>1 DEF DamageTo, FirstTwo, BurstAt
<1>4. DamageIsHeard'
  BY <1>1, <1>3 DEF IInv, DamageIsHeard
<1> QED
  BY <1>2, <1>4 DEF IInv

(* At every turn, for every packet and every damage, the two functions agree
   and the remainders differ by the remainder of the damage. *)
THEOREM Invariance == Spec => []IInv
<1>1. IInv /\ NextByte => IInv'
  BY StepType, StepDamage, StepIntact DEF IInv
<1> QED
  BY <1>1, InitInv, StutterInv, PTL DEF Spec

(* Both remainders stay 16 bits wide and no step reads behind the packet. *)
THEOREM TypeCorrect == Spec => []TypeOK
<1>1. IInv => TypeOK
  BY DEF IInv
<1> QED
  BY <1>1, Invariance, PTL

(* The table computes the division, for every packet. *)
THEOREM TableIsRight == Spec => []SlowIsFast
<1>1. IInv => SlowIsFast
  BY DEF IInv
<1> QED
  BY <1>1, Invariance, PTL

-------------------------------------------------------------------------------
(* The bit of a byte and its place in the packet name each other. *)
LEMMA PlaceOf ==
  ASSUME NEW i \in Nat \ {0}, NEW b \in 0 .. 7
  PROVE  LET place == 8 * (i - 1) + 7 - b
         IN  place \in Nat /\ 1 + (place \div 8) = i /\ 7 - (place % 8) = b
  OBVIOUS

(* A flipped bit is a place of Damage. *)
LEMMA DamagePlace ==
  ASSUME TypeOK, NEW i \in 1 .. Len(message), NEW b \in 0 .. 7, flips[i][b] # 0
  PROVE  8 * (i - 1) + 7 - b \in Damage /\ ByteOf(8 * (i - 1) + 7 - b) = i
<1> DEFINE place == 8 * (i - 1) + 7 - b
<1>1. Len(message) \in Nat /\ flips[i] \in Byte
  BY DEF TypeOK
<1>2. place \in Nat /\ 1 + (place \div 8) = i /\ 7 - (place % 8) = b
  BY <1>1, PlaceOf
<1>3. place \in 0 .. 8 * Len(message) - 1
  BY <1>1
<1> HIDE DEF place
<1>4. flips[i][b] = 1
  BY <1>1, ByteBitIs
<1>5. flips[ByteOf(place)][7 - (place % 8)] = 1
  BY <1>2, <1>4 DEF ByteOf
<1> QED
  BY <1>2, <1>3, <1>5 DEF Damage, ByteOf, place

(* Every place of Damage is a flipped bit. *)
LEMMA PlaceDamage ==
  ASSUME TypeOK, NEW p \in Damage
  PROVE  /\ p \in Nat
         /\ ByteOf(p) \in 1 .. Len(message) /\ p % 8 \in 0 .. 7
         /\ flips[ByteOf(p)][7 - (p % 8)] = 1
         /\ p = 8 * (ByteOf(p) - 1) + (p % 8)
<1>1. Len(message) \in Nat
  BY DEF TypeOK
<1>2. p \in 0 .. 8 * Len(message) - 1 /\ flips[ByteOf(p)][7 - (p % 8)] = 1
  BY DEF Damage
<1>3. /\ p \in Nat
      /\ p \div 8 \in Nat /\ p % 8 \in 0 .. 7
      /\ p = 8 * (p \div 8) + (p % 8)
  BY <1>1, <1>2
<1>4. 1 + (p \div 8) \in 1 .. Len(message)
  BY <1>1, <1>2, <1>3
<1> QED
  BY <1>2, <1>3, <1>4 DEF ByteOf

(* There is a first flipped bit. *)
LEMMA FirstDamage ==
  ASSUME TypeOK, Damage # {}
  PROVE  \E p \in Damage : \A j \in Damage : p <= j
<1>1. Damage \subseteq Nat
  BY PlaceDamage
<1>2. \E p \in Damage : \A j \in Damage : ~(<<j, p>> \in OpToRel(<, Nat))
  BY <1>1, NatLessThanWellFounded, WFMin
<1>3. \A p, j \in Damage : ~(<<j, p>> \in OpToRel(<, Nat)) => p <= j
  BY <1>1 DEF OpToRel
<1> QED
  BY <1>2, <1>3

(* What arrives of a byte outside the field is damaged where bits were flipped. *)
LEMMA FlipsAreDamage ==
  ASSUME TypeOK, FieldIsZero, NEW i \in 1 .. Len(message), NEW b \in 0 .. 7
  PROVE  message[i][b] # arrived[i][b] <=> i \notin Field /\ flips[i][b] # 0
<1>1. message[i] \in Byte /\ flips[i] \in Byte
  BY DEF TypeOK
<1>2. CASE i \in Field
  BY <1>2 DEF FieldIsZero
<1>3. CASE i \notin Field
  <2>1. arrived[i] = ByteXor(message[i], flips[i])
    BY <1>3 DEF FieldIsZero
  <2> QED
    BY <1>1, <1>3, <2>1, FlipByte
<1> QED
  BY <1>2, <1>3

(* Damage outside the field and within 16 consecutive bits is a burst in the
   sense of BurstAt. *)
LEMMA DamageIsBurst ==
  ASSUME TypeOK, FieldIsZero, Damage # {}, \A j, k \in Damage : j - k < WIDTH,
         \A j \in Damage : ByteOf(j) \notin Field
  PROVE  \E f \in 1 .. Len(message), k \in 0 .. 7 : BurstAt(f, k)
<1>1. PICK p \in Damage : \A j \in Damage : p <= j
  BY FirstDamage
<1> DEFINE f == ByteOf(p)
           k == p % 8
<1>2. /\ p \in Nat /\ f \in 1 .. Len(message) /\ k \in 0 .. 7 /\ 7 - k \in 0 .. 7
      /\ flips[f][7 - k] # 0
      /\ p = 8 * (f - 1) + k
      /\ f \notin Field
  <2>1. p \in Nat /\ f \in 1 .. Len(message) /\ k \in 0 .. 7 /\ p = 8 * (f - 1) + k
    BY PlaceDamage
  <2>2. flips[f][7 - k] = 1
    BY PlaceDamage
  <2> QED
    BY <2>1, <2>2
<1> HIDE DEF f, k
<1>3. Len(message) \in Nat
  BY DEF TypeOK
<1>4. ASSUME NEW i \in 1 .. Len(message), NEW b \in 0 .. 7, DamageTo(i)[b] # 0
      PROVE  /\ 8 * (f - 1) + k <= 8 * (i - 1) + 7 - b
             /\ 8 * (i - 1) + 7 - b < 8 * (f - 1) + k + 16
  <2>1. flips[i][b] # 0
    BY <1>4, DamageByte, FlipsAreDamage
  <2>2. 8 * (i - 1) + 7 - b \in Damage
    BY <2>1, DamagePlace
  <2> DEFINE place == 8 * (i - 1) + 7 - b
  <2>3. p <= place /\ place - p < WIDTH
    BY <1>1, <2>2
  <2>4. place \in Int /\ f \in Int /\ k \in Int
    BY <1>2, <1>3
  <2> HIDE DEF place
  <2>5. p <= place /\ place < p + 16
    BY <1>2, <2>3, <2>4 DEF WIDTH
  <2>6. 8 * (f - 1) + k <= place /\ place < 8 * (f - 1) + k + 16
    BY <1>2, <2>4, <2>5
  <2> QED
    BY <2>6 DEF place
<1>5. arrived[f] # message[f]
  BY <1>2, FlipsAreDamage
<1>6. \A b \in 0 .. 7 : b > 7 - k => DamageTo(f)[b] = 0
  BY <1>2, <1>3, <1>4
<1>7. ASSUME f + 2 <= Len(message), NEW b \in 0 .. 7, b <= 7 - k
      PROVE  DamageTo(f + 2)[b] = 0
  <2>1. f + 2 \in 1 .. Len(message)
    BY <1>2, <1>3, <1>7
  <2> QED
    BY <1>2, <1>3, <1>4, <1>7, <2>1
<1>8. ASSUME NEW i \in 1 .. Len(message), i \notin f .. f + 2
      PROVE  arrived[i] = message[i]
  <2>1. SUFFICES ASSUME arrived[i] # message[i] PROVE FALSE
    OBVIOUS
  <2>2. PICK b \in 0 .. 7 : DamageTo(i)[b] # 0
    BY <2>1, DamageByte
  <2>3. i < f \/ i > f + 2
    BY <1>2, <1>3, <1>8
  <2> QED
    BY <1>2, <1>3, <1>4, <2>2, <2>3
<1>9. BurstAt(f, k)
  BY <1>5, <1>6, <1>7, <1>8 DEF BurstAt
<1> QED
  BY <1>2, <1>9

(* At the end of the packet such a burst is heard, wherever it began. *)
LEMMA BurstIsHeard ==
  ASSUME IInv, byte = Len(message), Damage # {}, \A j, k \in Damage : j - k < WIDTH,
         \A j \in Damage : ByteOf(j) \notin Field
  PROVE  fast # heard
<1> TypeOK /\ FieldIsZero
  BY DEF IInv
<1>1. PICK f \in 1 .. Len(message), k \in 0 .. 7 : BurstAt(f, k)
  BY DamageIsBurst
<1>2. /\ byte = f => Xor(fast, heard) = DivideByte(ShiftByte(DamageTo(f)))
      /\ byte = f + 1 => Xor(fast, heard) = DivideByte(DivideByte(FirstTwo(f)))
      /\ byte > f + 1 => fast # heard
  BY <1>1 DEF IInv, DamageIsHeard
<1>3. fast \in Word /\ heard \in Word /\ Len(message) \in Nat
  BY DEF TypeOK
<1>4. CASE byte = f
  <2>1. DamageTo(f) \in Byte /\ \E b \in 0 .. 7 : DamageTo(f)[b] # 0
    BY <1>1, DamageByte DEF BurstAt
  <2>2. PICK b \in 0 .. 7 : DamageTo(f)[b] # 0
    BY <2>1
  <2>3. b + 8 \in 8 .. 15 /\ b + 8 \in Place /\ (b + 8) - 8 = b
    BY DEF Place
  <2>4. ShiftByte(DamageTo(f)) \in Word /\ ShiftByte(DamageTo(f))[b + 8] # 0
    BY <2>1, <2>2, <2>3, ShiftByteByte
  <2>5. ShiftByte(DamageTo(f)) # Zero
    BY <2>3, <2>4, ZeroWord
  <2> QED
    BY <1>2, <1>3, <1>4, <2>4, <2>5, DivideByteLinear, XorZero
<1>5. CASE byte = f + 1
  <2>1. f + 1 \in 1 .. Len(message)
    BY <1>3, <1>5
  <2>2. FirstTwo(f) \in Word /\ FirstTwo(f) # Zero
    BY <1>1, <2>1, FirstTwoWord
  <2>3. DivideByte(FirstTwo(f)) \in Word /\ DivideByte(FirstTwo(f)) # Zero
    BY <2>2, DivideByteLinear
  <2>4. DivideByte(DivideByte(FirstTwo(f))) # Zero
    BY <2>3, DivideByteLinear
  <2> QED
    BY <1>2, <1>3, <1>5, <2>4, XorZero
<1>6. CASE byte > f + 1
  BY <1>2, <1>6
<1> QED
  BY <1>1, <1>3, <1>4, <1>5, <1>6

-------------------------------------------------------------------------------
(* The upper half of the int that holds a remainder is zero, the lower half is
   the remainder. *)
LEMMA ChksumBytes ==
  ASSUME NEW r \in Word, NEW j \in 0 .. 3
  PROVE  /\ ChksumByte(r, j) \in Byte
         /\ j >= 2 => ChksumByte(r, j) = ZeroByte
         /\ j < 2 => \A i \in 0 .. 7 : ChksumByte(r, j)[i] = r[8 * j + i]
  BY DEF ChksumByte, ZeroByte, Byte, Word, WIDTH

(* Remainders are equal if the ints that hold them are. *)
LEMMA SameChksum ==
  ASSUME NEW r \in Word, NEW s \in Word,
         \A j \in 0 .. 3 : ChksumByte(r, j) = ChksumByte(s, j)
  PROVE  r = s
<1>1. \A j \in 0 .. 1, i \in 0 .. 7 : r[8 * j + i] = s[8 * j + i]
  <2> SUFFICES ASSUME NEW j \in 0 .. 1, NEW i \in 0 .. 7
               PROVE  r[8 * j + i] = s[8 * j + i]
    OBVIOUS
  <2>1. j \in 0 .. 3 /\ j < 2
    OBVIOUS
  <2> QED
    BY <2>1, ChksumBytes
<1>2. \A i \in Place : r[i] = s[i]
  <2> SUFFICES ASSUME NEW i \in Place PROVE r[i] = s[i]
    OBVIOUS
  <2>1. CASE i < 8
    BY <1>1, <2>1 DEF Place
  <2>2. CASE i >= 8
    <3>1. i - 8 \in 0 .. 7 /\ 8 * 1 + (i - 8) = i
      BY <2>2 DEF Place
    <3> QED
      BY <1>1, <3>1
  <2> QED
    BY <2>1, <2>2 DEF Place
<1> QED
  BY <1>2, WordsEqual

(* A byte of the packet without a place of Damage arrived as it was sent. *)
LEMMA NoFlips ==
  ASSUME TypeOK, NEW i \in 1 .. Len(message), \A k \in Damage : ByteOf(k) # i
  PROVE  flips[i] = ZeroByte
<1>1. flips[i] \in Byte
  BY DEF TypeOK
<1>2. \A b \in 0 .. 7 : flips[i][b] = 0
  BY DamagePlace
<1> QED
  BY <1>1, <1>2 DEF Byte, ZeroByte

(* If nothing but chksum is damaged, the remainders are equal. *)
LEMMA FieldOnly ==
  ASSUME IInv, \A k \in Damage : ByteOf(k) \in Field
  PROVE  fast = heard
<1> TypeOK /\ FieldIsZero
  BY DEF IInv
<1>1. ASSUME NEW i \in 1 .. Len(message) PROVE message[i] = arrived[i]
  <2>1. message[i] \in Byte
    BY DEF TypeOK
  <2>2. CASE i \in Field
    BY <2>2 DEF FieldIsZero
  <2>3. CASE i \notin Field
    <3>1. flips[i] = ZeroByte
      BY <2>3, NoFlips
    <3>2. flips[i] \in Byte
      BY DEF TypeOK
    <3> QED
      BY <2>1, <2>3, <3>1, <3>2, FlipByte DEF FieldIsZero
  <2> QED
    BY <2>2, <2>3
<1>2. message = arrived
  BY <1>1 DEF TypeOK
<1> QED
  BY <1>2 DEF IInv, IntactIsHeard

(* The place of byte j of the field. *)
LEMMA FieldPlace ==
  ASSUME TypeOK, NEW j \in 0 .. 3
  PROVE  ChksumAt + 1 + j \in Field /\ ChksumAt + 1 + j \in 1 .. Len(message)
<1>1. ChksumAt \in Nat /\ Len(message) \in Nat /\ ChksumAt + 4 <= Len(message)
  BY ChksumAssumption DEF TypeOK
<1> QED
  BY <1>1 DEF Field

(* A byte of the field that arrives damaged is not the one that was sent. *)
LEMMA DamagedField ==
  ASSUME TypeOK, NEW j \in 0 .. 3, NEW k \in Damage, ByteOf(k) = ChksumAt + 1 + j
  PROVE  RecvChksumByte(j) # ChksumByte(fast, j)
<1> DEFINE c == ChksumByte(fast, j)
           d == flips[ChksumAt + 1 + j]
           b == 7 - (k % 8)
<1>1. b \in 0 .. 7 /\ d[b] = 1
  BY PlaceDamage
<1>2. c \in Byte
  BY ChksumBytes DEF TypeOK
<1>3. d \in Byte
  BY FieldPlace DEF TypeOK
<1> HIDE DEF c, d, b
<1>4. ByteXor(c, d)[b] # c[b]
  BY <1>1, <1>2, <1>3, FlipByte
<1>5. RecvChksumByte(j) = ByteXor(c, d)
  BY DEF RecvChksumByte, c, d
<1> QED
  BY <1>4, <1>5 DEF c

(* Where nothing of the field is damaged, the check compares the remainders. *)
LEMMA IntactField ==
  ASSUME TypeOK, \A k \in Damage : ByteOf(k) \notin Field
  PROVE  Accepted <=> fast = heard
<1>1. ASSUME NEW j \in 0 .. 3
      PROVE  RecvChksumByte(j) = ChksumByte(fast, j)
  <2>1. ChksumAt + 1 + j \in Field /\ ChksumAt + 1 + j \in 1 .. Len(message)
    BY FieldPlace
  <2>2. flips[ChksumAt + 1 + j] = ZeroByte /\ flips[ChksumAt + 1 + j] \in Byte
    BY <2>1, NoFlips DEF TypeOK
  <2>3. ChksumByte(fast, j) \in Byte
    BY ChksumBytes DEF TypeOK
  <2> QED
    BY <2>2, <2>3, FlipByte DEF RecvChksumByte
<1>2. fast \in Word /\ heard \in Word
  BY DEF TypeOK
<1> QED
  BY <1>1, <1>2, SameChksum DEF Accepted

(* What the check says at the end of the packet: damage in the upper half of
   chksum is always seen, a burst in its lower half leaves the rest intact, and
   one elsewhere is heard. *)
LEMMA InvDetects == IInv => BurstIsDetected
<1> SUFFICES ASSUME IInv, byte = Len(message), \A j, k \in Damage : j - k < WIDTH,
                    ~AcrossFront
             PROVE  Accepted <=> Damage = {}
  BY DEF BurstIsDetected
<1> TypeOK /\ FieldIsZero
  BY DEF IInv
<1>1. fast \in Word /\ heard \in Word /\ ChksumAt \in Nat
  BY ChksumAssumption DEF TypeOK
<1>2. CASE Damage = {}
  BY <1>2, FieldOnly, IntactField
<1>3. CASE Damage # {} /\ \A k \in Damage : ByteOf(k) \notin Field
  BY <1>3, BurstIsHeard, IntactField
<1>4. ASSUME NEW k \in Damage, ByteOf(k) \in Field
      PROVE  ~Accepted
  <2> DEFINE j == ByteOf(k) - (ChksumAt + 1)
  <2>1. j \in 0 .. 3 /\ ByteOf(k) = ChksumAt + 1 + j
    BY <1>1, <1>4 DEF Field
  <2> HIDE DEF j
  <2>2. RecvChksumByte(j) # ChksumByte(fast, j)
    BY <2>1, DamagedField
  <2>3. CASE j >= 2
    <3>1. ChksumByte(fast, j) = ZeroByte /\ ChksumByte(heard, j) = ZeroByte
      BY <1>1, <2>1, <2>3, ChksumBytes
    <3> QED
      BY <2>1, <2>2, <3>1 DEF Accepted
  <2>4. CASE j < 2
    <3>1. ASSUME NEW i \in Damage PROVE ByteOf(i) \in Field
      <4>0. Len(message) \in Nat
        BY DEF TypeOK
      <4>1. ASSUME NEW p \in Damage
            PROVE  /\ ByteOf(p) \in Nat /\ p \in Nat
                   /\ \E x \in 0 .. 7 : p = 8 * (ByteOf(p) - 1) + x
        <5> DEFINE x == p % 8
        <5>1. /\ p \in Nat /\ ByteOf(p) \in 1 .. Len(message) /\ x \in 0 .. 7
              /\ p = 8 * (ByteOf(p) - 1) + x
          BY PlaceDamage
        <5> HIDE DEF x
        <5>2. \E y \in 0 .. 7 : p = 8 * (ByteOf(p) - 1) + y
          BY <5>1
        <5>3. ByteOf(p) \in Nat
          BY <4>0, <5>1
        <5> QED
          BY <5>1, <5>2, <5>3
      <4>2. ByteOf(i) > ChksumAt
        <5>1. ByteOf(k) > ChksumAt
          BY <1>1, <2>1
        <5>2. ~(ByteOf(i) <= ChksumAt)
          BY <5>1 DEF AcrossFront
        <5> QED
          BY <1>1, <4>1, <5>2
      <4>3. i - k < 16
        BY DEF WIDTH
      <4>4. ByteOf(i) - ByteOf(k) <= 2
        <5>1. PICK x \in 0 .. 7 : i = 8 * (ByteOf(i) - 1) + x
          BY <4>1
        <5>2. PICK y \in 0 .. 7 : k = 8 * (ByteOf(k) - 1) + y
          BY <4>1
        <5> DEFINE a == ByteOf(i)
                   c == ByteOf(k)
        <5>3. a \in Nat /\ c \in Nat /\ i = 8 * (a - 1) + x /\ k = 8 * (c - 1) + y
          BY <4>1, <5>1, <5>2
        <5> HIDE DEF a, c
        <5>4. a - c <= 2
          BY <4>3, <5>3
        <5> QED
          BY <5>4 DEF a, c
      <4> QED
        BY <1>1, <2>1, <2>4, <4>1, <4>2, <4>4 DEF Field
    <3>2. fast = heard
      BY <3>1, FieldOnly
    <3> QED
      BY <2>1, <2>2, <3>2 DEF Accepted
  <2> QED
    BY <2>1, <2>3, <2>4
<1> QED
  BY <1>2, <1>3, <1>4

(* The check of tcpd --s, with the checksum that came in the packet, tells a
   packet damaged within 16 consecutive bits from an intact one, whatever its
   length and contents, if the damage is not across the front of chksum. *)
THEOREM Detection == Spec => []BurstIsDetected
  BY Invariance, InvDetects, PTL
===============================================================================

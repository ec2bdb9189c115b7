---------------------------- MODULE Alu816_proofs ----------------------------
(***************************************************************************)
(* Proofs about Alu816, for every 16-bit accumulator and operand: a word   *)
(* operation and its two byte operations chained by the carry agree, in    *)
(* either mode, and decimal addition and subtraction are exact.            *)
(*                                                                         *)
(* The first is long addition to the base 256 (BinarySplit): a difference  *)
(* is the sum with the complement (RawSplit), a decimal sum goes by digits *)
(* (DecimalSumIs), and in a decimal difference the carry between the bytes,*)
(* which is the binary one, is the borrow of the digits (BorrowAgrees).    *)
(* The second is addition in columns (SumInColumns, DifferenceInColumns).  *)
(*                                                                         *)
(* An operator whose parameters are the state and the numbers of a lemma   *)
(* stands for its conclusion, and the powers of two have names.            *)
(***************************************************************************)
EXTENDS Alu816, TLAPS

-----------------------------------------------------------------------------
(* Bytes and digits.                                                       *)

Byte == {n \in Nat : n < 256}
Word == {n \in Nat : n < 65536}
Nibble == 0 .. 15

\* The bytes of a word, and numbers of two and of four hexadecimal digits. The
\* powers of two are kept behind these names.
Low(n) == n % 256
High(n) == n \div 256
Pair(h, l) == 256 * h + l
Two(d1, d0) == 16 * d1 + d0
Four(d3, d2, d1, d0) == 4096 * d3 + 256 * d2 + 16 * d1 + d0
TopOfTwo(d) == 16 * d
TopOfFour(d) == 4096 * d

\* A number in terms of a divisor, in one way.
LEMMA ByteUnique ==
    ASSUME NEW h \in Int, NEW l \in Int, 0 <= l, l < 256, NEW n, n = 256 * h + l
    PROVE  n \div 256 = h /\ n % 256 = l
BY SMT

\* The same with digits.
LEMMA NibbleUnique ==
    ASSUME NEW h \in Int, NEW l \in Nibble, NEW n, n = 16 * h + l
    PROVE  n \div 16 = h /\ n % 16 = l
BY SMT DEF Nibble

\* The same with the top digit.
LEMMA PageUnique ==
    ASSUME NEW h \in Int, NEW l \in Int, 0 <= l, l < 4096, NEW n, n = 4096 * h + l
    PROVE  n \div 4096 = h
BY SMT

\* The two bytes of a word.
LEMMA HalvesOf ==
    ASSUME NEW n \in Word
    PROVE  /\ n % 256 \in Byte /\ n \div 256 \in Byte
           /\ n = 256 * (n \div 256) + (n % 256)
BY SMT DEF Word, Byte

\* A number made of four digits has those digits.
LEMMA DigitOf ==
    ASSUME NEW d0 \in Nibble, NEW d1 \in Nibble, NEW d2 \in Nibble, NEW d3 \in Nibble,
           NEW n, n = 4096 * d3 + 256 * d2 + 16 * d1 + d0
    PROVE  Digit(n, 0) = d0 /\ Digit(n, 1) = d1 /\ Digit(n, 2) = d2 /\ Digit(n, 3) = d3
<1>1. n \in Int /\ n \div 1 = n
  BY SMT DEF Nibble
<1>2. n % 16 = d0 /\ n \div 16 = 256 * d3 + 16 * d2 + d1
  <2>1. n = 16 * (256 * d3 + 16 * d2 + d1) + d0
    BY SMT DEF Nibble
  <2>. QED
    BY <2>1, NibbleUnique, SMT DEF Nibble
<1>3. (256 * d3 + 16 * d2 + d1) % 16 = d1
  <2>1. 256 * d3 + 16 * d2 + d1 = 16 * (16 * d3 + d2) + d1
    BY SMT DEF Nibble
  <2>. QED
    BY <2>1, NibbleUnique, SMT DEF Nibble
<1>4. n \div 256 = 16 * d3 + d2
  <2>1. n = 256 * (16 * d3 + d2) + (16 * d1 + d0)
    BY SMT DEF Nibble
  <2>. QED
    BY <2>1, ByteUnique, SMT DEF Nibble
<1>5. (16 * d3 + d2) % 16 = d2
  BY NibbleUnique, SMT DEF Nibble
<1>6. n \div 4096 = d3
  BY PageUnique, SMT DEF Nibble
<1>7. d3 % 16 = d3
  BY NibbleUnique, SMT DEF Nibble
<1>. QED
  BY <1>1, <1>2, <1>3, <1>4, <1>5, <1>6, <1>7, SMT DEF Digit, Sixteens

\* A word is made of four digits.
LEMMA DigitsOf ==
    ASSUME NEW n \in Word
    PROVE  \E d0, d1, d2, d3 \in Nibble : n = 4096 * d3 + 256 * d2 + 16 * d1 + d0
<1>1. n = 16 * (n \div 16) + (n % 16) /\ n % 16 \in Nibble /\ n \div 16 \in Nat
  BY SMT DEF Word, Nibble
<1>2. PICK m \in Nat : m = n \div 16
  BY <1>1, Zenon
<1>3. m = 16 * (m \div 16) + (m % 16) /\ m % 16 \in Nibble /\ m \div 16 \in Nat
  BY SMT DEF Nibble
<1>4. PICK k \in Nat : k = m \div 16
  BY <1>3, Zenon
<1>5. k = 16 * (k \div 16) + (k % 16) /\ k % 16 \in Nibble /\ k \div 16 \in Nat
  BY SMT DEF Nibble
<1>6. PICK j \in Nat : j = k \div 16
  BY <1>5, Zenon
<1>7. PICK d0 \in Nibble, d1 \in Nibble, d2 \in Nibble :
        n = 16 * m + d0 /\ m = 16 * k + d1 /\ k = 16 * j + d2
  <2>1. n = 16 * m + (n % 16) /\ m = 16 * k + (m % 16) /\ k = 16 * j + (k % 16)
    BY <1>1, <1>2, <1>3, <1>4, <1>5, <1>6, SMT
  <2>. QED
    BY <1>1, <1>3, <1>5, <2>1, Zenon
<1>8. n < 65536
  BY DEF Word
<1>9. j \in Nibble
  BY <1>7, <1>8, SMT DEF Nibble
<1>10. n = 4096 * j + 256 * d2 + 16 * d1 + d0
  BY <1>7, SMT DEF Nibble
<1>. WITNESS d0 \in Nibble, d1 \in Nibble, d2 \in Nibble, j \in Nibble
<1>. QED
  BY <1>10

-----------------------------------------------------------------------------
(* A decimal sum by its digits.                                            *)

Bound == 0 .. 31
Corrected(s) == Adjusted(s) % 16

\* The sum of two digits and a carry, its correction and its carry.
LEMMA SumDigit ==
    ASSUME NEW x \in Nibble, NEW y \in Nibble, NEW c \in 0 .. 1
    PROVE  /\ x + y + c \in Bound
           /\ Carried(x + y + c) \in 0 .. 1 /\ Corrected(x + y + c) \in Nibble
BY SMT DEF Nibble, Bound, Carried, Corrected, Adjusted

\* The digit and the carry of such a sum.
LEMMA CorrectedDigit ==
    ASSUME NEW s \in Bound
    PROVE  Corrected(s) \in Nibble /\ Carried(s) \in 0 .. 1 /\ s % 16 \in Nibble
BY SMT DEF Nibble, Bound, Carried, Corrected, Adjusted

DigitsAre(n, d0, d1, d2, d3) == n = Four(d3, d2, d1, d0)

\* The bytes of a number made of four digits.
LEMMA HalfDigits ==
    ASSUME NEW d0 \in Nibble, NEW d1 \in Nibble, NEW d2 \in Nibble, NEW d3 \in Nibble,
           NEW n, DigitsAre(n, d0, d1, d2, d3)
    PROVE  /\ n \in Word /\ n % 256 = 16 * d1 + d0 /\ n \div 256 = 16 * d3 + d2
           /\ n % 256 \in Byte /\ n \div 256 \in Byte
           /\ DigitsAre(n % 256, d0, d1, 0, 0) /\ DigitsAre(n \div 256, d2, d3, 0, 0)
<1>1. PICK h \in Nat, l \in Nat : h = 16 * d3 + d2 /\ l = 16 * d1 + d0
  BY SMT DEF Nibble
<1>2. h < 256 /\ l < 256 /\ n = 256 * h + l
  BY <1>1, SMT DEF Nibble, DigitsAre, Four
<1>3. n \div 256 = h /\ n % 256 = l
  BY <1>2, ByteUnique, SMT
<1>4. n \in Word
  BY <1>2, SMT DEF Word
<1>. QED
  BY <1>1, <1>2, <1>3, <1>4, SMT DEF Byte, DigitsAre, Four, Nibble

\* The digits of a word and of its two bytes.
LEMMA DigitsSplit ==
    ASSUME NEW x \in Word
    PROVE  /\ Digit(Low(x), 0) = Digit(x, 0) /\ Digit(Low(x), 1) = Digit(x, 1)
           /\ Digit(High(x), 0) = Digit(x, 2) /\ Digit(High(x), 1) = Digit(x, 3)
           /\ \A k \in 0 .. 3 : Digit(x, k) \in Nibble
           /\ DigitsAre(x, Digit(x, 0), Digit(x, 1), Digit(x, 2), Digit(x, 3))
<1>1. PICK d0 \in Nibble, d1 \in Nibble, d2 \in Nibble, d3 \in Nibble :
        DigitsAre(x, d0, d1, d2, d3)
  BY DigitsOf DEF DigitsAre, Four
<1>2. DigitsAre(Low(x), d0, d1, 0, 0) /\ DigitsAre(High(x), d2, d3, 0, 0)
  BY <1>1, HalfDigits DEF Low, High
<1>3. Digit(x, 0) = d0 /\ Digit(x, 1) = d1 /\ Digit(x, 2) = d2 /\ Digit(x, 3) = d3
  BY <1>1, DigitOf DEF DigitsAre, Four
<1>4. 0 \in Nibble
  BY SMT DEF Nibble
<1>5. Digit(Low(x), 0) = d0 /\ Digit(Low(x), 1) = d1
  BY <1>2, <1>4, DigitOf DEF DigitsAre, Four
<1>6. Digit(High(x), 0) = d2 /\ Digit(High(x), 1) = d3
  BY <1>2, <1>4, DigitOf DEF DigitsAre, Four
<1>7. \A k \in 0 .. 3 : Digit(x, k) \in Nibble
  <2>1. \A k \in 0 .. 3 : k = 0 \/ k = 1 \/ k = 2 \/ k = 3
    BY SMT
  <2>. QED
    BY <1>3, <2>1, Zenon
<1>8. DigitsAre(x, Digit(x, 0), Digit(x, 1), Digit(x, 2), Digit(x, 3))
  BY <1>1, <1>3, Zenon
<1>. QED
  BY <1>3, <1>5, <1>6, <1>7, <1>8, Zenon

\* What DecimalSum returns, in terms of its digit sums.
ByteSum(s0, s1) ==
    [n |-> Two(Corrected(s1), Corrected(s0)), v |-> TopOfTwo(s1 % 16), out |-> Carried(s1)]
WordSum(s0, s1, s2, s3) ==
    [n |-> Four(Corrected(s3), Corrected(s2), Corrected(s1), Corrected(s0)),
     v |-> TopOfFour(s3 % 16), out |-> Carried(s3)]

DigitSums(x, y, c, s0, s1, s2, s3) ==
    /\ s0 = Digit(x, 0) + Digit(y, 0) + c
    /\ s1 = Digit(x, 1) + Digit(y, 1) + Carried(s0)
    /\ s2 = Digit(x, 2) + Digit(y, 2) + Carried(s1)
    /\ s3 = Digit(x, 3) + Digit(y, 3) + Carried(s2)

DecimalSums(x, y, c, s0, s1, s2, s3) ==
    /\ DecimalSum(Low(x), Low(y), c, TRUE) = ByteSum(s0, s1)
    /\ DecimalSum(High(x), High(y), Carried(s1), TRUE) = ByteSum(s2, s3)
    /\ DecimalSum(x, y, c, FALSE) = WordSum(s0, s1, s2, s3)
    /\ s0 \in Bound /\ s1 \in Bound /\ s2 \in Bound /\ s3 \in Bound

\* DecimalSum on words and on their bytes, from the same digit sums.
LEMMA DecimalSumIs ==
    ASSUME NEW x \in Word, NEW y \in Word, NEW c \in 0 .. 1, NEW s0, NEW s1, NEW s2, NEW s3,
           DigitSums(x, y, c, s0, s1, s2, s3)
    PROVE  DecimalSums(x, y, c, s0, s1, s2, s3)
<1>1. PICK xl, xh, yl, yh : xl = Low(x) /\ xh = High(x) /\ yl = Low(y) /\ yh = High(y)
  OBVIOUS
<1>2. /\ Digit(xl, 0) = Digit(x, 0) /\ Digit(xl, 1) = Digit(x, 1)
      /\ Digit(xh, 0) = Digit(x, 2) /\ Digit(xh, 1) = Digit(x, 3)
      /\ Digit(yl, 0) = Digit(y, 0) /\ Digit(yl, 1) = Digit(y, 1)
      /\ Digit(yh, 0) = Digit(y, 2) /\ Digit(yh, 1) = Digit(y, 3)
  BY <1>1, DigitsSplit, Zenon
<1>3. DecimalSum(xl, yl, c, TRUE) = ByteSum(s0, s1)
  BY <1>2 DEF DecimalSum, DigitSums, ByteSum, Corrected, Two, TopOfTwo
<1>4. DecimalSum(xh, yh, Carried(s1), TRUE) = ByteSum(s2, s3)
  BY <1>2 DEF DecimalSum, DigitSums, ByteSum, Corrected, Two, TopOfTwo
<1>5. DecimalSum(x, y, c, FALSE) = WordSum(s0, s1, s2, s3)
  BY DEF DecimalSum, DigitSums, WordSum, Corrected, Four, Two, TopOfFour
<1>6. s0 \in Bound /\ s1 \in Bound /\ s2 \in Bound /\ s3 \in Bound
  <2>1. \A k \in 0 .. 3 : Digit(x, k) \in Nibble /\ Digit(y, k) \in Nibble
    BY DigitsSplit, Zenon
  <2>2. /\ Digit(x, 0) \in Nibble /\ Digit(x, 1) \in Nibble
        /\ Digit(x, 2) \in Nibble /\ Digit(x, 3) \in Nibble
        /\ Digit(y, 0) \in Nibble /\ Digit(y, 1) \in Nibble
        /\ Digit(y, 2) \in Nibble /\ Digit(y, 3) \in Nibble
    BY <2>1, SMT
  <2>3. s0 \in Bound /\ Carried(s0) \in 0 .. 1
    BY <2>2, SumDigit, Zenon DEF DigitSums
  <2>4. s1 \in Bound /\ Carried(s1) \in 0 .. 1
    BY <2>3, <2>2, SumDigit, Zenon DEF DigitSums
  <2>5. s2 \in Bound /\ Carried(s2) \in 0 .. 1
    BY <2>4, <2>2, SumDigit, Zenon DEF DigitSums
  <2>6. s3 \in Bound
    BY <2>5, <2>2, SumDigit, Zenon DEF DigitSums
  <2>. QED
    BY <2>3, <2>4, <2>5, <2>6
<1>. QED
  BY <1>1, <1>3, <1>4, <1>5, <1>6, Zenon DEF DecimalSums

-----------------------------------------------------------------------------
(* ADC of a word by its bytes.                                             *)

\* The result of a sum, the number V looks at, and the carry.
SumN(x, y, q, w8) ==
    IF "D" \in q THEN DecimalSum(x, y, Bit(q, "C"), w8).n ELSE x + y + Bit(q, "C")
SumV(x, y, q, w8) ==
    IF "D" \in q THEN DecimalSum(x, y, Bit(q, "C"), w8).v ELSE x + y + Bit(q, "C")
SumOut(x, y, q, w8) ==
    IF "D" \in q THEN DecimalSum(x, y, Bit(q, "C"), w8).out = 1
    ELSE x + y + Bit(q, "C") >= Size(w8)

Overflowed(x, y, v, w8) ==
    Negative(x, w8) = Negative(y, w8) /\ Negative(x, w8) # Negative(v, w8)

\* V and C as bits, and the flags ADC and SBC leave but for N and Z.
OverflowBit(x, y, v, w8) == IF Overflowed(x, y, v, w8) THEN 1 ELSE 0
CarryOut(x, y, q, w8) == IF SumOut(x, y, q, w8) THEN 1 ELSE 0
SumFlags(q, v, out) == Put(Put(q, "V", v = 1), "C", out = 1)
SumState(acc, x, y, q, w8) ==
    Result(acc, SumFlags(q, OverflowBit(x, y, SumV(x, y, q, w8), w8), CarryOut(x, y, q, w8)),
           SumN(x, y, q, w8), w8)

\* The carry as a bit.
LEMMA CarryOutIs ==
    ASSUME NEW x, NEW y, NEW q, NEW w8
    PROVE  SumOut(x, y, q, w8) <=> CarryOut(x, y, q, w8) = 1
BY SMT DEF CarryOut

\* ADC by its parts.
LEMMA AdcIs ==
    ASSUME NEW acc, NEW q, NEW operand, NEW w8
    PROVE  ADC(acc, q, operand, w8)
             = SumState(acc, acc % Size(w8), operand % Size(w8), q, w8)
<1>1. PICK x, y : x = acc % Size(w8) /\ y = operand % Size(w8)
  OBVIOUS
<1>2. PICK f : f = Put(Put(q, "V", Overflowed(x, y, SumV(x, y, q, w8), w8)),
                       "C", SumOut(x, y, q, w8))
  OBVIOUS
<1>3. ADC(acc, q, operand, w8) = Result(acc, f, SumN(x, y, q, w8), w8)
  <2>1. CASE "D" \in q
    BY <1>1, <1>2, <2>1, Zenon DEF ADC, SumN, SumV, SumOut, Overflowed
  <2>2. CASE "D" \notin q
    BY <1>1, <1>2, <2>2, Zenon DEF ADC, SumN, SumV, SumOut, Overflowed
  <2>. QED
    BY <2>1, <2>2
<1>4. f = SumFlags(q, OverflowBit(x, y, SumV(x, y, q, w8), w8), CarryOut(x, y, q, w8))
  <2>1. Overflowed(x, y, SumV(x, y, q, w8), w8)
          <=> OverflowBit(x, y, SumV(x, y, q, w8), w8) = 1
    BY SMT DEF OverflowBit
  <2>2. SumOut(x, y, q, w8) <=> CarryOut(x, y, q, w8) = 1
    BY CarryOutIs
  <2>. QED
    BY <1>2, <2>1, <2>2, Zenon DEF SumFlags, Put
<1>. QED
  BY <1>1, <1>3, <1>4, Zenon DEF SumState

\* The top bit of a byte and of a word, and a carry out of them.
HighByte(n) == n % 256 >= 128
HighWord(n) == n % 65536 >= 32768
OverByte(n) == n >= 256
OverWord(n) == n >= 65536
Word16(n) == n % 65536
Joins(h, l, w) == Word16(w) = Pair(Low(h), Low(l))

\* The sign, of a byte and of a word.
LEMMA NegativeIs ==
    ASSUME NEW n \in Int
    PROVE  /\ Negative(n, FALSE) \in BOOLEAN /\ Negative(n, TRUE) \in BOOLEAN
           /\ (Negative(n, FALSE) <=> HighWord(n)) /\ (Negative(n, TRUE) <=> HighByte(n))
BY SMT DEF Negative, Size, HighByte, HighWord

\* The sign of a word is that of its high byte.
LEMMA NegativeSplit ==
    ASSUME NEW w \in Int, NEW h \in Int, NEW l \in Int, Joins(h, l, w)
    PROVE  Negative(w, FALSE) = Negative(h, TRUE)
<1>1. PICK m \in Int, k \in Int : m = h % 256 /\ k = l % 256 /\ 0 <= k /\ k < 256
  BY SMT
<1>2. w % 65536 = 256 * m + k
  BY <1>1, SMT DEF Joins, Pair, Low, Word16
<1>3. HighWord(w) <=> HighByte(h)
  BY <1>1, <1>2, SMT DEF HighWord, HighByte
<1>4. Negative(w, FALSE) <=> Negative(h, TRUE)
  BY <1>3, NegativeIs, Zenon
<1>. QED
  BY <1>4, NegativeIs, Zenon

\* Addition in base 256: the sums of the low and of the high bytes.
LongSum(xl, xh, yl, yh, c, l, h, r) ==
    /\ l = xl + yl + c
    /\ h = xh + yh + (IF OverByte(l) THEN 1 ELSE 0)
    /\ r = Pair(xh, xl) + Pair(yh, yl) + c

\* A long addition to the base 256: result, carry and digits.
LEMMA BinarySplit ==
    ASSUME NEW xl \in Byte, NEW xh \in Byte, NEW yl \in Byte, NEW yh \in Byte,
           NEW c \in 0 .. 1, NEW l, NEW h, NEW r, LongSum(xl, xh, yl, yh, c, l, h, r)
    PROVE  /\ r \in Int /\ l \in Int /\ h \in Int
           /\ Joins(h, l, r)
           /\ OverWord(r) <=> OverByte(h)
<1>1. PICK l1 \in 0 .. 1, l0 \in Byte : l = 256 * l1 + l0
  <2>1. l \in Nat /\ l < 512
    BY SMT DEF Byte, LongSum
  <2>2. CASE l < 256
    <3>1. l = 256 * 0 + l /\ l \in Byte
      BY <2>1, <2>2, SMT DEF Byte
    <3>. QED
      BY <3>1, SMT
  <2>3. CASE l >= 256
    <3>1. l = 256 * 1 + (l - 256) /\ l - 256 \in Byte
      BY <2>1, <2>3, SMT DEF Byte
    <3>. QED
      BY <3>1, SMT
  <2>. QED
    BY <2>1, <2>2, <2>3, SMT
<1>2. h = xh + yh + l1
  BY <1>1, SMT DEF Byte, OverByte, LongSum
<1>3. PICK h1 \in 0 .. 1, h0 \in Byte : h = 256 * h1 + h0
  <2>1. h \in Nat /\ h < 512
    BY <1>2, SMT DEF Byte
  <2>2. CASE h < 256
    <3>1. h = 256 * 0 + h /\ h \in Byte
      BY <2>1, <2>2, SMT DEF Byte
    <3>. QED
      BY <3>1, SMT
  <2>3. CASE h >= 256
    <3>1. h = 256 * 1 + (h - 256) /\ h - 256 \in Byte
      BY <2>1, <2>3, SMT DEF Byte
    <3>. QED
      BY <3>1, SMT
  <2>. QED
    BY <2>1, <2>2, <2>3, SMT
<1>4. l % 256 = l0 /\ h % 256 = h0
  <2>1. l % 256 = l0
    BY <1>1, SMT DEF Byte
  <2>2. h % 256 = h0
    BY <1>3, SMT DEF Byte
  <2>. QED
    BY <2>1, <2>2
<1>5. r = 65536 * h1 + (256 * h0 + l0)
  BY <1>1, <1>2, <1>3, SMT DEF Byte, Pair, LongSum
<1>6. Joins(h, l, r)
  <2>1. r % 65536 = 256 * h0 + l0
    BY <1>5, SMT DEF Byte
  <2>. QED
    BY <1>4, <2>1, SMT DEF Joins, Pair, Low, Word16
<1>7. OverWord(r) <=> OverByte(h)
  BY <1>3, <1>5, SMT DEF Byte, OverWord, OverByte
<1>8. r \in Int /\ l \in Int /\ h \in Int
  BY <1>1, <1>3, <1>5, SMT DEF Byte
<1>. QED
  BY <1>6, <1>7, <1>8, Zenon

\* What the two halves of a sum leave: the low half's number, the high half's
\* number, signed number and carry, and the whole's.
SplitOK(ln, hn, hv, hout, wn, wv, wout) ==
    /\ ln \in Int /\ hn \in Int /\ wn \in Int
    /\ Joins(hn, ln, wn)
    /\ Negative(wn, FALSE) = Negative(hn, TRUE)
    /\ Negative(wv, FALSE) = Negative(hv, TRUE)
    /\ wout = hout

\* The binary sum of two words by their bytes.
LEMMA BinarySumSplit ==
    ASSUME NEW xl \in Byte, NEW xh \in Byte, NEW yl \in Byte, NEW yh \in Byte,
           NEW q, NEW q2, "D" \notin q, "D" \notin q2,
           "C" \in q2 <=> CarryOut(xl, yl, q, TRUE) = 1,
           NEW x, x = Pair(xh, xl), NEW y, y = Pair(yh, yl)
    PROVE  SplitOK(SumN(xl, yl, q, TRUE), SumN(xh, yh, q2, TRUE), SumV(xh, yh, q2, TRUE),
                   CarryOut(xh, yh, q2, TRUE), SumN(x, y, q, FALSE), SumV(x, y, q, FALSE),
                   CarryOut(x, y, q, FALSE))
<1>1. PICK c \in 0 .. 1 : c = Bit(q, "C")
  BY SMT DEF Bit
<1>2. PICK l : l = xl + yl + c
  OBVIOUS
<1>3. SumN(xl, yl, q, TRUE) = l /\ (SumOut(xl, yl, q, TRUE) <=> OverByte(l))
  BY <1>1, <1>2, SMT DEF SumN, SumOut, Size, OverByte
<1>4. PICK b : b = Bit(q2, "C")
  OBVIOUS
<1>5. PICK h : h = xh + yh + b
  OBVIOUS
<1>6. SumN(xh, yh, q2, TRUE) = h /\ SumV(xh, yh, q2, TRUE) = h
  BY <1>4, <1>5, Zenon DEF SumN, SumV
<1>7. SumOut(xh, yh, q2, TRUE) <=> OverByte(h)
  BY <1>4, <1>5, SMT DEF SumOut, Size, OverByte
<1>8. PICK r : r = x + y + c
  OBVIOUS
<1>9. SumN(x, y, q, FALSE) = r /\ SumV(x, y, q, FALSE) = r
  BY <1>1, <1>8, Zenon DEF SumN, SumV
<1>10. SumOut(x, y, q, FALSE) <=> OverWord(r)
  BY <1>1, <1>8, SMT DEF SumOut, Size, OverWord
<1>11. /\ r \in Int /\ l \in Int /\ h \in Int
       /\ Joins(h, l, r)
       /\ OverWord(r) <=> OverByte(h)
  <2>1. b = IF OverByte(l) THEN 1 ELSE 0
    <3>1. "C" \in q2 <=> SumOut(xl, yl, q, TRUE)
      BY CarryOutIs
    <3>. QED
      BY <1>3, <1>4, <3>1, Zenon DEF Bit
  <2>2. h = xh + yh + (IF OverByte(l) THEN 1 ELSE 0)
    BY <1>5, <2>1, Zenon
  <2>3. r = Pair(xh, xl) + Pair(yh, yl) + c
    BY <1>8, Zenon
  <2>4. LongSum(xl, xh, yl, yh, c, l, h, r)
    BY <1>2, <2>2, <2>3, Zenon DEF LongSum
  <2>. QED
    BY <2>4, BinarySplit, Zenon
<1>12. Negative(r, FALSE) = Negative(h, TRUE)
  BY <1>11, NegativeSplit, Zenon
<1>13. CarryOut(x, y, q, FALSE) = CarryOut(xh, yh, q2, TRUE)
  BY <1>7, <1>10, <1>11, Zenon DEF CarryOut
<1>. QED
  BY <1>3, <1>6, <1>9, <1>11, <1>12, <1>13, Zenon DEF SplitOK

FourSplits(e3, e2, e1, e0) ==
    /\ Two(e1, e0) \in Int /\ Two(e3, e2) \in Int /\ Four(e3, e2, e1, e0) \in Int
    /\ Joins(Two(e3, e2), Two(e1, e0), Four(e3, e2, e1, e0))
    /\ Negative(Four(e3, e2, e1, e0), FALSE) = Negative(Two(e3, e2), TRUE)

\* Four digits as two bytes of two.
LEMMA DecimalNegative ==
    ASSUME NEW e0 \in Nibble, NEW e1 \in Nibble, NEW e2 \in Nibble, NEW e3 \in Nibble
    PROVE  FourSplits(e3, e2, e1, e0)
<1>0. PICK l, h, w : l = Two(e1, e0) /\ h = Two(e3, e2) /\ w = Four(e3, e2, e1, e0)
  OBVIOUS
<1>1. h \in Byte /\ l \in Byte /\ w \in Word /\ w = 256 * h + l
  BY <1>0, SMT DEF Nibble, Byte, Word, Two, Four
<1>2. h % 256 = h /\ l % 256 = l /\ w % 65536 = w
  BY <1>1, SMT DEF Byte, Word
<1>3. Joins(h, l, w)
  BY <1>1, <1>2, SMT DEF Joins, Pair, Low, Word16
<1>4. h \in Int /\ l \in Int /\ w \in Int
  BY <1>1, SMT DEF Byte, Word
<1>. QED
  BY <1>0, <1>3, <1>4, NegativeSplit, Zenon DEF FourSplits

\* The decimal sum of two words by their bytes.
LEMMA DecimalSumSplit ==
    ASSUME NEW x \in Word, NEW y \in Word, NEW q, NEW q2, "D" \in q, "D" \in q2,
           NEW xl, xl = Low(x), NEW xh, xh = High(x),
           NEW yl, yl = Low(y), NEW yh, yh = High(y),
           "C" \in q2 <=> CarryOut(xl, yl, q, TRUE) = 1
    PROVE  SplitOK(SumN(xl, yl, q, TRUE), SumN(xh, yh, q2, TRUE), SumV(xh, yh, q2, TRUE),
                   CarryOut(xh, yh, q2, TRUE), SumN(x, y, q, FALSE), SumV(x, y, q, FALSE),
                   CarryOut(x, y, q, FALSE))
<1>1. PICK c \in 0 .. 1 : c = Bit(q, "C")
  BY SMT DEF Bit
<1>2. PICK s0, s1, s2, s3 : DigitSums(x, y, c, s0, s1, s2, s3)
  BY DEF DigitSums
<1>6. /\ DecimalSum(xl, yl, c, TRUE) = ByteSum(s0, s1)
      /\ DecimalSum(xh, yh, Carried(s1), TRUE) = ByteSum(s2, s3)
      /\ DecimalSum(x, y, c, FALSE) = WordSum(s0, s1, s2, s3)
      /\ s0 \in Bound /\ s1 \in Bound /\ s2 \in Bound /\ s3 \in Bound
  <2>1. /\ DecimalSum(Low(x), Low(y), c, TRUE) = ByteSum(s0, s1)
        /\ DecimalSum(High(x), High(y), Carried(s1), TRUE) = ByteSum(s2, s3)
        /\ DecimalSum(x, y, c, FALSE) = WordSum(s0, s1, s2, s3)
        /\ s0 \in Bound /\ s1 \in Bound /\ s2 \in Bound /\ s3 \in Bound
    BY <1>2, DecimalSumIs DEF DecimalSums
  <2>. QED
    BY <2>1
<1>7. PICK e0 \in Nibble, e1 \in Nibble, e2 \in Nibble, e3 \in Nibble, u \in Nibble :
        /\ e0 = Corrected(s0) /\ e1 = Corrected(s1) /\ e2 = Corrected(s2)
        /\ e3 = Corrected(s3) /\ u = s3 % 16
  BY <1>6, CorrectedDigit, Zenon
<1>8. /\ ByteSum(s0, s1).n = Two(e1, e0) /\ ByteSum(s0, s1).out = Carried(s1)
      /\ ByteSum(s2, s3).n = Two(e3, e2) /\ ByteSum(s2, s3).v = TopOfTwo(u)
      /\ ByteSum(s2, s3).out = Carried(s3)
  BY <1>7, Zenon DEF ByteSum
<1>9. LET s == WordSum(s0, s1, s2, s3)
      IN  /\ s.n = Four(e3, e2, e1, e0)
          /\ s.v = TopOfFour(u) /\ s.out = Carried(s3)
  BY <1>7, Zenon DEF WordSum
<1>10. SumN(xl, yl, q, TRUE) = Two(e1, e0) /\ (SumOut(xl, yl, q, TRUE) <=> Carried(s1) = 1)
  BY <1>1, <1>6, <1>8, Zenon DEF SumN, SumOut
<1>11. Bit(q2, "C") = Carried(s1)
  <2>1. Carried(s1) = 0 \/ Carried(s1) = 1
    BY Zenon DEF Carried
  <2>2. "C" \in q2 <=> Carried(s1) = 1
    BY <1>10, CarryOutIs
  <2>. QED
    BY <2>1, <2>2, SMT DEF Bit
<1>12. /\ SumN(xh, yh, q2, TRUE) = Two(e3, e2) /\ SumV(xh, yh, q2, TRUE) = TopOfTwo(u)
       /\ SumOut(xh, yh, q2, TRUE) <=> Carried(s3) = 1
  BY <1>11, <1>6, <1>8, Zenon DEF SumN, SumV, SumOut
<1>13. /\ SumN(x, y, q, FALSE) = Four(e3, e2, e1, e0)
       /\ SumV(x, y, q, FALSE) = TopOfFour(u)
       /\ SumOut(x, y, q, FALSE) <=> Carried(s3) = 1
  BY <1>1, <1>6, <1>9, Zenon DEF SumN, SumV, SumOut
<1>14. PICK l, h, w, hv, wv :
         /\ l = Two(e1, e0) /\ h = Two(e3, e2)
         /\ w = Four(e3, e2, e1, e0)
         /\ hv = TopOfTwo(u) /\ wv = TopOfFour(u)
  OBVIOUS
<1>15. /\ h \in Int /\ l \in Int /\ w \in Int
       /\ Joins(h, l, w) /\ Negative(w, FALSE) = Negative(h, TRUE)
  <2>1. FourSplits(e3, e2, e1, e0)
    BY DecimalNegative
  <2>. QED
    BY <1>14, <2>1, Zenon DEF FourSplits
<1>16. Negative(wv, FALSE) = Negative(hv, TRUE)
  <2>1. /\ Joins(hv, 0, wv)
        /\ wv \in Int /\ hv \in Int /\ 0 \in Int
    BY <1>14, SMT DEF Nibble, Joins, Pair, Low, Word16, TopOfTwo, TopOfFour
  <2>. QED
    BY <2>1, NegativeSplit, Zenon
<1>17. /\ SumN(xl, yl, q, TRUE) = l /\ SumN(xh, yh, q2, TRUE) = h
       /\ SumN(x, y, q, FALSE) = w
       /\ SumV(xh, yh, q2, TRUE) = hv /\ SumV(x, y, q, FALSE) = wv
  BY <1>10, <1>12, <1>13, <1>14, Zenon
<1>18. CarryOut(x, y, q, FALSE) = CarryOut(xh, yh, q2, TRUE)
  BY <1>12, <1>13, Zenon DEF CarryOut
<1>. QED
  BY <1>15, <1>16, <1>17, <1>18, Zenon DEF SplitOK

\* The sum in either mode.
LEMMA SumSplit ==
    ASSUME NEW x \in Word, NEW y \in Word, NEW q, NEW q2, "D" \in q2 <=> "D" \in q,
           NEW xl, xl = Low(x), NEW xh, xh = High(x),
           NEW yl, yl = Low(y), NEW yh, yh = High(y),
           "C" \in q2 <=> CarryOut(xl, yl, q, TRUE) = 1
    PROVE  SplitOK(SumN(xl, yl, q, TRUE), SumN(xh, yh, q2, TRUE), SumV(xh, yh, q2, TRUE),
                   CarryOut(xh, yh, q2, TRUE), SumN(x, y, q, FALSE), SumV(x, y, q, FALSE),
                   CarryOut(x, y, q, FALSE))
<1>1. CASE "D" \in q
  BY <1>1, DecimalSumSplit, Zenon
<1>2. CASE "D" \notin q
  <2>1. /\ xl \in Byte /\ xh \in Byte /\ x = Pair(xh, xl)
        /\ yl \in Byte /\ yh \in Byte /\ y = Pair(yh, yl)
    BY HalvesOf DEF Low, High, Pair
  <2>2. "D" \notin q2
    BY <1>2
  <2>. QED
    BY <1>2, <2>1, <2>2, BinarySumSplit, Zenon
<1>. QED
  BY <1>1, <1>2

-----------------------------------------------------------------------------
(* Two 8-bit operations and one 16-bit one.                                *)

\* The low byte of an 8-bit result merged into A.
LEMMA MergeLow ==
    ASSUME NEW acc \in Int, NEW n \in Int
    PROVE  Low(Merge(acc, n, TRUE)) = Low(n)
<1>1. PICK h \in Int, k \in Int : h = acc \div 256 /\ k = n % 256 /\ 0 <= k /\ k < 256
  BY SMT
<1>2. Merge(acc, n, TRUE) = 256 * h + k
  BY <1>1 DEF Merge
<1>3. (256 * h + k) % 256 = k
  BY <1>1, SMT
<1>. QED
  BY <1>1, <1>2, <1>3, ZenonT(60) DEF Low

\* The state Result returns, by its parts.
LEMMA ResultA ==
    ASSUME NEW acc, NEW f, NEW n, NEW w8
    PROVE  Result(acc, f, n, w8).a = Merge(acc, n, w8)
BY DEF Result

\* N follows the result.
LEMMA ResultN ==
    ASSUME NEW acc, NEW f, NEW n, NEW w8
    PROVE  "N" \in Result(acc, f, n, w8).p <=> Negative(n, w8)
<1>1. Result(acc, f, n, w8).p = Put(Put(f, "Z", n % Size(w8) = 0), "N", Negative(n, w8))
  BY DEF Result, setZN
<1>. QED
  BY <1>1, Zenon DEF Put

\* The flags but N and Z stay.
LEMMA ResultKeeps ==
    ASSUME NEW acc, NEW f, NEW n, NEW w8, NEW g, g # "N", g # "Z"
    PROVE  g \in Result(acc, f, n, w8).p <=> g \in f
<1>1. Result(acc, f, n, w8).p = Put(Put(f, "Z", n % Size(w8) = 0), "N", Negative(n, w8))
  BY DEF Result, setZN
<1>. QED
  BY <1>1, Zenon DEF Put

\* A word result takes the whole accumulator.
LEMMA MergeWord ==
    ASSUME NEW acc, NEW n \in Int
    PROVE  Merge(acc, n, FALSE) = Word16(n)
BY DEF Merge, Word16

\* The same flags, but for those every result sets.
Alike(f2, f3) == \A g : g # "N" /\ g # "Z" => (g \in f2 <=> g \in f3)

HalvesMake(x, f1, n1, f2, n2, f3, n3) ==
    Halves(Result(Low(x), f1, n1, TRUE), Result(High(x), f2, n2, TRUE))
      = Whole(Result(x, f3, n3, FALSE))

\* Two byte results that join to the word result leave the same state.
LEMMA HalvesAgree ==
    ASSUME NEW x \in Word, NEW f1, NEW f2, NEW f3, NEW n1 \in Int, NEW n2 \in Int, NEW n3 \in Int,
           Joins(n2, n1, n3), Negative(n3, FALSE) = Negative(n2, TRUE),
           Alike(f2, f3)
    PROVE  HalvesMake(x, f1, n1, f2, n2, f3, n3)
<1>0. PICK low, high, whole :
        /\ low = Result(Low(x), f1, n1, TRUE) /\ high = Result(High(x), f2, n2, TRUE)
        /\ whole = Result(x, f3, n3, FALSE)
  OBVIOUS
<1>1. Low(x) \in Int /\ High(x) \in Int
  BY HalvesOf, SMT DEF Low, High, Byte
<1>2. low.a = Merge(Low(x), n1, TRUE) /\ high.a = Merge(High(x), n2, TRUE)
  BY <1>0, ResultA, Zenon
<1>3. Low(low.a) = Low(n1) /\ Low(high.a) = Low(n2)
  <2>1. Low(Merge(Low(x), n1, TRUE)) = Low(n1)
    BY <1>1, MergeLow
  <2>2. Low(Merge(High(x), n2, TRUE)) = Low(n2)
    BY <1>1, MergeLow
  <2>. QED
    BY <1>2, <2>1, <2>2
<1>4. whole.a = Word16(n3)
  <2>1. whole.a = Merge(x, n3, FALSE)
    BY <1>0, ResultA, Zenon
  <2>2. Merge(x, n3, FALSE) = Word16(n3)
    BY MergeWord
  <2>. QED
    BY <2>1, <2>2
<1>5. whole.a = Pair(Low(high.a), Low(low.a))
  BY <1>3, <1>4, Zenon DEF Joins
<1>6. ASSUME NEW g, g # "Z"
      PROVE  g \in high.p <=> g \in whole.p
  <2>1. CASE g = "N"
    <3>1. ("N" \in high.p <=> Negative(n2, TRUE)) /\ ("N" \in whole.p <=> Negative(n3, FALSE))
      BY <1>0, ResultN, Zenon
    <3>. QED
      BY <2>1, <3>1, Zenon
  <2>2. CASE g # "N"
    <3>1. (g \in high.p <=> g \in f2) /\ (g \in whole.p <=> g \in f3)
      BY <1>0, <1>6, <2>2, ResultKeeps, Zenon
    <3>. QED
      BY <1>6, <2>2, <3>1, Zenon DEF Alike
  <2>. QED
    BY <2>1, <2>2
<1>7. high.p \ {"Z"} = whole.p \ {"Z"}
  BY <1>6, Zenon
<1>8. Halves(low, high) = [a |-> Pair(Low(high.a), Low(low.a)), p |-> high.p \ {"Z"}]
  BY DEF Halves, Pair, Low
<1>. QED
  BY <1>0, <1>5, <1>7, <1>8, Zenon DEF Whole, HalvesMake

\* What an operation at each width sees of a word, and its sign.
LEMMA LowBits ==
    ASSUME NEW x \in Word
    PROVE  /\ Low(x) = Low(x) % Size(TRUE) /\ High(x) = High(x) % Size(TRUE)
           /\ x = x % Size(FALSE)
           /\ Negative(x, FALSE) = Negative(High(x), TRUE)
<1>1. Low(x) \in Byte /\ High(x) \in Byte /\ x = 256 * High(x) + Low(x)
  BY HalvesOf DEF Low, High
<1>2. Low(x) % 256 = Low(x) /\ High(x) % 256 = High(x) /\ x % 65536 = x
  BY <1>1, SMT DEF Byte, Word
<1>3. Joins(High(x), Low(x), x)
  <2>1. Low(Low(x)) = Low(x) /\ Low(High(x)) = High(x)
    BY <1>2 DEF Low
  <2>. QED
    BY <1>1, <1>2, <2>1, SMT DEF Joins, Pair, Word16
<1>4. Low(x) \in Int /\ High(x) \in Int /\ x \in Int
  BY <1>1, SMT DEF Byte, Word
<1>5. Negative(x, FALSE) = Negative(High(x), TRUE)
  BY <1>3, <1>4, NegativeSplit, Zenon
<1>6. /\ Low(x) = Low(x) % Size(TRUE) /\ High(x) = High(x) % Size(TRUE)
      /\ x = x % Size(FALSE)
  BY <1>2, <1>4, SMT DEF Size
<1>. QED
  BY <1>5, <1>6, Zenon

\* The carry flag after a sum.
LEMMA SumFlagsC ==
    ASSUME NEW q, NEW v, NEW out
    PROVE  "C" \in SumFlags(q, v, out) <=> out = 1
BY Zenon DEF SumFlags, Put

\* The flags a sum leaves alone.
LEMMA SumFlagsKeeps ==
    ASSUME NEW q, NEW v, NEW out, NEW g, g # "C", g # "V"
    PROVE  g \in SumFlags(q, v, out) <=> g \in q
BY Zenon DEF SumFlags, Put

\* Equal bits make equal flags.
LEMMA SumFlagsAgree ==
    ASSUME NEW q2, NEW q3, NEW v, NEW out,
           \A g : g # "N" /\ g # "Z" /\ g # "V" /\ g # "C" => (g \in q2 <=> g \in q3)
    PROVE  Alike(SumFlags(q2, v, out), SumFlags(q3, v, out))
BY Zenon DEF SumFlags, Put, Alike

\* ADC of a word is ADC of its bytes, for every accumulator and operand.
LEMMA SumsAgreeAt ==
    ASSUME a \in Word, NEW v \in Word
    PROVE  SumsAgree(v)
<1>1. PICK low : low = ADC(Low(a), accP, Low(v), TRUE)
  OBVIOUS
<1>2. PICK high : high = ADC(High(a), low.p, High(v), TRUE)
  OBVIOUS
<1>3. PICK whole : whole = ADC(a, accP, v, FALSE)
  OBVIOUS
<1>4. PICK xl, xh, yl, yh : xl = Low(a) /\ xh = High(a) /\ yl = Low(v) /\ yh = High(v)
  OBVIOUS
<1>5. PICK v1, v2, v3, c1, c2, c3 :
        /\ v1 = OverflowBit(xl, yl, SumV(xl, yl, accP, TRUE), TRUE)
        /\ v2 = OverflowBit(xh, yh, SumV(xh, yh, low.p, TRUE), TRUE)
        /\ v3 = OverflowBit(a, v, SumV(a, v, accP, FALSE), FALSE)
        /\ c1 = CarryOut(xl, yl, accP, TRUE) /\ c2 = CarryOut(xh, yh, low.p, TRUE)
        /\ c3 = CarryOut(a, v, accP, FALSE)
  OBVIOUS
<1>6. low = Result(xl, SumFlags(accP, v1, c1), SumN(xl, yl, accP, TRUE), TRUE)
  <2>1. low = SumState(xl, xl % Size(TRUE), yl % Size(TRUE), accP, TRUE)
    BY <1>1, <1>4, AdcIs, Zenon
  <2>2. low = SumState(xl, xl, yl, accP, TRUE)
    BY <1>4, <2>1, LowBits, Zenon
  <2>. QED
    BY <1>5, <2>2, Zenon DEF SumState
<1>7. high = Result(xh, SumFlags(low.p, v2, c2), SumN(xh, yh, low.p, TRUE), TRUE)
  <2>1. high = SumState(xh, xh % Size(TRUE), yh % Size(TRUE), low.p, TRUE)
    BY <1>2, <1>4, AdcIs, Zenon
  <2>2. high = SumState(xh, xh, yh, low.p, TRUE)
    BY <1>4, <2>1, LowBits, Zenon
  <2>. QED
    BY <1>5, <2>2, Zenon DEF SumState
<1>8. whole = Result(a, SumFlags(accP, v3, c3), SumN(a, v, accP, FALSE), FALSE)
  <2>1. whole = SumState(a, a % Size(FALSE), v % Size(FALSE), accP, FALSE)
    BY <1>3, AdcIs, Zenon
  <2>2. whole = SumState(a, a, v, accP, FALSE)
    BY <2>1, LowBits, Zenon
  <2>. QED
    BY <1>5, <2>2, Zenon DEF SumState
<1>9. /\ "D" \in low.p <=> "D" \in accP
      /\ "C" \in low.p <=> c1 = 1
      /\ \A g : g # "N" /\ g # "Z" /\ g # "V" /\ g # "C" => (g \in low.p <=> g \in accP)
  <2>1. PICK f : f = SumFlags(accP, v1, c1)
    OBVIOUS
  <2>2. \A g : g # "N" /\ g # "Z" => (g \in low.p <=> g \in f)
    BY <1>6, <2>1, ResultKeeps, Zenon
  <2>3. "C" \in f <=> c1 = 1
    BY <2>1, SumFlagsC
  <2>4. \A g : g # "V" /\ g # "C" => (g \in f <=> g \in accP)
    BY <2>1, SumFlagsKeeps, Zenon
  <2>. QED
    BY <2>2, <2>3, <2>4, Zenon
<1>10. PICK n1, n2, n3 : /\ n1 = SumN(xl, yl, accP, TRUE) /\ n2 = SumN(xh, yh, low.p, TRUE)
                         /\ n3 = SumN(a, v, accP, FALSE)
  OBVIOUS
<1>11. SplitOK(n1, n2, SumV(xh, yh, low.p, TRUE), c2, n3, SumV(a, v, accP, FALSE), c3)
  BY <1>4, <1>5, <1>9, <1>10, SumSplit
<1>12. v3 = v2
  <2>1. /\ Negative(a, FALSE) = Negative(xh, TRUE)
        /\ Negative(v, FALSE) = Negative(yh, TRUE)
    BY <1>4, LowBits, Zenon
  <2>2. Negative(SumV(a, v, accP, FALSE), FALSE) = Negative(SumV(xh, yh, low.p, TRUE), TRUE)
    BY <1>11, Zenon DEF SplitOK
  <2>. QED
    BY <1>5, <2>1, <2>2, Zenon DEF Overflowed, OverflowBit
<1>13. Alike(SumFlags(low.p, v2, c2), SumFlags(accP, v3, c3))
  <2>1. c3 = c2
    BY <1>11, Zenon DEF SplitOK
  <2>. QED
    BY <1>9, <1>12, <2>1, SumFlagsAgree, Zenon
<1>14. Halves(low, high) = Whole(whole)
  <2>1. /\ n1 \in Int /\ n2 \in Int /\ n3 \in Int /\ Joins(n2, n1, n3)
        /\ Negative(n3, FALSE) = Negative(n2, TRUE)
    BY <1>11, Zenon DEF SplitOK
  <2>2. PICK f1, f2, f3 : /\ f1 = SumFlags(accP, v1, c1) /\ f2 = SumFlags(low.p, v2, c2)
                          /\ f3 = SumFlags(accP, v3, c3)
    OBVIOUS
  <2>3. /\ low = Result(Low(a), f1, n1, TRUE) /\ high = Result(High(a), f2, n2, TRUE)
        /\ whole = Result(a, f3, n3, FALSE)
        /\ Alike(f2, f3)
    BY <1>4, <1>6, <1>7, <1>8, <1>10, <1>13, <2>2, Zenon
  <2>4. HalvesMake(a, f1, n1, f2, n2, f3, n3)
    BY <2>1, <2>3, HalvesAgree
  <2>. QED
    BY <2>3, <2>4, Zenon DEF HalvesMake
<1>15. SumsAgree(v) <=> Halves(low, high) = Whole(whole)
  BY <1>1, <1>2, <1>3 DEF SumsAgree, Low, High
<1>. QED
  BY <1>14, <1>15, Zenon

-----------------------------------------------------------------------------
(* SBC of a word by its bytes.                                             *)

\* What SBC computes: the binary difference as a sum, its bits, the number.
Raw(x, y, q, w8) == x + (Size(w8) - 1 - y) + Bit(q, "C")
DiffN(x, y, q, w8) ==
    IF "D" \in q THEN DecimalDifference(x, y, Bit(q, "C"), w8) ELSE Raw(x, y, q, w8)
Passed(x, y, v, w8) ==
    Negative(x, w8) # Negative(y, w8) /\ Negative(x, w8) # Negative(v, w8)
PassedBit(x, y, v, w8) == IF Passed(x, y, v, w8) THEN 1 ELSE 0
RawOut(x, y, q, w8) == IF Raw(x, y, q, w8) >= Size(w8) THEN 1 ELSE 0
DiffState(acc, x, y, q, w8) ==
    Result(acc, SumFlags(q, PassedBit(x, y, Raw(x, y, q, w8), w8), RawOut(x, y, q, w8)),
           DiffN(x, y, q, w8), w8)

\* SBC by its parts.
LEMMA SbcIs ==
    ASSUME NEW acc, NEW q, NEW operand, NEW w8
    PROVE  SBC(acc, q, operand, w8)
             = DiffState(acc, acc % Size(w8), operand % Size(w8), q, w8)
<1>1. PICK x, y : x = acc % Size(w8) /\ y = operand % Size(w8)
  OBVIOUS
<1>2. PICK f : f = Put(Put(q, "V", Passed(x, y, Raw(x, y, q, w8), w8)),
                       "C", Raw(x, y, q, w8) >= Size(w8))
  OBVIOUS
<1>3. SBC(acc, q, operand, w8) = Result(acc, f, DiffN(x, y, q, w8), w8)
  <2>1. CASE "D" \in q
    BY <1>1, <1>2, <2>1, Zenon DEF SBC, DiffN, Raw, Passed
  <2>2. CASE "D" \notin q
    BY <1>1, <1>2, <2>2, Zenon DEF SBC, DiffN, Raw, Passed
  <2>. QED
    BY <2>1, <2>2
<1>4. f = SumFlags(q, PassedBit(x, y, Raw(x, y, q, w8), w8), RawOut(x, y, q, w8))
  <2>1. Passed(x, y, Raw(x, y, q, w8), w8) <=> PassedBit(x, y, Raw(x, y, q, w8), w8) = 1
    BY SMT DEF PassedBit
  <2>2. Raw(x, y, q, w8) >= Size(w8) <=> RawOut(x, y, q, w8) = 1
    BY SMT DEF RawOut
  <2>. QED
    BY <1>2, <2>1, <2>2, Zenon DEF SumFlags, Put
<1>. QED
  BY <1>1, <1>3, <1>4, Zenon DEF DiffState

\* A digit's difference: the borrow it takes and the digit it leaves.
Borrow(n) == IF n < 0 THEN 1 ELSE 0
Left(n) == (IF n < 0 THEN n - 6 ELSE n) % 16
Bound2 == -16 .. 15

DigitDiffs(x, y, c, n0, n1, n2, n3) ==
    /\ n0 = Digit(x, 0) - Digit(y, 0) - (1 - c)
    /\ n1 = Digit(x, 1) - Digit(y, 1) - Borrow(n0)
    /\ n2 = Digit(x, 2) - Digit(y, 2) - Borrow(n1)
    /\ n3 = Digit(x, 3) - Digit(y, 3) - Borrow(n2)

\* The digit a difference leaves, and its borrow.
LEMMA LeftDigit ==
    ASSUME NEW n \in Bound2
    PROVE  Left(n) \in Nibble /\ Borrow(n) \in 0 .. 1
BY SMT DEF Left, Borrow, Bound2, Nibble

\* The difference of two digits and a borrow.
LEMMA DiffDigit ==
    ASSUME NEW x \in Nibble, NEW y \in Nibble, NEW b \in 0 .. 1
    PROVE  x - y - b \in Bound2
BY SMT DEF Nibble, Bound2

DecimalDifferences(x, y, c, n0, n1, n2, n3) ==
    /\ DecimalDifference(Low(x), Low(y), c, TRUE) = Two(Left(n1), Left(n0))
    /\ DecimalDifference(High(x), High(y), 1 - Borrow(n1), TRUE) = Two(Left(n3), Left(n2))
    /\ DecimalDifference(x, y, c, FALSE) = Four(Left(n3), Left(n2), Left(n1), Left(n0))
    /\ n0 \in Bound2 /\ n1 \in Bound2 /\ n2 \in Bound2 /\ n3 \in Bound2

\* DecimalDifference on words and on their bytes, from the same digits.
LEMMA DecimalDifferenceIs ==
    ASSUME NEW x \in Word, NEW y \in Word, NEW c \in 0 .. 1, NEW n0, NEW n1, NEW n2, NEW n3,
           DigitDiffs(x, y, c, n0, n1, n2, n3)
    PROVE  DecimalDifferences(x, y, c, n0, n1, n2, n3)
<1>1. PICK xl, xh, yl, yh : xl = Low(x) /\ xh = High(x) /\ yl = Low(y) /\ yh = High(y)
  OBVIOUS
<1>2. /\ Digit(xl, 0) = Digit(x, 0) /\ Digit(xl, 1) = Digit(x, 1)
      /\ Digit(xh, 0) = Digit(x, 2) /\ Digit(xh, 1) = Digit(x, 3)
      /\ Digit(yl, 0) = Digit(y, 0) /\ Digit(yl, 1) = Digit(y, 1)
      /\ Digit(yh, 0) = Digit(y, 2) /\ Digit(yh, 1) = Digit(y, 3)
  BY <1>1, DigitsSplit, Zenon
<1>3. n0 \in Bound2 /\ n1 \in Bound2 /\ n2 \in Bound2 /\ n3 \in Bound2
  <2>1. \A k \in 0 .. 3 : Digit(x, k) \in Nibble /\ Digit(y, k) \in Nibble
    BY DigitsSplit, Zenon
  <2>2. /\ Digit(x, 0) \in Nibble /\ Digit(x, 1) \in Nibble
        /\ Digit(x, 2) \in Nibble /\ Digit(x, 3) \in Nibble
        /\ Digit(y, 0) \in Nibble /\ Digit(y, 1) \in Nibble
        /\ Digit(y, 2) \in Nibble /\ Digit(y, 3) \in Nibble
    BY <2>1, SMT
  <2>3. 1 - c \in 0 .. 1
    BY SMT
  <2>4. n0 \in Bound2
    BY <2>2, <2>3, DiffDigit, Zenon DEF DigitDiffs
  <2>5. n1 \in Bound2
    BY <2>2, <2>4, DiffDigit, LeftDigit, Zenon DEF DigitDiffs
  <2>6. n2 \in Bound2
    BY <2>2, <2>5, DiffDigit, LeftDigit, Zenon DEF DigitDiffs
  <2>7. n3 \in Bound2
    BY <2>2, <2>6, DiffDigit, LeftDigit, Zenon DEF DigitDiffs
  <2>. QED
    BY <2>4, <2>5, <2>6, <2>7
<1>4. PICK d0 \in Nibble, d1 \in Nibble, d2 \in Nibble, d3 \in Nibble :
        d0 = Left(n0) /\ d1 = Left(n1) /\ d2 = Left(n2) /\ d3 = Left(n3)
  BY <1>3, LeftDigit, Zenon
<1>5. DecimalDifference(xl, yl, c, TRUE) = Two(d1, d0)
  <2>1. DecimalDifference(xl, yl, c, TRUE) = 16 * d1 + d0 + 0
    BY <1>2, <1>4, Zenon DEF DecimalDifference, DigitDiffs, Borrow, Left
  <2>2. 16 * d1 + d0 + 0 = Two(d1, d0)
    BY SMT DEF Two, Nibble
  <2>. QED
    BY <2>1, <2>2
<1>6. DecimalDifference(xh, yh, 1 - Borrow(n1), TRUE) = Two(d3, d2)
  <2>1. 1 - (1 - Borrow(n1)) = Borrow(n1)
    BY SMT DEF Borrow
  <2>2. DecimalDifference(xh, yh, 1 - Borrow(n1), TRUE) = 16 * d3 + d2 + 0
    BY <1>2, <1>4, <2>1, SMTT(60) DEF DecimalDifference, DigitDiffs, Borrow, Left
  <2>3. 16 * d3 + d2 + 0 = Two(d3, d2)
    BY SMT DEF Two, Nibble
  <2>. QED
    BY <2>2, <2>3
<1>7. DecimalDifference(x, y, c, FALSE) = Four(d3, d2, d1, d0)
  <2>0. PICK w : w = 16 * d1 + d0 + (4096 * d3 + 256 * d2)
    OBVIOUS
  <2>1. DecimalDifference(x, y, c, FALSE) = w
    BY <1>4, <2>0, SMTT(60) DEF DecimalDifference, DigitDiffs, Borrow, Left
  <2>2. w = Four(d3, d2, d1, d0)
    BY <2>0, SMT DEF Four, Nibble
  <2>. QED
    BY <2>1, <2>2
<1>. QED
  BY <1>1, <1>3, <1>4, <1>5, <1>6, <1>7, Zenon DEF DecimalDifferences

\* The bytes of the complement of y, for a difference as a sum.
RawSplits(x, y, q, q2) ==
    LET l == Raw(Low(x), Low(y), q, TRUE)
        h == Raw(High(x), High(y), q2, TRUE)
        r == Raw(x, y, q, FALSE)
    IN  /\ l \in Int /\ h \in Int /\ r \in Int /\ Joins(h, l, r)
        /\ Negative(r, FALSE) = Negative(h, TRUE)
        /\ RawOut(x, y, q, FALSE) = RawOut(High(x), High(y), q2, TRUE)

RawByte(x, y, c) == x + (256 - 1 - y) + c
RawWord(x, y, c) == x + (65536 - 1 - y) + c
ByteBit(n) == IF OverByte(n) THEN 1 ELSE 0
WordBit(n) == IF OverWord(n) THEN 1 ELSE 0

\* The binary difference, of bytes and of words.
LEMMA RawIs ==
    ASSUME NEW x, NEW y, NEW q
    PROVE  /\ Raw(x, y, q, TRUE) = RawByte(x, y, Bit(q, "C"))
           /\ Raw(x, y, q, FALSE) = RawWord(x, y, Bit(q, "C"))
           /\ RawOut(x, y, q, TRUE) = ByteBit(Raw(x, y, q, TRUE))
           /\ RawOut(x, y, q, FALSE) = WordBit(Raw(x, y, q, FALSE))
BY SMT DEF Raw, RawOut, Size, OverByte, OverWord, RawByte, RawWord, ByteBit, WordBit

\* The binary difference of two words by their bytes: a sum with the complement.
LEMMA RawSplit ==
    ASSUME NEW x \in Word, NEW y \in Word, NEW q, NEW q2,
           "C" \in q2 <=> OverByte(Raw(Low(x), Low(y), q, TRUE))
    PROVE  RawSplits(x, y, q, q2)
<1>0. PICK xl, xh, yl, yh, l, h, r :
        /\ xl = Low(x) /\ xh = High(x) /\ yl = Low(y) /\ yh = High(y)
        /\ l = Raw(xl, yl, q, TRUE) /\ h = Raw(xh, yh, q2, TRUE) /\ r = Raw(x, y, q, FALSE)
  OBVIOUS
<1>1. PICK c \in 0 .. 1 : c = Bit(q, "C")
  BY SMT DEF Bit
<1>2. /\ xl \in Byte /\ xh \in Byte /\ x = Pair(xh, xl)
      /\ yl \in Byte /\ yh \in Byte /\ y = Pair(yh, yl)
  BY <1>0, HalvesOf DEF Low, High, Pair
<1>3. PICK zl \in Byte, zh \in Byte : zl = 255 - yl /\ zh = 255 - yh
  BY <1>2, SMT DEF Byte
<1>4. l = xl + zl + c
  <2>1. l = RawByte(xl, yl, c)
    BY <1>0, <1>1, RawIs, Zenon
  <2>. QED
    BY <1>2, <1>3, <2>1, SMT DEF Byte, RawByte
<1>5. PICK b : b = Bit(q2, "C")
  OBVIOUS
<1>6. b = IF OverByte(l) THEN 1 ELSE 0
  BY <1>0, <1>5, Zenon DEF Bit
<1>7. b \in 0 .. 1
  BY <1>5, SMT DEF Bit
<1>8. h = xh + zh + b
  <2>1. h = RawByte(xh, yh, b)
    BY <1>0, <1>5, RawIs, Zenon
  <2>. QED
    BY <1>2, <1>3, <1>7, <2>1, SMT DEF Byte, RawByte
<1>9. r = Pair(xh, xl) + Pair(zh, zl) + c
  <2>1. r = RawWord(x, y, c)
    BY <1>0, <1>1, RawIs, Zenon
  <2>2. x \in Int /\ y \in Int
    BY SMT DEF Word
  <2>3. x = 256 * xh + xl /\ y = 256 * yh + yl
    BY <1>2 DEF Pair
  <2>. QED
    BY <1>2, <1>3, <2>1, <2>2, <2>3, SMT DEF Byte, Pair, RawWord
<1>10. LongSum(xl, xh, zl, zh, c, l, h, r)
  BY <1>4, <1>6, <1>8, <1>9, Zenon DEF LongSum
<1>11. /\ r \in Int /\ l \in Int /\ h \in Int
       /\ Joins(h, l, r)
       /\ OverWord(r) <=> OverByte(h)
  BY <1>2, <1>10, BinarySplit, Zenon
<1>12. Negative(r, FALSE) = Negative(h, TRUE)
  BY <1>11, NegativeSplit, Zenon
<1>13. RawOut(x, y, q, FALSE) = RawOut(xh, yh, q2, TRUE)
  <2>1. RawOut(x, y, q, FALSE) = WordBit(r)
    BY <1>0, RawIs, Zenon
  <2>2. RawOut(xh, yh, q2, TRUE) = ByteBit(h)
    BY <1>0, RawIs, Zenon
  <2>3. WordBit(r) = ByteBit(h)
    BY <1>11, Zenon DEF WordBit, ByteBit
  <2>. QED
    BY <2>1, <2>2, <2>3, Zenon
<1>. QED
  BY <1>0, <1>11, <1>12, <1>13, Zenon DEF RawSplits

\* The binary low difference borrows when the decimal digits do.
LEMMA BorrowAgrees ==
    ASSUME NEW x \in Word, NEW y \in Word, NEW q, NEW xl, xl = Low(x), NEW yl, yl = Low(y),
           NEW c \in 0 .. 1, c = Bit(q, "C"), NEW n0, NEW n1, NEW n2, NEW n3,
           DigitDiffs(x, y, c, n0, n1, n2, n3)
    PROVE  OverByte(Raw(xl, yl, q, TRUE)) <=> Borrow(n1) = 0
<1>1. PICK x0 \in Nibble, x1 \in Nibble, y0 \in Nibble, y1 \in Nibble :
        x0 = Digit(x, 0) /\ x1 = Digit(x, 1) /\ y0 = Digit(y, 0) /\ y1 = Digit(y, 1)
  <2>1. 0 \in 0 .. 3 /\ 1 \in 0 .. 3
    BY SMT
  <2>. QED
    BY <2>1, DigitsSplit, Zenon
<1>2. xl = Two(x1, x0) /\ yl = Two(y1, y0)
  <2>1. ASSUME NEW z \in Word PROVE Low(z) = Two(Digit(z, 1), Digit(z, 0))
    <3>1. \A k \in 0 .. 3 : k = 0 \/ k = 1 \/ k = 2 \/ k = 3
      BY SMT
    <3>2. PICK z0 \in Nibble, z1 \in Nibble, z2 \in Nibble, z3 \in Nibble :
            z0 = Digit(z, 0) /\ z1 = Digit(z, 1) /\ z2 = Digit(z, 2) /\ z3 = Digit(z, 3)
      <4>1. 0 \in 0 .. 3 /\ 1 \in 0 .. 3 /\ 2 \in 0 .. 3 /\ 3 \in 0 .. 3
        BY SMT
      <4>. QED
        BY <4>1, DigitsSplit, Zenon
    <3>3. DigitsAre(z, z0, z1, z2, z3)
      BY <3>2, DigitsSplit, Zenon
    <3>. QED
      BY <3>2, <3>3, HalfDigits DEF Low, Two
  <2>. QED
    BY <1>1, <2>1, Zenon
<1>3. PICK l : l = Raw(xl, yl, q, TRUE)
  OBVIOUS
<1>4. l = RawByte(Two(x1, x0), Two(y1, y0), c)
  BY <1>2, <1>3, RawIs, Zenon
<1>5. n0 = x0 - y0 - (1 - c) /\ n1 = x1 - y1 - Borrow(n0)
  BY <1>1, Zenon DEF DigitDiffs
<1>6. OverByte(l) <=> Borrow(n1) = 0
  BY <1>4, <1>5, SMT DEF OverByte, Borrow, Two, Nibble, RawByte
<1>. QED
  BY <1>3, <1>6, Zenon

\* The difference in either mode.
LEMMA DifferenceSplit ==
    ASSUME NEW x \in Word, NEW y \in Word, NEW q, NEW q2, "D" \in q2 <=> "D" \in q,
           NEW xl, xl = Low(x), NEW xh, xh = High(x),
           NEW yl, yl = Low(y), NEW yh, yh = High(y),
           "C" \in q2 <=> RawOut(xl, yl, q, TRUE) = 1
    PROVE  SplitOK(DiffN(xl, yl, q, TRUE), DiffN(xh, yh, q2, TRUE), Raw(xh, yh, q2, TRUE),
                   RawOut(xh, yh, q2, TRUE), DiffN(x, y, q, FALSE), Raw(x, y, q, FALSE),
                   RawOut(x, y, q, FALSE))
<1>1. PICK l, h, r :
        l = Raw(xl, yl, q, TRUE) /\ h = Raw(xh, yh, q2, TRUE) /\ r = Raw(x, y, q, FALSE)
  OBVIOUS
<1>2. "C" \in q2 <=> OverByte(l)
  <2>1. RawOut(xl, yl, q, TRUE) = 1 <=> OverByte(l)
    <3>1. RawOut(xl, yl, q, TRUE) = ByteBit(l)
      BY <1>1, RawIs, Zenon
    <3>2. ByteBit(l) = 1 <=> OverByte(l)
      BY SMT DEF ByteBit
    <3>. QED
      BY <3>1, <3>2, Zenon
  <2>. QED
    BY <2>1, Zenon
<1>3. /\ l \in Int /\ h \in Int /\ r \in Int /\ Joins(h, l, r)
      /\ Negative(r, FALSE) = Negative(h, TRUE)
      /\ RawOut(x, y, q, FALSE) = RawOut(xh, yh, q2, TRUE)
  <2>1. RawSplits(x, y, q, q2)
    BY <1>1, <1>2, RawSplit, Zenon
  <2>. QED
    BY <1>1, <2>1, Zenon DEF RawSplits
<1>4. CASE "D" \notin q
  <2>1. DiffN(xl, yl, q, TRUE) = l /\ DiffN(xh, yh, q2, TRUE) = h /\ DiffN(x, y, q, FALSE) = r
    BY <1>1, <1>4, Zenon DEF DiffN
  <2>. QED
    BY <1>1, <1>3, <2>1, Zenon DEF SplitOK
<1>5. CASE "D" \in q
  <2>1. PICK c \in 0 .. 1 : c = Bit(q, "C")
    BY SMT DEF Bit
  <2>2. PICK n0, n1, n2, n3 : DigitDiffs(x, y, c, n0, n1, n2, n3)
    BY DEF DigitDiffs
  <2>3. /\ DecimalDifference(Low(x), Low(y), c, TRUE) = Two(Left(n1), Left(n0))
        /\ DecimalDifference(High(x), High(y), 1 - Borrow(n1), TRUE)
             = Two(Left(n3), Left(n2))
        /\ DecimalDifference(x, y, c, FALSE) = Four(Left(n3), Left(n2), Left(n1), Left(n0))
        /\ n0 \in Bound2 /\ n1 \in Bound2 /\ n2 \in Bound2 /\ n3 \in Bound2
    <3>1. DecimalDifferences(x, y, c, n0, n1, n2, n3)
      BY <2>2, DecimalDifferenceIs
    <3>. QED
      BY <3>1, Zenon DEF DecimalDifferences
  <2>4. Bit(q2, "C") = 1 - Borrow(n1)
    <3>1. OverByte(l) <=> Borrow(n1) = 0
      BY <1>1, <2>1, <2>2, BorrowAgrees, ZenonT(60)
    <3>2. CASE Borrow(n1) = 0
      BY <1>2, <3>1, <3>2, SMT DEF Bit
    <3>3. CASE Borrow(n1) = 1
      BY <1>2, <3>1, <3>3, SMT DEF Bit
    <3>. QED
      BY <3>2, <3>3, Zenon DEF Borrow
  <2>5. PICK d0 \in Nibble, d1 \in Nibble, d2 \in Nibble, d3 \in Nibble :
          d0 = Left(n0) /\ d1 = Left(n1) /\ d2 = Left(n2) /\ d3 = Left(n3)
    BY <2>3, LeftDigit, Zenon
  <2>6. DiffN(xl, yl, q, TRUE) = Two(d1, d0)
    BY <1>5, <2>1, <2>3, <2>5, Zenon DEF DiffN
  <2>7. DiffN(xh, yh, q2, TRUE) = Two(d3, d2)
    BY <1>5, <2>4, <2>3, <2>5, Zenon DEF DiffN
  <2>8. DiffN(x, y, q, FALSE) = Four(d3, d2, d1, d0)
    BY <1>5, <2>1, <2>3, <2>5, Zenon DEF DiffN
  <2>9. FourSplits(d3, d2, d1, d0)
    BY DecimalNegative
  <2>. QED
    BY <1>1, <1>3, <2>6, <2>7, <2>8, <2>9, Zenon DEF SplitOK, FourSplits
<1>. QED
  BY <1>4, <1>5

\* SBC of a word is SBC of its bytes, for every accumulator and operand.
LEMMA DifferencesAgreeAt ==
    ASSUME a \in Word, NEW v \in Word
    PROVE  DifferencesAgree(v)
<1>1. PICK low : low = SBC(Low(a), accP, Low(v), TRUE)
  OBVIOUS
<1>2. PICK high : high = SBC(High(a), low.p, High(v), TRUE)
  OBVIOUS
<1>3. PICK whole : whole = SBC(a, accP, v, FALSE)
  OBVIOUS
<1>4. PICK xl, xh, yl, yh : xl = Low(a) /\ xh = High(a) /\ yl = Low(v) /\ yh = High(v)
  OBVIOUS
<1>5. PICK v1, v2, v3, c1, c2, c3 :
        /\ v1 = PassedBit(xl, yl, Raw(xl, yl, accP, TRUE), TRUE)
        /\ v2 = PassedBit(xh, yh, Raw(xh, yh, low.p, TRUE), TRUE)
        /\ v3 = PassedBit(a, v, Raw(a, v, accP, FALSE), FALSE)
        /\ c1 = RawOut(xl, yl, accP, TRUE) /\ c2 = RawOut(xh, yh, low.p, TRUE)
        /\ c3 = RawOut(a, v, accP, FALSE)
  OBVIOUS
<1>6. low = Result(xl, SumFlags(accP, v1, c1), DiffN(xl, yl, accP, TRUE), TRUE)
  <2>1. low = DiffState(xl, xl % Size(TRUE), yl % Size(TRUE), accP, TRUE)
    BY <1>1, <1>4, SbcIs, Zenon
  <2>2. low = DiffState(xl, xl, yl, accP, TRUE)
    BY <1>4, <2>1, LowBits, Zenon
  <2>. QED
    BY <1>5, <2>2, Zenon DEF DiffState
<1>7. high = Result(xh, SumFlags(low.p, v2, c2), DiffN(xh, yh, low.p, TRUE), TRUE)
  <2>1. high = DiffState(xh, xh % Size(TRUE), yh % Size(TRUE), low.p, TRUE)
    BY <1>2, <1>4, SbcIs, Zenon
  <2>2. high = DiffState(xh, xh, yh, low.p, TRUE)
    BY <1>4, <2>1, LowBits, Zenon
  <2>. QED
    BY <1>5, <2>2, Zenon DEF DiffState
<1>8. whole = Result(a, SumFlags(accP, v3, c3), DiffN(a, v, accP, FALSE), FALSE)
  <2>1. whole = DiffState(a, a % Size(FALSE), v % Size(FALSE), accP, FALSE)
    BY <1>3, SbcIs, Zenon
  <2>2. whole = DiffState(a, a, v, accP, FALSE)
    BY <2>1, LowBits, Zenon
  <2>. QED
    BY <1>5, <2>2, Zenon DEF DiffState
<1>9. /\ "D" \in low.p <=> "D" \in accP
      /\ "C" \in low.p <=> c1 = 1
      /\ \A g : g # "N" /\ g # "Z" /\ g # "V" /\ g # "C" => (g \in low.p <=> g \in accP)
  <2>1. PICK f : f = SumFlags(accP, v1, c1)
    OBVIOUS
  <2>2. \A g : g # "N" /\ g # "Z" => (g \in low.p <=> g \in f)
    BY <1>6, <2>1, ResultKeeps, Zenon
  <2>3. "C" \in f <=> c1 = 1
    BY <2>1, SumFlagsC
  <2>4. \A g : g # "V" /\ g # "C" => (g \in f <=> g \in accP)
    BY <2>1, SumFlagsKeeps, Zenon
  <2>. QED
    BY <2>2, <2>3, <2>4, Zenon
<1>10. PICK n1, n2, n3 : /\ n1 = DiffN(xl, yl, accP, TRUE) /\ n2 = DiffN(xh, yh, low.p, TRUE)
                         /\ n3 = DiffN(a, v, accP, FALSE)
  OBVIOUS
<1>11. SplitOK(n1, n2, Raw(xh, yh, low.p, TRUE), c2, n3, Raw(a, v, accP, FALSE), c3)
  BY <1>4, <1>5, <1>9, <1>10, DifferenceSplit
<1>12. v3 = v2
  <2>1. /\ Negative(a, FALSE) = Negative(xh, TRUE)
        /\ Negative(v, FALSE) = Negative(yh, TRUE)
    BY <1>4, LowBits, Zenon
  <2>2. Negative(Raw(a, v, accP, FALSE), FALSE) = Negative(Raw(xh, yh, low.p, TRUE), TRUE)
    BY <1>11, Zenon DEF SplitOK
  <2>. QED
    BY <1>5, <2>1, <2>2, Zenon DEF Passed, PassedBit
<1>13. Alike(SumFlags(low.p, v2, c2), SumFlags(accP, v3, c3))
  <2>1. c3 = c2
    BY <1>11, Zenon DEF SplitOK
  <2>. QED
    BY <1>9, <1>12, <2>1, SumFlagsAgree, Zenon
<1>14. Halves(low, high) = Whole(whole)
  <2>1. /\ n1 \in Int /\ n2 \in Int /\ n3 \in Int /\ Joins(n2, n1, n3)
        /\ Negative(n3, FALSE) = Negative(n2, TRUE)
    BY <1>11, Zenon DEF SplitOK
  <2>2. PICK f1, f2, f3 : /\ f1 = SumFlags(accP, v1, c1) /\ f2 = SumFlags(low.p, v2, c2)
                          /\ f3 = SumFlags(accP, v3, c3)
    OBVIOUS
  <2>3. /\ low = Result(Low(a), f1, n1, TRUE) /\ high = Result(High(a), f2, n2, TRUE)
        /\ whole = Result(a, f3, n3, FALSE)
        /\ Alike(f2, f3)
    BY <1>4, <1>6, <1>7, <1>8, <1>10, <1>13, <2>2, Zenon
  <2>4. HalvesMake(a, f1, n1, f2, n2, f3, n3)
    BY <2>1, <2>3, HalvesAgree
  <2>. QED
    BY <2>3, <2>4, Zenon DEF HalvesMake
<1>15. DifferencesAgree(v) <=> Halves(low, high) = Whole(whole)
  BY <1>1, <1>2, <1>3 DEF DifferencesAgree, Low, High
<1>. QED
  BY <1>14, <1>15, Zenon

-----------------------------------------------------------------------------
(* Rotation.                                                               *)

RotState(acc, x, q, w8) ==
    Result(acc, Put(q, "C", Negative(x, w8)), 2 * x + Bit(q, "C"), w8)

\* ROL by its parts.
LEMMA RotateIs ==
    ASSUME NEW acc, NEW q, NEW w8
    PROVE  ShiftLeft(acc, q, TRUE, w8) = RotState(acc, acc % Size(w8), q, w8)
BY Zenon DEF ShiftLeft, RotState

\* Setting the carry.
LEMMA PutC ==
    ASSUME NEW q, NEW x, NEW w8
    PROVE  /\ "C" \in Put(q, "C", Negative(x, w8)) <=> Negative(x, w8)
           /\ \A g : g # "C" => (g \in Put(q, "C", Negative(x, w8)) <=> g \in q)
BY Zenon DEF Put

\* Setting the same carry leaves the same flags.
LEMMA PutAlike ==
    ASSUME NEW q2, NEW q3, NEW x, NEW w8,
           \A g : g # "N" /\ g # "Z" /\ g # "C" => (g \in q2 <=> g \in q3)
    PROVE  Alike(Put(q2, "C", Negative(x, w8)), Put(q3, "C", Negative(x, w8)))
BY Zenon DEF Put, Alike

\* Doubling a word by its bytes, with the top bit of the low one carried.
LEMMA DoubleSplit ==
    ASSUME NEW x \in Word, NEW c \in 0 .. 1, NEW b,
           b = IF Negative(Low(x), TRUE) THEN 1 ELSE 0,
           NEW l, l = 2 * Low(x) + c, NEW h, h = 2 * High(x) + b, NEW r, r = 2 * x + c
    PROVE  l \in Int /\ h \in Int /\ r \in Int /\ Joins(h, l, r)
<1>1. PICK xl \in Byte, xh \in Byte : xl = Low(x) /\ xh = High(x) /\ x = Pair(xh, xl)
  BY HalvesOf DEF Low, High, Pair
<1>2. Negative(xl, TRUE) <=> HighByte(xl)
  <2>1. xl \in Int
    BY SMT DEF Byte
  <2>. QED
    BY <2>1, NegativeIs, Zenon
<1>3. b = IF OverByte(l) THEN 1 ELSE 0
  <2>1. HighByte(xl) <=> OverByte(l)
    BY <1>1, SMT DEF HighByte, OverByte, Byte
  <2>. QED
    BY <1>1, <1>2, <2>1, Zenon
<1>4. b \in 0 .. 1
  BY <1>3, SMT
<1>5. l = xl + xl + c /\ h = xh + xh + b /\ r = Pair(xh, xl) + Pair(xh, xl) + c
  <2>1. l = 2 * xl + c /\ h = 2 * xh + b /\ r = 2 * x + c
    BY <1>1, Zenon
  <2>2. l = xl + xl + c
    BY <2>1, SMT DEF Byte
  <2>3. h = xh + xh + b
    <3>1. PICK e \in 0 .. 1 : e = b
      BY <1>4, Zenon
    <3>2. 2 * xh + e = xh + xh + e
      BY SMT DEF Byte
    <3>. QED
      BY <2>1, <3>1, <3>2, Zenon
  <2>4. r = Pair(xh, xl) + Pair(xh, xl) + c
    BY <1>1, <2>1, SMT DEF Byte, Pair
  <2>. QED
    BY <2>2, <2>3, <2>4
<1>6. LongSum(xl, xh, xl, xh, c, l, h, r)
  BY <1>3, <1>5, Zenon DEF LongSum
<1>. QED
  BY <1>6, BinarySplit, Zenon

\* ROL of a word is ROL of its bytes, for every accumulator.
LEMMA RotationsAgreeAt ==
    ASSUME a \in Word
    PROVE  RotationsAgree
<1>1. PICK low : low = ShiftLeft(Low(a), accP, TRUE, TRUE)
  OBVIOUS
<1>2. PICK high : high = ShiftLeft(High(a), low.p, TRUE, TRUE)
  OBVIOUS
<1>3. PICK whole : whole = ShiftLeft(a, accP, TRUE, FALSE)
  OBVIOUS
<1>4. PICK c, b : c = Bit(accP, "C") /\ b = Bit(low.p, "C")
  OBVIOUS
<1>5. PICK l, h, r : l = 2 * Low(a) + c /\ h = 2 * High(a) + b /\ r = 2 * a + c
  OBVIOUS
<1>6. PICK f1, f2, f3 : /\ f1 = Put(accP, "C", Negative(Low(a), TRUE))
                        /\ f2 = Put(low.p, "C", Negative(High(a), TRUE))
                        /\ f3 = Put(accP, "C", Negative(a, FALSE))
  OBVIOUS
<1>7. low = Result(Low(a), f1, l, TRUE)
  <2>1. low = RotState(Low(a), Low(a) % Size(TRUE), accP, TRUE)
    BY <1>1, RotateIs, Zenon
  <2>2. low = RotState(Low(a), Low(a), accP, TRUE)
    BY <2>1, LowBits, Zenon
  <2>. QED
    BY <1>4, <1>5, <1>6, <2>2, Zenon DEF RotState
<1>8. high = Result(High(a), f2, h, TRUE)
  <2>1. high = RotState(High(a), High(a) % Size(TRUE), low.p, TRUE)
    BY <1>2, RotateIs, Zenon
  <2>2. high = RotState(High(a), High(a), low.p, TRUE)
    BY <2>1, LowBits, Zenon
  <2>. QED
    BY <1>4, <1>5, <1>6, <2>2, Zenon DEF RotState
<1>9. whole = Result(a, f3, r, FALSE)
  <2>1. whole = RotState(a, a % Size(FALSE), accP, FALSE)
    BY <1>3, RotateIs, Zenon
  <2>2. whole = RotState(a, a, accP, FALSE)
    BY <2>1, LowBits, Zenon
  <2>. QED
    BY <1>4, <1>5, <1>6, <2>2, Zenon DEF RotState
<1>10. \A g : g # "N" /\ g # "Z" => (g \in low.p <=> g \in f1)
  BY <1>7, ResultKeeps, Zenon
<1>11. b = IF Negative(Low(a), TRUE) THEN 1 ELSE 0
  <2>1. "C" \in low.p <=> Negative(Low(a), TRUE)
    BY <1>6, <1>10, PutC, Zenon
  <2>. QED
    BY <1>4, <2>1, Zenon DEF Bit
<1>12. l \in Int /\ h \in Int /\ r \in Int /\ Joins(h, l, r)
  <2>1. c \in 0 .. 1
    BY <1>4, SMT DEF Bit
  <2>. QED
    BY <1>5, <1>11, <2>1, DoubleSplit
<1>13. Negative(r, FALSE) = Negative(h, TRUE)
  BY <1>12, NegativeSplit, Zenon
<1>14. Alike(f2, f3)
  <2>1. Negative(a, FALSE) = Negative(High(a), TRUE)
    BY LowBits, Zenon
  <2>2. f3 = Put(accP, "C", Negative(High(a), TRUE))
    BY <1>6, <2>1, Zenon
  <2>3. \A g : g # "N" /\ g # "Z" /\ g # "C" => (g \in low.p <=> g \in accP)
    BY <1>6, <1>10, PutC, Zenon
  <2>. QED
    BY <1>6, <2>2, <2>3, PutAlike, Zenon
<1>15. HalvesMake(a, f1, l, f2, h, f3, r)
  BY <1>12, <1>13, <1>14, HalvesAgree
<1>16. Halves(low, high) = Whole(whole)
  BY <1>7, <1>8, <1>9, <1>15, Zenon DEF HalvesMake
<1>17. RotationsAgree <=> Halves(low, high) = Whole(whole)
  BY <1>1, <1>2, <1>3 DEF RotationsAgree, Low, High
<1>. QED
  BY <1>16, <1>17, Zenon

-----------------------------------------------------------------------------
(* The accumulator stays a word, and the widths agree.                     *)

AccOK == a \in Word

\* A merged result is a word.
LEMMA MergeOK ==
    ASSUME NEW acc \in Word, NEW n \in Int, NEW w8
    PROVE  Merge(acc, n, w8) \in Word
<1>1. PICK h \in Int, k \in Int, m \in Int :
        h = acc \div 256 /\ k = n % 256 /\ m = n % 65536
  BY SMT DEF Word
<1>2. 0 <= h /\ h < 256
  BY <1>1, SMT DEF Word
<1>3. 0 <= k /\ k < 256 /\ 0 <= m /\ m < 65536
  BY <1>1, SMT
<1>4. 256 * h + k \in Word /\ m \in Word
  BY <1>2, <1>3, SMT DEF Word
<1>5. Merge(acc, n, w8) = IF w8 THEN 256 * h + k ELSE m
  BY <1>1 DEF Merge
<1>. QED
  BY <1>4, <1>5

\* Digits are integers.
LEMMA DigitInt ==
    ASSUME NEW n \in Int, NEW k \in 0 .. 3
    PROVE  Digit(n, k) \in Nibble
<1>1. PICK w \in Nat \ {0} : w = Sixteens(k)
  BY SMT DEF Sixteens
<1>2. n \div w \in Int
  BY SMT
<1>3. \A m \in Int : m % 16 \in Nibble
  BY SMT DEF Nibble
<1>. QED
  BY <1>1, <1>2, <1>3, Zenon DEF Digit

\* A decimal sum is an integer, of whatever digits.
LEMMA DecimalSumInt ==
    ASSUME NEW x \in Int, NEW y \in Int, NEW c \in 0 .. 1, NEW w8
    PROVE  DecimalSum(x, y, c, w8).n \in Int
<1>1. PICK s0, s1, s2, s3 : DigitSums(x, y, c, s0, s1, s2, s3)
  BY DEF DigitSums
<1>2. DecimalSum(x, y, c, w8) = IF w8 THEN ByteSum(s0, s1) ELSE WordSum(s0, s1, s2, s3)
  BY <1>1 DEF DecimalSum, DigitSums, ByteSum, WordSum, Corrected, Four, Two, TopOfTwo, TopOfFour
<1>3. /\ Digit(x, 0) \in Nibble /\ Digit(x, 1) \in Nibble
      /\ Digit(x, 2) \in Nibble /\ Digit(x, 3) \in Nibble
      /\ Digit(y, 0) \in Nibble /\ Digit(y, 1) \in Nibble
      /\ Digit(y, 2) \in Nibble /\ Digit(y, 3) \in Nibble
  <2>1. 0 \in 0 .. 3 /\ 1 \in 0 .. 3 /\ 2 \in 0 .. 3 /\ 3 \in 0 .. 3
    BY SMT
  <2>. QED
    BY <2>1, DigitInt
<1>4. s0 \in Bound /\ Carried(s0) \in 0 .. 1
  BY <1>1, <1>3, SumDigit, Zenon DEF DigitSums
<1>5. s1 \in Bound /\ Carried(s1) \in 0 .. 1
  BY <1>1, <1>3, <1>4, SumDigit, Zenon DEF DigitSums
<1>6. s2 \in Bound /\ Carried(s2) \in 0 .. 1
  BY <1>1, <1>3, <1>5, SumDigit, Zenon DEF DigitSums
<1>7. s3 \in Bound
  BY <1>1, <1>3, <1>6, SumDigit, Zenon DEF DigitSums
<1>8. PICK e0 \in Nibble, e1 \in Nibble, e2 \in Nibble, e3 \in Nibble :
        e0 = Corrected(s0) /\ e1 = Corrected(s1) /\ e2 = Corrected(s2) /\ e3 = Corrected(s3)
  BY <1>4, <1>5, <1>6, <1>7, CorrectedDigit, Zenon
<1>9. Two(e1, e0) \in Int /\ Four(e3, e2, e1, e0) \in Int
  BY SMT DEF Two, Four, Nibble
<1>10. ByteSum(s0, s1).n = Two(e1, e0) /\ WordSum(s0, s1, s2, s3).n = Four(e3, e2, e1, e0)
  BY <1>8, Zenon DEF ByteSum, WordSum
<1>. QED
  BY <1>2, <1>9, <1>10, Zenon

\* A decimal difference is an integer, of whatever digits.
LEMMA DecimalDifferenceInt ==
    ASSUME NEW x \in Int, NEW y \in Int, NEW c \in 0 .. 1, NEW w8
    PROVE  DecimalDifference(x, y, c, w8) \in Int
<1>1. PICK n0, n1, n2, n3 : DigitDiffs(x, y, c, n0, n1, n2, n3)
  BY DEF DigitDiffs
<1>2. DecimalDifference(x, y, c, w8)
        = 16 * Left(n1) + Left(n0) + (IF w8 THEN 0 ELSE 4096 * Left(n3) + 256 * Left(n2))
  BY <1>1 DEF DecimalDifference, DigitDiffs, Left, Borrow
<1>3. /\ Digit(x, 0) \in Nibble /\ Digit(x, 1) \in Nibble
      /\ Digit(x, 2) \in Nibble /\ Digit(x, 3) \in Nibble
      /\ Digit(y, 0) \in Nibble /\ Digit(y, 1) \in Nibble
      /\ Digit(y, 2) \in Nibble /\ Digit(y, 3) \in Nibble
  <2>1. 0 \in 0 .. 3 /\ 1 \in 0 .. 3 /\ 2 \in 0 .. 3 /\ 3 \in 0 .. 3
    BY SMT
  <2>. QED
    BY <2>1, DigitInt
<1>4. n0 \in Bound2 /\ 1 - c \in 0 .. 1
  <2>1. 1 - c \in 0 .. 1
    BY SMT
  <2>. QED
    BY <1>1, <1>3, <2>1, DiffDigit, Zenon DEF DigitDiffs
<1>5. n1 \in Bound2
  BY <1>1, <1>3, <1>4, DiffDigit, LeftDigit, Zenon DEF DigitDiffs
<1>6. n2 \in Bound2
  BY <1>1, <1>3, <1>5, DiffDigit, LeftDigit, Zenon DEF DigitDiffs
<1>7. n3 \in Bound2
  BY <1>1, <1>3, <1>6, DiffDigit, LeftDigit, Zenon DEF DigitDiffs
<1>8. PICK d0 \in Nibble, d1 \in Nibble, d2 \in Nibble, d3 \in Nibble :
        d0 = Left(n0) /\ d1 = Left(n1) /\ d2 = Left(n2) /\ d3 = Left(n3)
  BY <1>4, <1>5, <1>6, <1>7, LeftDigit, Zenon
<1>9. 16 * d1 + d0 + (IF w8 THEN 0 ELSE 4096 * d3 + 256 * d2) \in Int
  BY SMT DEF Nibble
<1>. QED
  BY <1>2, <1>8, <1>9

\* The modulus of a width, and what remains by it.
LEMMA SizeIs ==
    ASSUME NEW w8, NEW n \in Int
    PROVE  n % Size(w8) \in Int /\ Size(w8) \in Nat /\ Size(w8) \div 2 \in Nat
<1>1. Size(w8) = 256 \/ Size(w8) = 65536
  BY SMT DEF Size
<1>. QED
  BY <1>1, SMT

\* Each operation leaves a word in the accumulator: ADC,
LEMMA AdcOK ==
    ASSUME NEW acc \in Word, NEW q, NEW v \in Word, NEW w8
    PROVE  ADC(acc, q, v, w8).a \in Word
<1>1. PICK x \in Int, y \in Int : x = acc % Size(w8) /\ y = v % Size(w8)
  <2>1. acc \in Int /\ v \in Int
    BY SMT DEF Word
  <2>. QED
    BY <2>1, SizeIs, Zenon
<1>2. PICK c \in 0 .. 1 : c = Bit(q, "C")
  BY SMT DEF Bit
<1>3. SumN(x, y, q, w8) \in Int
  <2>1. CASE "D" \in q
    BY <1>2, <2>1, DecimalSumInt, Zenon DEF SumN
  <2>2. CASE "D" \notin q
    BY <1>2, <2>2, SMT DEF SumN
  <2>. QED
    BY <2>1, <2>2
<1>4. ADC(acc, q, v, w8).a = Merge(acc, SumN(x, y, q, w8), w8)
  BY <1>1, AdcIs, ResultA, Zenon DEF SumState
<1>. QED
  BY <1>3, <1>4, MergeOK, Zenon

\* SBC,
LEMMA SbcOK ==
    ASSUME NEW acc \in Word, NEW q, NEW v \in Word, NEW w8
    PROVE  SBC(acc, q, v, w8).a \in Word
<1>1. PICK x \in Int, y \in Int : x = acc % Size(w8) /\ y = v % Size(w8)
  <2>1. acc \in Int /\ v \in Int
    BY SMT DEF Word
  <2>. QED
    BY <2>1, SizeIs, Zenon
<1>2. PICK c \in 0 .. 1 : c = Bit(q, "C")
  BY SMT DEF Bit
<1>3. DiffN(x, y, q, w8) \in Int
  <2>1. CASE "D" \in q
    BY <1>2, <2>1, DecimalDifferenceInt, Zenon DEF DiffN
  <2>2. CASE "D" \notin q
    <3>1. PICK m \in Int : m = Size(w8)
      BY SizeIs
    <3>2. x + (m - 1 - y) + c \in Int
      BY SMT
    <3>. QED
      BY <1>2, <2>2, <3>1, <3>2, Zenon DEF DiffN, Raw
  <2>. QED
    BY <2>1, <2>2
<1>4. SBC(acc, q, v, w8).a = Merge(acc, DiffN(x, y, q, w8), w8)
  BY <1>1, SbcIs, ResultA, Zenon DEF DiffState
<1>. QED
  BY <1>3, <1>4, MergeOK, Zenon

\* the shifts and rotates,
LEMMA ShiftOK ==
    ASSUME NEW acc \in Word, NEW q, NEW rotate \in BOOLEAN, NEW w8
    PROVE  ShiftLeft(acc, q, rotate, w8).a \in Word /\ ShiftRight(acc, q, rotate, w8).a \in Word
<1>1. acc \in Int
  BY SMT DEF Word
<1>2. PICK x \in Int, half \in Int, c \in 0 .. 1 :
        x = acc % Size(w8) /\ half = Size(w8) \div 2 /\ c = Bit(q, "C")
  <2>1. Bit(q, "C") \in 0 .. 1
    BY SMT DEF Bit
  <2>2. Size(w8) \div 2 \in Int
    BY SizeIs, SMT
  <2>. QED
    BY <1>1, <2>1, <2>2, SizeIs, Zenon
<1>3. 2 * x + (IF rotate THEN c ELSE 0) \in Int
  BY SMT
<1>4. (x \div 2) + (IF rotate THEN half * c ELSE 0) \in Int
  <2>1. half * c \in Int /\ x \div 2 \in Int
    BY SMT
  <2>2. PICK d \in Int, t \in Int : d = x \div 2 /\ t = IF rotate THEN half * c ELSE 0
    BY <2>1, SMT
  <2>. QED
    BY <2>2, SMT
<1>5. ShiftLeft(acc, q, rotate, w8).a = Merge(acc, 2 * x + (IF rotate THEN c ELSE 0), w8)
  BY <1>2, ResultA, SMTT(60) DEF ShiftLeft
<1>6. ShiftRight(acc, q, rotate, w8).a
        = Merge(acc, (x \div 2) + (IF rotate THEN half * c ELSE 0), w8)
  <2>1. ShiftRight(acc, q, rotate, w8).a
          = Merge(acc, ((acc % Size(w8)) \div 2)
                        + (IF rotate THEN (Size(w8) \div 2) * Bit(q, "C") ELSE 0), w8)
    BY ResultA DEF ShiftRight
  <2>. QED
    BY <1>2, <2>1
<1>. QED
  BY <1>3, <1>4, <1>5, <1>6, MergeOK, Zenon

\* INC and DEC,
LEMMA StepOK ==
    ASSUME NEW acc \in Word, NEW q, NEW by \in {1, -1}, NEW w8
    PROVE  Step(acc, q, by, w8).a \in Word
<1>1. acc + by \in Int
  BY SMT DEF Word
<1>2. Step(acc, q, by, w8).a = Merge(acc, (acc + by) % Size(w8), w8)
  BY ResultA, Zenon DEF Step
<1>. QED
  BY <1>1, <1>2, SizeIs, MergeOK, Zenon

\* and XBA.
LEMMA ExchangeOK ==
    ASSUME NEW acc \in Word, NEW q
    PROVE  XBA(acc, q).a \in Word
<1>1. XBA(acc, q).a = 256 * Low(acc) + High(acc)
  BY DEF XBA, Low, High
<1>2. PICK h \in Byte, l \in Byte : h = High(acc) /\ l = Low(acc)
  BY HalvesOf DEF Low, High
<1>3. 256 * l + h \in Word
  BY SMT DEF Byte, Word
<1>. QED
  BY <1>1, <1>2, <1>3

\* Every operation, at either width, in either mode and with any flags, leaves a
\* 16-bit number in the accumulator.
THEOREM AccumulatorIsWord ==
    AluSpec => []AccOK
<1>1. AluInit => AccOK
  BY AluAssumption DEF AluInit, AccOK, Word
<1>2. AccOK /\ [AluNext]_aluVars => AccOK'
  <2>. SUFFICES ASSUME AccOK, [AluNext]_aluVars
                PROVE  AccOK'
    OBVIOUS
  <2>1. AluNext \/ UNCHANGED aluVars
    OBVIOUS
  <2>2. ASSUME Arithmetic PROVE AccOK'
    <3>1. PICK v \in Words : \/ Becomes(ADC(a, accP, v, "M" \in accP))
                             \/ Becomes(SBC(a, accP, v, "M" \in accP))
                             \/ Becomes(CMP(a, accP, v, "M" \in accP))
      BY <2>2 DEF Arithmetic
    <3>2. v \in Word
      BY AluAssumption DEF Word
    <3>3. CASE Becomes(ADC(a, accP, v, "M" \in accP))
      BY <3>2, <3>3, AdcOK, Zenon DEF Becomes, AccOK
    <3>4. CASE Becomes(SBC(a, accP, v, "M" \in accP))
      BY <3>2, <3>4, SbcOK, Zenon DEF Becomes, AccOK
    <3>5. CASE Becomes(CMP(a, accP, v, "M" \in accP))
      BY <3>5, Zenon DEF Becomes, AccOK, CMP
    <3>. QED
      BY <3>1, <3>3, <3>4, <3>5
  <2>3. ASSUME Shifts PROVE AccOK'
    BY <2>3, ShiftOK, Zenon DEF Shifts, Becomes, AccOK
  <2>4. ASSUME Steps PROVE AccOK'
    BY <2>4, StepOK, Zenon DEF Steps, Becomes, AccOK
  <2>5. ASSUME Exchange PROVE AccOK'
    BY <2>5, ExchangeOK, Zenon DEF Exchange, Becomes, AccOK
  <2>6. ASSUME Load PROVE AccOK'
    BY <2>6, AluAssumption DEF Load, AccOK, Word
  <2>7. ASSUME UNCHANGED aluVars PROVE AccOK'
    BY <2>7 DEF aluVars, AccOK
  <2>. QED
    BY <2>1, <2>2, <2>3, <2>4, <2>5, <2>6, <2>7, Zenon DEF AluNext
<1>. QED
  BY <1>1, <1>2, PTL DEF AluSpec

\* For every accumulator and operand, flags and mode: ADC, SBC and ROL of a word
\* leave the accumulator, C, V and N that the same operation on the low byte and
\* then on the high one, chained by the carry, leaves; decimal digits or not.
THEOREM WidthsAgreeHolds ==
    AluSpec => []WidthsAgree
<1>1. AccOK => WidthsAgree
  <2>. SUFFICES ASSUME AccOK
                PROVE  RotationsAgree /\ \A v \in Words : SumsAgree(v) /\ DifferencesAgree(v)
    BY DEF WidthsAgree
  <2>1. RotationsAgree
    BY RotationsAgreeAt DEF AccOK
  <2>2. ASSUME NEW v \in Words PROVE SumsAgree(v) /\ DifferencesAgree(v)
    <3>1. v \in Word
      BY AluAssumption DEF Word
    <3>. QED
      BY <3>1, SumsAgreeAt, DifferencesAgreeAt DEF AccOK
  <2>. QED
    BY <2>1, <2>2
<1>. QED
  BY <1>1, AccumulatorIsWord, PTL

-----------------------------------------------------------------------------
(* Decimal arithmetic.                                                     *)

Decimal == 0 .. 9
Tens(d1, d0) == d0 + 10 * d1
Thousands(d3, d2, d1, d0) == d0 + 10 * d1 + (100 * d2 + 1000 * d3)

ValuesAre(n, d0, d1, d2, d3) ==
    /\ Value(n, TRUE) = Tens(d1, d0)
    /\ Value(n, FALSE) = Thousands(d3, d2, d1, d0)
    /\ IsDecimal(n) <=> d0 <= 9 /\ d1 <= 9 /\ d2 <= 9 /\ d3 <= 9

\* The decimal values of a number made of four digits.
LEMMA ValueIs ==
    ASSUME NEW n, NEW d0 \in Nibble, NEW d1 \in Nibble, NEW d2 \in Nibble, NEW d3 \in Nibble,
           DigitsAre(n, d0, d1, d2, d3)
    PROVE  ValuesAre(n, d0, d1, d2, d3)
<1>1. Digit(n, 0) = d0 /\ Digit(n, 1) = d1 /\ Digit(n, 2) = d2 /\ Digit(n, 3) = d3
  BY DigitOf DEF DigitsAre, Four
<1>2. Value(n, TRUE) = Tens(d1, d0)
  <2>1. Value(n, TRUE) = d0 + 10 * d1 + 0
    BY <1>1, Zenon DEF Value
  <2>2. d0 + 10 * d1 + 0 = Tens(d1, d0)
    BY SMT DEF Tens, Nibble
  <2>. QED
    BY <2>1, <2>2
<1>3. Value(n, FALSE) = Thousands(d3, d2, d1, d0)
  BY <1>1, SMT DEF Value, Thousands
<1>4. IsDecimal(n) <=> d0 <= 9 /\ d1 <= 9 /\ d2 <= 9 /\ d3 <= 9
  <2>1. \A k \in 0 .. 3 : k = 0 \/ k = 1 \/ k = 2 \/ k = 3
    BY SMT
  <2>2. 0 \in 0 .. 3 /\ 1 \in 0 .. 3 /\ 2 \in 0 .. 3 /\ 3 \in 0 .. 3
    BY SMT
  <2>. QED
    BY <1>1, <2>1, <2>2, Zenon DEF IsDecimal
<1>. QED
  BY <1>2, <1>3, <1>4, Zenon DEF ValuesAre

\* The digits of a decimal word and its values.
DecimalIs(n, d0, d1, d2, d3) ==
    /\ DigitsAre(n, d0, d1, d2, d3)
    /\ d0 = Digit(n, 0) /\ d1 = Digit(n, 1) /\ d2 = Digit(n, 2) /\ d3 = Digit(n, 3)
    /\ Value(n, TRUE) = Tens(d1, d0) /\ Value(n, FALSE) = Thousands(d3, d2, d1, d0)

\* A decimal word is made of four decimal digits.
LEMMA DecimalDigits ==
    ASSUME NEW n \in Word, IsDecimal(n)
    PROVE  \E d0, d1, d2, d3 \in Decimal : DecimalIs(n, d0, d1, d2, d3)
<1>1. PICK d0 \in Nibble, d1 \in Nibble, d2 \in Nibble, d3 \in Nibble :
        /\ d0 = Digit(n, 0) /\ d1 = Digit(n, 1) /\ d2 = Digit(n, 2) /\ d3 = Digit(n, 3)
        /\ DigitsAre(n, d0, d1, d2, d3)
  <2>1. 0 \in 0 .. 3 /\ 1 \in 0 .. 3 /\ 2 \in 0 .. 3 /\ 3 \in 0 .. 3
    BY SMT
  <2>. QED
    BY <2>1, DigitsSplit, Zenon
<1>2. ValuesAre(n, d0, d1, d2, d3)
  BY <1>1, ValueIs, Zenon
<1>3. d0 \in Decimal /\ d1 \in Decimal /\ d2 \in Decimal /\ d3 \in Decimal
  <2>1. d0 <= 9 /\ d1 <= 9 /\ d2 <= 9 /\ d3 <= 9
    BY <1>2, Zenon DEF ValuesAre
  <2>. QED
    BY <2>1, SMT DEF Nibble, Decimal
<1>. QED
  BY <1>1, <1>2, <1>3, Zenon DEF ValuesAre, DecimalIs

\* A corrected digit and its carry are the sum of two decimal digits.
LEMMA DecimalDigitSum ==
    ASSUME NEW x \in Decimal, NEW y \in Decimal, NEW c \in 0 .. 1, NEW s, s = x + y + c
    PROVE  /\ Corrected(s) \in Decimal /\ Carried(s) \in 0 .. 1
           /\ s = Corrected(s) + 10 * Carried(s)
BY SMT DEF Decimal, Corrected, Carried, Adjusted

\* A corrected digit and its borrow are the difference of two decimal digits.
LEMMA DecimalDigitDiff ==
    ASSUME NEW x \in Decimal, NEW y \in Decimal, NEW b \in 0 .. 1, NEW n, n = x - y - b
    PROVE  /\ n = Left(n) - 10 * Borrow(n)
           /\ Left(n) \in Decimal /\ Borrow(n) \in 0 .. 1
BY SMT DEF Decimal, Left, Borrow

\* The value k times the modulus beyond its digits, with the digits known.
TensAre(s, d1, d0, k) == s = Tens(d1, d0) + 100 * k
ThousandsAre(s, d3, d2, d1, d0, k) == s = Thousands(d3, d2, d1, d0) + 10000 * k

TensFacts(s, d1, d0, k) ==
    /\ s % Modulus(TRUE) = Tens(d1, d0)
    /\ s >= Modulus(TRUE) <=> k = 1
    /\ s >= 0 <=> k # -1
    /\ Tens(d1, d0) = 0 <=> d0 = 0 /\ d1 = 0
ThousandsFacts(s, d3, d2, d1, d0, k) ==
    /\ s % Modulus(FALSE) = Thousands(d3, d2, d1, d0)
    /\ s >= Modulus(FALSE) <=> k = 1
    /\ s >= 0 <=> k # -1
    /\ Thousands(d3, d2, d1, d0) = 0 <=> d0 = 0 /\ d1 = 0 /\ d2 = 0 /\ d3 = 0

\* What the digits and the carry say of a two-digit sum or difference.
LEMMA TensMod ==
    ASSUME NEW d0 \in Decimal, NEW d1 \in Decimal, NEW k \in {-1, 0, 1}, NEW s,
           TensAre(s, d1, d0, k)
    PROVE  TensFacts(s, d1, d0, k)
BY SMT DEF Decimal, Tens, TensAre, Modulus, TensFacts

\* The same of four digits.
LEMMA ThousandsMod ==
    ASSUME NEW d0 \in Decimal, NEW d1 \in Decimal, NEW d2 \in Decimal, NEW d3 \in Decimal,
           NEW k \in {-1, 0, 1}, NEW s, ThousandsAre(s, d3, d2, d1, d0, k)
    PROVE  ThousandsFacts(s, d3, d2, d1, d0, k)
BY SMT DEF Decimal, Thousands, ThousandsAre, Modulus, ThousandsFacts

\* The operand an operation sees at each width,
LEMMA SizeLow ==
    ASSUME NEW n
    PROVE  n % Size(TRUE) = Low(n) /\ n % Size(FALSE) = Word16(n)
BY DEF Size, Low, Word16

\* and that of a word.
LEMMA LowSize ==
    ASSUME NEW x \in Word
    PROVE  x % Size(TRUE) = Low(x) /\ x % Size(FALSE) = x
<1>1. Word16(x) = x
  BY SMT DEF Word, Word16
<1>. QED
  BY <1>1, SizeLow

\* Z follows the result.
LEMMA ResultZ ==
    ASSUME NEW acc, NEW f, NEW n, NEW w8
    PROVE  "Z" \in Result(acc, f, n, w8).p <=> n % Size(w8) = 0
<1>1. Result(acc, f, n, w8).p = Put(Put(f, "Z", n % Size(w8) = 0), "N", Negative(n, w8))
  BY DEF Result, setZN
<1>. QED
  BY <1>1 DEF Put

\* What the result of ADC is in decimal mode, d the decimal sum.
Shows(s, acc, d, w8) ==
    /\ s.a = Merge(acc, d.n, w8)
    /\ "Z" \in s.p <=> d.n % Size(w8) = 0
    /\ "C" \in s.p <=> d.out = 1

\* ADC shows the decimal sum.
LEMMA DecimalState ==
    ASSUME NEW acc, NEW x, NEW y, NEW q, "D" \in q, NEW w8
    PROVE  Shows(SumState(acc, x, y, q, w8), acc, DecimalSum(x, y, Bit(q, "C"), w8), w8)
<1>0. PICK s, d : s = SumState(acc, x, y, q, w8) /\ d = DecimalSum(x, y, Bit(q, "C"), w8)
  OBVIOUS
<1>1. SumN(x, y, q, w8) = d.n /\ (SumOut(x, y, q, w8) <=> d.out = 1)
  BY <1>0, Zenon DEF SumN, SumOut
<1>2. PICK f : f = SumFlags(q, OverflowBit(x, y, SumV(x, y, q, w8), w8), CarryOut(x, y, q, w8))
  OBVIOUS
<1>3. s = Result(acc, f, d.n, w8)
  BY <1>0, <1>1, <1>2, Zenon DEF SumState
<1>4. s.a = Merge(acc, d.n, w8) /\ ("Z" \in s.p <=> d.n % Size(w8) = 0)
  BY <1>3, ResultA, ResultZ
<1>5. "C" \in s.p <=> "C" \in f
  BY <1>3, ResultKeeps
<1>6. "C" \in f <=> CarryOut(x, y, q, w8) = 1
  BY <1>2, SumFlagsC
<1>. QED
  BY <1>0, <1>1, <1>4, <1>5, <1>6, CarryOutIs, Zenon DEF Shows

\* A byte of two digits put into a word, and a word of four.
BytePut(x, e0, e1, d2, d3) ==
    /\ DigitsAre(Merge(x, Two(e1, e0), TRUE), e0, e1, d2, d3)
    /\ Two(e1, e0) % Size(TRUE) = 0 <=> e0 = 0 /\ e1 = 0
WordPut(x, e0, e1, e2, e3) ==
    /\ DigitsAre(Merge(x, Four(e3, e2, e1, e0), FALSE), e0, e1, e2, e3)
    /\ Four(e3, e2, e1, e0) % Size(FALSE) = 0 <=> e0 = 0 /\ e1 = 0 /\ e2 = 0 /\ e3 = 0

\* A byte of two digits put into a word leaves the high digits.
LEMMA PutByte ==
    ASSUME NEW x \in Word, NEW d0 \in Nibble, NEW d1 \in Nibble, NEW d2 \in Nibble,
           NEW d3 \in Nibble, DigitsAre(x, d0, d1, d2, d3), NEW e0 \in Nibble, NEW e1 \in Nibble
    PROVE  BytePut(x, e0, e1, d2, d3)
<1>1. x \div 256 = 16 * d3 + d2
  BY HalfDigits
<1>2. PICK h \in Int : h = x \div 256 /\ h = 16 * d3 + d2
  <2>1. 16 * d3 + d2 \in Int
    BY SMT DEF Nibble
  <2>. QED
    BY <1>1, <2>1
<1>3. PICK l \in Byte : l = 16 * e1 + e0 /\ l = Two(e1, e0) /\ l % 256 = l
  <2>1. PICK l \in Byte : l = 16 * e1 + e0
    BY SMT DEF Byte, Nibble
  <2>2. l % 256 = l
    BY SMT DEF Byte
  <2>. QED
    BY <2>1, <2>2 DEF Two
<1>4. PICK m : m = Merge(x, Two(e1, e0), TRUE)
  OBVIOUS
<1>5. m = Pair(h, l)
  BY <1>2, <1>3, <1>4 DEF Merge, Pair
<1>6. DigitsAre(m, e0, e1, d2, d3)
  <2>1. h = 16 * d3 + d2 /\ l = 16 * e1 + e0
    BY <1>2, <1>3
  <2>2. Pair(h, l) = Four(d3, d2, e1, e0)
    BY <2>1, SMT DEF Pair, Four, Nibble
  <2>. QED
    BY <1>5, <2>2, Zenon DEF DigitsAre
<1>7. Two(e1, e0) % Size(TRUE) = l
  <2>1. Low(l) = l
    BY <1>3 DEF Low
  <2>. QED
    BY <1>3, <2>1, SizeLow, Zenon
<1>8. l = 0 <=> e0 = 0 /\ e1 = 0
  BY <1>3, SMT DEF Nibble
<1>. QED
  BY <1>4, <1>6, <1>7, <1>8, Zenon DEF BytePut

\* A word of four digits is the accumulator.
LEMMA PutWord ==
    ASSUME NEW x, NEW e0 \in Nibble, NEW e1 \in Nibble, NEW e2 \in Nibble, NEW e3 \in Nibble
    PROVE  WordPut(x, e0, e1, e2, e3)
<1>1. PICK w \in Word : w = Four(e3, e2, e1, e0)
  BY SMT DEF Nibble, Word, Four
<1>2. Word16(w) = w
  BY SMT DEF Word, Word16
<1>3. Merge(x, w, FALSE) = w
  <2>1. w \in Int
    BY SMT DEF Word
  <2>. QED
    BY <1>2, <2>1, MergeWord, Zenon
<1>4. DigitsAre(w, e0, e1, e2, e3)
  BY <1>1 DEF DigitsAre, Four
<1>5. w % Size(FALSE) = w
  BY <1>2, SizeLow, Zenon
<1>6. w = 0 <=> e0 = 0 /\ e1 = 0 /\ e2 = 0 /\ e3 = 0
  BY <1>1, SMT DEF Nibble, Four
<1>. QED
  BY <1>1, <1>3, <1>4, <1>5, <1>6, Zenon DEF WordPut

\* The columns of a decimal sum: its digits e and the carries k out of the
\* second and the fourth.
SumColumns(x, y, c, e0, e1, e2, e3, k1, k3) ==
    /\ TensAre(Value(x, TRUE) + Value(y, TRUE) + c, e1, e0, k1)
    /\ ThousandsAre(Value(x, FALSE) + Value(y, FALSE) + c, e3, e2, e1, e0, k3)
    /\ DecimalSum(Low(x), Low(y), c, TRUE).n = Two(e1, e0)
    /\ DecimalSum(Low(x), Low(y), c, TRUE).out = k1
    /\ DecimalSum(x, y, c, FALSE).n = Four(e3, e2, e1, e0)
    /\ DecimalSum(x, y, c, FALSE).out = k3

\* One column of a sum: the digits x and y and the carry c make s.
ColumnSum(s, x, y, c, e, k) ==
    /\ e = Corrected(s) /\ k = Carried(s) /\ s = x + y + c /\ x + y + c = e + 10 * k

\* Every column of decimal digits adds up.
LEMMA ColumnSumOf ==
    ASSUME NEW x \in Decimal, NEW y \in Decimal, NEW c \in 0 .. 1, NEW s, s = x + y + c
    PROVE  \E e \in Decimal, k \in 0 .. 1 : ColumnSum(s, x, y, c, e, k)
<1>1. /\ Corrected(s) \in Decimal /\ Carried(s) \in 0 .. 1
      /\ s = Corrected(s) + 10 * Carried(s)
  BY DecimalDigitSum
<1>. QED
  BY <1>1, Zenon DEF ColumnSum

\* A decimal sum adds up in columns, in two digits and in four.
LEMMA SumInColumns ==
    ASSUME NEW x \in Word, NEW y \in Word, NEW c \in 0 .. 1, IsDecimal(x), IsDecimal(y)
    PROVE  \E e0, e1, e2, e3 \in Decimal, k1, k3 \in 0 .. 1 :
             SumColumns(x, y, c, e0, e1, e2, e3, k1, k3)
<1>1. PICK x0, x1, x2, x3 \in Decimal : DecimalIs(x, x0, x1, x2, x3)
  BY DecimalDigits
<1>2. PICK y0, y1, y2, y3 \in Decimal : DecimalIs(y, y0, y1, y2, y3)
  BY DecimalDigits
<1>3. PICK s0, s1, s2, s3 : DigitSums(x, y, c, s0, s1, s2, s3)
  BY DEF DigitSums
<1>4. PICK e0 \in Decimal, k0 \in 0 .. 1 : ColumnSum(s0, x0, y0, c, e0, k0)
  <2>1. s0 = x0 + y0 + c
    BY <1>1, <1>2, <1>3, Zenon DEF DigitSums, DecimalIs
  <2>. QED
    BY <2>1, ColumnSumOf
<1>5. PICK e1 \in Decimal, k1 \in 0 .. 1 : ColumnSum(s1, x1, y1, k0, e1, k1)
  <2>1. s1 = x1 + y1 + k0
    BY <1>1, <1>2, <1>3, <1>4, Zenon DEF DigitSums, ColumnSum, DecimalIs
  <2>. QED
    BY <2>1, ColumnSumOf
<1>6. PICK e2 \in Decimal, k2 \in 0 .. 1 : ColumnSum(s2, x2, y2, k1, e2, k2)
  <2>1. s2 = x2 + y2 + k1
    BY <1>1, <1>2, <1>3, <1>5, Zenon DEF DigitSums, ColumnSum, DecimalIs
  <2>. QED
    BY <2>1, ColumnSumOf
<1>7. PICK e3 \in Decimal, k3 \in 0 .. 1 : ColumnSum(s3, x3, y3, k2, e3, k3)
  <2>1. s3 = x3 + y3 + k2
    BY <1>1, <1>2, <1>3, <1>6, Zenon DEF DigitSums, ColumnSum, DecimalIs
  <2>. QED
    BY <2>1, ColumnSumOf
<1>8. /\ x0 + y0 + c = e0 + 10 * k0 /\ x1 + y1 + k0 = e1 + 10 * k1
      /\ x2 + y2 + k1 = e2 + 10 * k2 /\ x3 + y3 + k2 = e3 + 10 * k3
  BY <1>4, <1>5, <1>6, <1>7, Zenon DEF ColumnSum
<1>9. TensAre(Value(x, TRUE) + Value(y, TRUE) + c, e1, e0, k1)
  <2>1. TensAre(Tens(x1, x0) + Tens(y1, y0) + c, e1, e0, k1)
    BY <1>8, SMT DEF Tens, TensAre, Decimal
  <2>. QED
    BY <1>1, <1>2, <2>1, Zenon DEF DecimalIs
<1>10. ThousandsAre(Value(x, FALSE) + Value(y, FALSE) + c, e3, e2, e1, e0, k3)
  <2>1. ThousandsAre(Thousands(x3, x2, x1, x0) + Thousands(y3, y2, y1, y0) + c,
                     e3, e2, e1, e0, k3)
    BY <1>8, SMT DEF Thousands, ThousandsAre, Decimal
  <2>. QED
    BY <1>1, <1>2, <2>1, Zenon DEF DecimalIs
<1>11. DecimalSums(x, y, c, s0, s1, s2, s3)
  BY <1>3, DecimalSumIs
<1>12. /\ e0 = Corrected(s0) /\ e1 = Corrected(s1) /\ e2 = Corrected(s2) /\ e3 = Corrected(s3)
       /\ k1 = Carried(s1) /\ k3 = Carried(s3)
  BY <1>4, <1>5, <1>6, <1>7, Zenon DEF ColumnSum
<1>13. PICK d : d = DecimalSum(Low(x), Low(y), c, TRUE)
  OBVIOUS
<1>14. d.n = Two(e1, e0) /\ d.out = k1
  <2>1. d = ByteSum(s0, s1)
    BY <1>11, <1>13, Zenon DEF DecimalSums
  <2>. QED
    BY <1>12, <2>1, Zenon DEF ByteSum
<1>15. PICK w : w = DecimalSum(x, y, c, FALSE)
  OBVIOUS
<1>16. w.n = Four(e3, e2, e1, e0) /\ w.out = k3
  <2>1. w = WordSum(s0, s1, s2, s3)
    BY <1>11, <1>15, Zenon DEF DecimalSums
  <2>. QED
    BY <1>12, <2>1, Zenon DEF WordSum
<1>17. SumColumns(x, y, c, e0, e1, e2, e3, k1, k3)
  BY <1>9, <1>10, <1>13, <1>14, <1>15, <1>16, Zenon DEF SumColumns
<1>. QED
  BY <1>17, Zenon

\* ADC in decimal mode is exact on bytes,
LEMMA SumExactByte ==
    ASSUME a \in Word, NEW v \in Word, "D" \in accP, IsDecimal(a), IsDecimal(v), Width = TRUE
    PROVE  SumExact(v)
<1>1. PICK c \in 0 .. 1 : c = Bit(accP, "C")
  BY SMT DEF Bit
<1>2. PICK e0, e1, e2, e3 \in Decimal, k1, k3 \in 0 .. 1 :
        SumColumns(a, v, c, e0, e1, e2, e3, k1, k3)
  BY SumInColumns
<1>3. PICK x0, x1, x2, x3 \in Decimal : DecimalIs(a, x0, x1, x2, x3)
  BY DecimalDigits
<1>4. PICK sum : sum = Value(a, TRUE) + Value(v, TRUE) + c
  OBVIOUS
<1>5. TensFacts(sum, e1, e0, k1)
  <2>1. k1 \in {-1, 0, 1}
    BY SMT
  <2>2. TensAre(sum, e1, e0, k1)
    BY <1>2, <1>4, Zenon DEF SumColumns
  <2>. QED
    BY <2>1, <2>2, TensMod
<1>6. PICK d : d = DecimalSum(Low(a), Low(v), c, TRUE)
  OBVIOUS
<1>7. d.n = Two(e1, e0) /\ d.out = k1
  BY <1>2, <1>6, Zenon DEF SumColumns
<1>8. PICK s : s = ADC(a, accP, v, TRUE)
  OBVIOUS
<1>9. Shows(s, a, d, TRUE)
  <2>1. s = SumState(a, Low(a), Low(v), accP, TRUE)
    BY <1>8, AdcIs, LowSize, Zenon
  <2>2. Shows(SumState(a, Low(a), Low(v), accP, TRUE), a,
              DecimalSum(Low(a), Low(v), Bit(accP, "C"), TRUE), TRUE)
    BY DecimalState
  <2>. QED
    BY <1>1, <1>6, <2>1, <2>2, Zenon
<1>10. /\ x0 \in Nibble /\ x1 \in Nibble /\ x2 \in Nibble /\ x3 \in Nibble
       /\ e0 \in Nibble /\ e1 \in Nibble
  BY SMT DEF Decimal, Nibble
<1>11. BytePut(a, e0, e1, x2, x3)
  <2>1. DigitsAre(a, x0, x1, x2, x3)
    BY <1>3, Zenon DEF DecimalIs
  <2>. QED
    BY <1>10, <2>1, PutByte, Zenon
<1>12. ValuesAre(s.a, e0, e1, x2, x3)
  <2>1. DigitsAre(s.a, e0, e1, x2, x3)
    BY <1>7, <1>9, <1>11, Zenon DEF BytePut, Shows
  <2>. QED
    BY <1>10, <2>1, ValueIs, Zenon
<1>13. IsDecimal(s.a)
  <2>1. e0 <= 9 /\ e1 <= 9 /\ x2 <= 9 /\ x3 <= 9
    BY SMT DEF Decimal
  <2>. QED
    BY <1>12, <2>1, Zenon DEF ValuesAre
<1>14. Value(s.a, TRUE) = sum % Modulus(TRUE)
  BY <1>5, <1>12, Zenon DEF ValuesAre, TensFacts
<1>15. "Z" \in s.p <=> sum % Modulus(TRUE) = 0
  BY <1>5, <1>7, <1>9, <1>11, Zenon DEF TensFacts, Shows, BytePut
<1>16. "C" \in s.p <=> sum >= Modulus(TRUE)
  BY <1>5, <1>7, <1>9, Zenon DEF TensFacts, Shows
<1>17. sum = Value(a, TRUE) + Value(v, TRUE) + Bit(accP, "C")
  BY <1>1, <1>4, Zenon
<1>. QED
  BY <1>8, <1>13, <1>14, <1>15, <1>16, <1>17, Zenon DEF SumExact

\* and on words.
LEMMA SumExactWord ==
    ASSUME a \in Word, NEW v \in Word, "D" \in accP, IsDecimal(a), IsDecimal(v), Width = FALSE
    PROVE  SumExact(v)
<1>1. PICK c \in 0 .. 1 : c = Bit(accP, "C")
  BY SMT DEF Bit
<1>2. PICK e0, e1, e2, e3 \in Decimal, k1, k3 \in 0 .. 1 :
        SumColumns(a, v, c, e0, e1, e2, e3, k1, k3)
  BY SumInColumns
<1>4. PICK sum : sum = Value(a, FALSE) + Value(v, FALSE) + c
  OBVIOUS
<1>5. ThousandsFacts(sum, e3, e2, e1, e0, k3)
  <2>1. k3 \in {-1, 0, 1}
    BY SMT
  <2>2. ThousandsAre(sum, e3, e2, e1, e0, k3)
    BY <1>2, <1>4, Zenon DEF SumColumns
  <2>. QED
    BY <2>1, <2>2, ThousandsMod
<1>6. PICK d : d = DecimalSum(a, v, c, FALSE)
  OBVIOUS
<1>7. d.n = Four(e3, e2, e1, e0) /\ d.out = k3
  BY <1>2, <1>6, Zenon DEF SumColumns
<1>8. PICK s : s = ADC(a, accP, v, FALSE)
  OBVIOUS
<1>9. Shows(s, a, d, FALSE)
  <2>1. s = SumState(a, a, v, accP, FALSE)
    BY <1>8, AdcIs, LowSize, Zenon
  <2>2. Shows(SumState(a, a, v, accP, FALSE), a, DecimalSum(a, v, Bit(accP, "C"), FALSE), FALSE)
    BY DecimalState
  <2>. QED
    BY <1>1, <1>6, <2>1, <2>2, Zenon
<1>10. e0 \in Nibble /\ e1 \in Nibble /\ e2 \in Nibble /\ e3 \in Nibble
  BY SMT DEF Decimal, Nibble
<1>11. WordPut(a, e0, e1, e2, e3)
  BY <1>10, PutWord, Zenon
<1>12. ValuesAre(s.a, e0, e1, e2, e3)
  <2>1. DigitsAre(s.a, e0, e1, e2, e3)
    BY <1>7, <1>9, <1>11, Zenon DEF WordPut, Shows
  <2>. QED
    BY <1>10, <2>1, ValueIs, Zenon
<1>13. IsDecimal(s.a)
  <2>1. e0 <= 9 /\ e1 <= 9 /\ e2 <= 9 /\ e3 <= 9
    BY SMT DEF Decimal
  <2>. QED
    BY <1>12, <2>1, Zenon DEF ValuesAre
<1>14. Value(s.a, FALSE) = sum % Modulus(FALSE)
  BY <1>5, <1>12, Zenon DEF ValuesAre, ThousandsFacts
<1>15. "Z" \in s.p <=> sum % Modulus(FALSE) = 0
  BY <1>5, <1>7, <1>9, <1>11, Zenon DEF ThousandsFacts, Shows, WordPut
<1>16. "C" \in s.p <=> sum >= Modulus(FALSE)
  BY <1>5, <1>7, <1>9, Zenon DEF ThousandsFacts, Shows
<1>17. sum = Value(a, FALSE) + Value(v, FALSE) + Bit(accP, "C")
  BY <1>1, <1>4, Zenon
<1>. QED
  BY <1>8, <1>13, <1>14, <1>15, <1>16, <1>17, Zenon DEF SumExact

\* The columns of a decimal difference: its digits e and the borrows k out of
\* the second and the fourth.
DifferenceColumns(x, y, q, c, e0, e1, e2, e3, k1, k3) ==
    /\ TensAre((Value(x, TRUE) - Value(y, TRUE)) - (1 - c), e1, e0, -k1)
    /\ ThousandsAre((Value(x, FALSE) - Value(y, FALSE)) - (1 - c), e3, e2, e1, e0, -k3)
    /\ DecimalDifference(Low(x), Low(y), c, TRUE) = Two(e1, e0)
    /\ DecimalDifference(x, y, c, FALSE) = Four(e3, e2, e1, e0)
    /\ RawOut(Low(x), Low(y), q, TRUE) = 1 <=> k1 = 0
    /\ RawOut(x, y, q, FALSE) = 1 <=> k3 = 0

\* One column of a difference: the digit y and the borrow b taken from x.
ColumnDiff(n, x, y, b, e, k) ==
    /\ e = Left(n) /\ k = Borrow(n) /\ n = x - y - b /\ x - y - b = e - 10 * k

\* Every column of decimal digits subtracts.
LEMMA ColumnDiffOf ==
    ASSUME NEW x \in Decimal, NEW y \in Decimal, NEW b \in 0 .. 1, NEW n, n = x - y - b
    PROVE  \E e \in Decimal, k \in 0 .. 1 : ColumnDiff(n, x, y, b, e, k)
<1>1. n = Left(n) - 10 * Borrow(n) /\ Left(n) \in Decimal /\ Borrow(n) \in 0 .. 1
  BY DecimalDigitDiff
<1>. QED
  BY <1>1, Zenon DEF ColumnDiff

\* In sixteens, as the binary difference counts the same borrows.
LEMMA ColumnBorrow ==
    ASSUME NEW x \in Decimal, NEW y \in Decimal, NEW b \in 0 .. 1, NEW e, NEW k, NEW n,
           ColumnDiff(n, x, y, b, e, k)
    PROVE  \E m \in Nibble : x - y - b = m - 16 * k
<1>1. x - y - b + 16 * k \in Nibble
  BY SMT DEF ColumnDiff, Borrow, Decimal, Nibble
<1>2. k \in Int
  BY SMT DEF ColumnDiff, Borrow
<1>3. x - y - b = (x - y - b + 16 * k) - 16 * k
  BY <1>2, SMT DEF Decimal
<1>. QED
  BY <1>1, <1>3

\* The carry out of the binary low difference is the complement of the borrow.
BorrowIs(x, y, q, n1) == RawOut(Low(x), Low(y), q, TRUE) = 1 <=> Borrow(n1) = 0

\* SBC's carry is the complement of the borrow of the low digits.
LEMMA BorrowOut ==
    ASSUME NEW x \in Word, NEW y \in Word, NEW q, NEW n0, NEW n1, NEW n2, NEW n3,
           DigitDiffs(x, y, Bit(q, "C"), n0, n1, n2, n3)
    PROVE  BorrowIs(x, y, q, n1)
<1>1. PICK c \in 0 .. 1 : c = Bit(q, "C")
  BY SMT DEF Bit
<1>2. PICK xl, yl : xl = Low(x) /\ yl = Low(y)
  OBVIOUS
<1>3. PICK r : r = Raw(xl, yl, q, TRUE)
  OBVIOUS
<1>4. OverByte(r) <=> Borrow(n1) = 0
  BY <1>1, <1>2, <1>3, BorrowAgrees, ZenonT(60)
<1>5. RawOut(xl, yl, q, TRUE) = ByteBit(r)
  BY <1>3, RawIs, Zenon
<1>6. ByteBit(r) = 1 <=> OverByte(r)
  BY SMT DEF ByteBit
<1>. QED
  BY <1>2, <1>4, <1>5, <1>6, Zenon DEF BorrowIs

\* A decimal difference subtracts in columns, in two digits and in four.
LEMMA DifferenceInColumns ==
    ASSUME NEW x \in Word, NEW y \in Word, NEW q, NEW c \in 0 .. 1, c = Bit(q, "C"),
           IsDecimal(x), IsDecimal(y)
    PROVE  \E e0, e1, e2, e3 \in Decimal, k1, k3 \in 0 .. 1 :
             DifferenceColumns(x, y, q, c, e0, e1, e2, e3, k1, k3)
<1>1. PICK x0, x1, x2, x3 \in Decimal : DecimalIs(x, x0, x1, x2, x3)
  BY DecimalDigits
<1>2. PICK y0, y1, y2, y3 \in Decimal : DecimalIs(y, y0, y1, y2, y3)
  BY DecimalDigits
<1>3. PICK n0, n1, n2, n3 : DigitDiffs(x, y, c, n0, n1, n2, n3)
  BY DEF DigitDiffs
<1>4. PICK b \in 0 .. 1 : b = 1 - c
  BY SMT
<1>5. PICK e0 \in Decimal, k0 \in 0 .. 1 : ColumnDiff(n0, x0, y0, b, e0, k0)
  <2>1. n0 = x0 - y0 - b
    BY <1>1, <1>2, <1>3, <1>4, Zenon DEF DigitDiffs, DecimalIs
  <2>. QED
    BY <2>1, ColumnDiffOf
<1>6. PICK e1 \in Decimal, k1 \in 0 .. 1 : ColumnDiff(n1, x1, y1, k0, e1, k1)
  <2>1. n1 = x1 - y1 - k0
    BY <1>1, <1>2, <1>3, <1>5, Zenon DEF DigitDiffs, DecimalIs, ColumnDiff
  <2>. QED
    BY <2>1, ColumnDiffOf
<1>7. PICK e2 \in Decimal, k2 \in 0 .. 1 : ColumnDiff(n2, x2, y2, k1, e2, k2)
  <2>1. n2 = x2 - y2 - k1
    BY <1>1, <1>2, <1>3, <1>6, Zenon DEF DigitDiffs, DecimalIs, ColumnDiff
  <2>. QED
    BY <2>1, ColumnDiffOf
<1>8. PICK e3 \in Decimal, k3 \in 0 .. 1 : ColumnDiff(n3, x3, y3, k2, e3, k3)
  <2>1. n3 = x3 - y3 - k2
    BY <1>1, <1>2, <1>3, <1>7, Zenon DEF DigitDiffs, DecimalIs, ColumnDiff
  <2>. QED
    BY <2>1, ColumnDiffOf
<1>9. /\ x0 - y0 - b = e0 - 10 * k0 /\ x1 - y1 - k0 = e1 - 10 * k1
      /\ x2 - y2 - k1 = e2 - 10 * k2 /\ x3 - y3 - k2 = e3 - 10 * k3
  BY <1>5, <1>6, <1>7, <1>8, Zenon DEF ColumnDiff
<1>10. TensAre((Value(x, TRUE) - Value(y, TRUE)) - (1 - c), e1, e0, -k1)
  <2>1. TensAre((Tens(x1, x0) - Tens(y1, y0)) - b, e1, e0, -k1)
    BY <1>9, SMT DEF Tens, TensAre, Decimal
  <2>. QED
    BY <1>1, <1>2, <1>4, <2>1, Zenon DEF DecimalIs
<1>11. ThousandsAre((Value(x, FALSE) - Value(y, FALSE)) - (1 - c), e3, e2, e1, e0, -k3)
  <2>1. ThousandsAre((Thousands(x3, x2, x1, x0) - Thousands(y3, y2, y1, y0)) - b,
                     e3, e2, e1, e0, -k3)
    BY <1>9, SMT DEF Thousands, ThousandsAre, Decimal
  <2>. QED
    BY <1>1, <1>2, <1>4, <2>1, Zenon DEF DecimalIs
<1>12. /\ e0 = Left(n0) /\ e1 = Left(n1) /\ e2 = Left(n2) /\ e3 = Left(n3)
       /\ k1 = Borrow(n1) /\ k3 = Borrow(n3)
  BY <1>5, <1>6, <1>7, <1>8, Zenon DEF ColumnDiff
<1>13. /\ DecimalDifference(Low(x), Low(y), c, TRUE) = Two(e1, e0)
       /\ DecimalDifference(x, y, c, FALSE) = Four(e3, e2, e1, e0)
  <2>1. DecimalDifferences(x, y, c, n0, n1, n2, n3)
    BY <1>3, DecimalDifferenceIs
  <2>. QED
    BY <1>12, <2>1, Zenon DEF DecimalDifferences
<1>14. RawOut(Low(x), Low(y), q, TRUE) = 1 <=> k1 = 0
  <2>1. DigitDiffs(x, y, Bit(q, "C"), n0, n1, n2, n3)
    BY <1>3
  <2>2. BorrowIs(x, y, q, n1)
    BY <2>1, BorrowOut, Zenon
  <2>. QED
    BY <1>12, <2>2, Zenon DEF BorrowIs
<1>15. RawOut(x, y, q, FALSE) = 1 <=> k3 = 0
  <2>1. PICK m0 \in Nibble : x0 - y0 - b = m0 - 16 * k0
    BY <1>5, ColumnBorrow
  <2>2. PICK m1 \in Nibble : x1 - y1 - k0 = m1 - 16 * k1
    BY <1>6, ColumnBorrow
  <2>3. PICK m2 \in Nibble : x2 - y2 - k1 = m2 - 16 * k2
    BY <1>7, ColumnBorrow
  <2>4. PICK m3 \in Nibble : x3 - y3 - k2 = m3 - 16 * k3
    BY <1>8, ColumnBorrow
  <2>5. x = Four(x3, x2, x1, x0) /\ y = Four(y3, y2, y1, y0)
    BY <1>1, <1>2, Zenon DEF DecimalIs, DigitsAre
  <2>6. PICK r : r = RawWord(Four(x3, x2, x1, x0), Four(y3, y2, y1, y0), c)
    OBVIOUS
  <2>7. OverWord(r) <=> k3 = 0
    <3>1. r = Four(m3, m2, m1, m0) + 65536 * (1 - k3)
      BY <1>4, <2>1, <2>2, <2>3, <2>4, <2>6, SMT DEF RawWord, Four, Decimal, Nibble
    <3>2. PICK w \in Word : w = Four(m3, m2, m1, m0)
      BY SMT DEF Nibble, Word, Four
    <3>. QED
      BY <3>1, <3>2, SMT DEF OverWord, Word
  <2>8. RawOut(x, y, q, FALSE) = WordBit(r)
    <3>1. Raw(x, y, q, FALSE) = RawWord(x, y, c)
      BY RawIs, Zenon
    <3>2. RawOut(x, y, q, FALSE) = WordBit(Raw(x, y, q, FALSE))
      BY RawIs
    <3>. QED
      BY <2>5, <2>6, <3>1, <3>2, Zenon
  <2>9. WordBit(r) = 1 <=> OverWord(r)
    BY SMT DEF WordBit
  <2>. QED
    BY <2>7, <2>8, <2>9, Zenon
<1>16. DifferenceColumns(x, y, q, c, e0, e1, e2, e3, k1, k3)
  BY <1>10, <1>11, <1>13, <1>14, <1>15, Zenon DEF DifferenceColumns
<1>. QED
  BY <1>16, Zenon

\* What the result of SBC is in decimal mode.
Takes(s, acc, n, out, w8) == s.a = Merge(acc, n, w8) /\ ("C" \in s.p <=> out = 1)

\* SBC takes the decimal difference.
LEMMA DifferenceState ==
    ASSUME NEW acc, NEW x, NEW y, NEW q, "D" \in q, NEW w8
    PROVE  Takes(DiffState(acc, x, y, q, w8), acc,
                 DecimalDifference(x, y, Bit(q, "C"), w8), RawOut(x, y, q, w8), w8)
<1>1. PICK s, n : s = DiffState(acc, x, y, q, w8)
                    /\ n = DecimalDifference(x, y, Bit(q, "C"), w8)
  OBVIOUS
<1>2. DiffN(x, y, q, w8) = n
  BY <1>1, Zenon DEF DiffN
<1>3. PICK f : f = SumFlags(q, PassedBit(x, y, Raw(x, y, q, w8), w8), RawOut(x, y, q, w8))
  OBVIOUS
<1>4. s = Result(acc, f, n, w8)
  BY <1>1, <1>2, <1>3, Zenon DEF DiffState
<1>5. s.a = Merge(acc, n, w8) /\ ("C" \in s.p <=> "C" \in f)
  BY <1>4, ResultA, ResultKeeps
<1>6. "C" \in f <=> RawOut(x, y, q, w8) = 1
  BY <1>3, SumFlagsC
<1>. QED
  BY <1>1, <1>5, <1>6, Zenon DEF Takes

\* SBC in decimal mode is exact on bytes,
LEMMA DifferenceExactByte ==
    ASSUME a \in Word, NEW v \in Word, "D" \in accP, IsDecimal(a), IsDecimal(v), Width = TRUE
    PROVE  DifferenceExact(v)
<1>1. PICK c \in 0 .. 1 : c = Bit(accP, "C")
  BY SMT DEF Bit
<1>2. PICK e0, e1, e2, e3 \in Decimal, k1, k3 \in 0 .. 1 :
        DifferenceColumns(a, v, accP, c, e0, e1, e2, e3, k1, k3)
  BY <1>1, DifferenceInColumns
<1>3. PICK x0, x1, x2, x3 \in Decimal : DecimalIs(a, x0, x1, x2, x3)
  BY DecimalDigits
<1>4. PICK diff : diff = (Value(a, TRUE) - Value(v, TRUE)) - (1 - c)
  OBVIOUS
<1>5. TensFacts(diff, e1, e0, -k1)
  <2>1. -k1 \in {-1, 0, 1}
    BY SMT
  <2>2. TensAre(diff, e1, e0, -k1)
    BY <1>2, <1>4, Zenon DEF DifferenceColumns
  <2>. QED
    BY <2>1, <2>2, TensMod
<1>6. PICK n, out : /\ n = DecimalDifference(Low(a), Low(v), c, TRUE)
                    /\ out = RawOut(Low(a), Low(v), accP, TRUE)
  OBVIOUS
<1>7. n = Two(e1, e0) /\ (out = 1 <=> k1 = 0)
  BY <1>2, <1>6, Zenon DEF DifferenceColumns
<1>8. PICK s : s = SBC(a, accP, v, TRUE)
  OBVIOUS
<1>9. Takes(s, a, n, out, TRUE)
  <2>1. s = DiffState(a, Low(a), Low(v), accP, TRUE)
    BY <1>8, SbcIs, LowSize, Zenon
  <2>2. Takes(DiffState(a, Low(a), Low(v), accP, TRUE), a,
              DecimalDifference(Low(a), Low(v), Bit(accP, "C"), TRUE),
              RawOut(Low(a), Low(v), accP, TRUE), TRUE)
    BY DifferenceState
  <2>. QED
    BY <1>1, <1>6, <2>1, <2>2, Zenon
<1>10. /\ x0 \in Nibble /\ x1 \in Nibble /\ x2 \in Nibble /\ x3 \in Nibble
       /\ e0 \in Nibble /\ e1 \in Nibble
  BY SMT DEF Decimal, Nibble
<1>11. BytePut(a, e0, e1, x2, x3)
  <2>1. DigitsAre(a, x0, x1, x2, x3)
    BY <1>3, Zenon DEF DecimalIs
  <2>. QED
    BY <1>10, <2>1, PutByte, Zenon
<1>12. ValuesAre(s.a, e0, e1, x2, x3)
  <2>1. DigitsAre(s.a, e0, e1, x2, x3)
    BY <1>7, <1>9, <1>11, Zenon DEF BytePut, Takes
  <2>. QED
    BY <1>10, <2>1, ValueIs, Zenon
<1>13. IsDecimal(s.a)
  <2>1. e0 <= 9 /\ e1 <= 9 /\ x2 <= 9 /\ x3 <= 9
    BY SMT DEF Decimal
  <2>. QED
    BY <1>12, <2>1, Zenon DEF ValuesAre
<1>14. Value(s.a, TRUE) = diff % Modulus(TRUE)
  BY <1>5, <1>12, Zenon DEF ValuesAre, TensFacts
<1>15. "C" \in s.p <=> diff >= 0
  <2>1. -k1 # -1 <=> k1 = 0
    BY SMT
  <2>. QED
    BY <1>5, <1>7, <1>9, <2>1, Zenon DEF TensFacts, Takes
<1>16. diff = (Value(a, TRUE) - Value(v, TRUE)) - (1 - Bit(accP, "C"))
  BY <1>1, <1>4, Zenon
<1>. QED
  BY <1>8, <1>13, <1>14, <1>15, <1>16, Zenon DEF DifferenceExact

\* and on words.
LEMMA DifferenceExactWord ==
    ASSUME a \in Word, NEW v \in Word, "D" \in accP, IsDecimal(a), IsDecimal(v), Width = FALSE
    PROVE  DifferenceExact(v)
<1>1. PICK c \in 0 .. 1 : c = Bit(accP, "C")
  BY SMT DEF Bit
<1>2. PICK e0, e1, e2, e3 \in Decimal, k1, k3 \in 0 .. 1 :
        DifferenceColumns(a, v, accP, c, e0, e1, e2, e3, k1, k3)
  BY <1>1, DifferenceInColumns
<1>3. PICK diff : diff = (Value(a, FALSE) - Value(v, FALSE)) - (1 - c)
  OBVIOUS
<1>4. ThousandsFacts(diff, e3, e2, e1, e0, -k3)
  <2>1. -k3 \in {-1, 0, 1}
    BY SMT
  <2>2. ThousandsAre(diff, e3, e2, e1, e0, -k3)
    BY <1>2, <1>3, Zenon DEF DifferenceColumns
  <2>. QED
    BY <2>1, <2>2, ThousandsMod
<1>5. PICK n, out : n = DecimalDifference(a, v, c, FALSE) /\ out = RawOut(a, v, accP, FALSE)
  OBVIOUS
<1>6. n = Four(e3, e2, e1, e0) /\ (out = 1 <=> k3 = 0)
  BY <1>2, <1>5, Zenon DEF DifferenceColumns
<1>7. PICK s : s = SBC(a, accP, v, FALSE)
  OBVIOUS
<1>8. Takes(s, a, n, out, FALSE)
  <2>1. s = DiffState(a, a, v, accP, FALSE)
    BY <1>7, SbcIs, LowSize, Zenon
  <2>2. Takes(DiffState(a, a, v, accP, FALSE), a, DecimalDifference(a, v, Bit(accP, "C"), FALSE),
              RawOut(a, v, accP, FALSE), FALSE)
    BY DifferenceState
  <2>. QED
    BY <1>1, <1>5, <2>1, <2>2, Zenon
<1>9. e0 \in Nibble /\ e1 \in Nibble /\ e2 \in Nibble /\ e3 \in Nibble
  BY SMT DEF Decimal, Nibble
<1>10. WordPut(a, e0, e1, e2, e3)
  BY <1>9, PutWord, Zenon
<1>11. ValuesAre(s.a, e0, e1, e2, e3)
  <2>1. DigitsAre(s.a, e0, e1, e2, e3)
    BY <1>6, <1>8, <1>10, Zenon DEF WordPut, Takes
  <2>. QED
    BY <1>9, <2>1, ValueIs, Zenon
<1>12. IsDecimal(s.a)
  <2>1. e0 <= 9 /\ e1 <= 9 /\ e2 <= 9 /\ e3 <= 9
    BY SMT DEF Decimal
  <2>. QED
    BY <1>11, <2>1, Zenon DEF ValuesAre
<1>13. Value(s.a, FALSE) = diff % Modulus(FALSE)
  BY <1>4, <1>11, Zenon DEF ValuesAre, ThousandsFacts
<1>14. "C" \in s.p <=> diff >= 0
  <2>1. -k3 # -1 <=> k3 = 0
    BY SMT
  <2>. QED
    BY <1>4, <1>6, <1>8, <2>1, Zenon DEF ThousandsFacts, Takes
<1>15. diff = (Value(a, FALSE) - Value(v, FALSE)) - (1 - Bit(accP, "C"))
  BY <1>1, <1>3, Zenon
<1>. QED
  BY <1>7, <1>12, <1>13, <1>14, <1>15, Zenon DEF DifferenceExact

\* The decimal mode is exact, at either width and for any operands that are
\* decimal: the digits of the sum and of the difference, the carry, and the
\* borrow that SBC reads off the binary difference.
THEOREM DecimalExactHolds ==
    AluSpec => []DecimalExact
<1>1. AccOK => DecimalExact
  <2>. SUFFICES ASSUME AccOK, "D" \in accP, IsDecimal(a), NEW v \in Words, IsDecimal(v)
                PROVE  SumExact(v) /\ DifferenceExact(v)
    BY DEF DecimalExact
  <2>1. a \in Word /\ v \in Word
    BY AluAssumption DEF AccOK, Word
  <2>2. CASE Width = TRUE
    BY <2>1, <2>2, SumExactByte, DifferenceExactByte
  <2>3. CASE Width = FALSE
    BY <2>1, <2>3, SumExactWord, DifferenceExactWord
  <2>4. Width = TRUE \/ Width = FALSE
    BY DEF Width
  <2>. QED
    BY <2>2, <2>3, <2>4
<1>. QED
  BY <1>1, AccumulatorIsWord, PTL
=============================================================================

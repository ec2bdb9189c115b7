------------------------------ MODULE Alu816 ------------------------------
(***************************************************************************)
(* The accumulator of the 65C816 at its two widths: ADC and SBC, binary or *)
(* decimal, compares, shifts and rotates, increments, XBA (the lambdas     *)
(* ADC, SBC, CMPr and setZN of CPU65816::step(), and the opcodes on A).    *)
(* A guest program is any sequence of them.                                *)
(***************************************************************************)
EXTENDS Integers

CONSTANTS
    Accumulators, \* bound: values loaded into A
    Words       \* bound: 16-bit operands

VARIABLES
    a,          \* a_: the 16-bit accumulator
    accP        \* p_: the flags set, of M, C, D, V, N, Z

ASSUME AluAssumption ==
    Accumulators \subseteq {n \in Nat : n < 65536} /\ Words \subseteq {n \in Nat : n < 65536}

aluVars == <<a, accP>>

\* w8: an 8-bit accumulator.
Size(w8) == IF w8 THEN 256 ELSE 65536
Negative(n, w8) == n % Size(w8) >= Size(w8) \div 2
Sixteens(k) == CASE k = 0 -> 1 [] k = 1 -> 16 [] k = 2 -> 256 [] k = 3 -> 4096
Digit(n, k) == (n \div Sixteens(k)) % 16

Put(q, f, cond) == IF cond THEN q \cup {f} ELSE q \ {f}
Bit(q, f) == IF f \in q THEN 1 ELSE 0

\* setZN8, setZN16.
setZN(q, n, w8) == Put(Put(q, "Z", n % Size(w8) = 0), "N", Negative(n, w8))

\* An 8-bit result leaves the high byte, B, alone.
Merge(acc, n, w8) == IF w8 THEN 256 * (acc \div 256) + (n % 256) ELSE n % 65536

\* The state after a result n with the flags q, Z and N still to set.
Result(acc, q, n, w8) == [a |-> Merge(acc, n, w8), p |-> setZN(q, n, w8)]

-----------------------------------------------------------------------------
(* ADC and SBC.                                                            *)

\* A digit of ten or more is corrected by six.
Adjusted(s) == IF s > 9 THEN s + 6 ELSE s

\* Mutant of Carried: the carry is read before the correction.
CarriedEarly(s) == IF s > 15 THEN 1 ELSE 0

Carried(s) == IF Adjusted(s) > 15 THEN 1 ELSE 0

\* The decimal sum: its digits, and the top one before its correction, which
\* V looks at.
DecimalSum(x, y, c, w8) ==
    LET s0 == Digit(x, 0) + Digit(y, 0) + c
        s1 == Digit(x, 1) + Digit(y, 1) + Carried(s0)
        s2 == Digit(x, 2) + Digit(y, 2) + Carried(s1)
        s3 == Digit(x, 3) + Digit(y, 3) + Carried(s2)
        d(s) == Adjusted(s) % 16
    IN  IF w8
        THEN [n |-> 16 * d(s1) + d(s0), v |-> 16 * (s1 % 16), out |-> Carried(s1)]
        ELSE [n |-> 4096 * d(s3) + 256 * d(s2) + 16 * d(s1) + d(s0),
              v |-> 4096 * (s3 % 16), out |-> Carried(s3)]

\* ADC at width w8.
ADC(acc, q, operand, w8) ==
    LET x == acc % Size(w8)
        y == operand % Size(w8)
        r == x + y + Bit(q, "C")
        dec == DecimalSum(x, y, Bit(q, "C"), w8)
        sum == IF "D" \in q THEN [n |-> dec.n, v |-> dec.v, out |-> dec.out = 1]
               ELSE [n |-> r, v |-> r, out |-> r >= Size(w8)]
        V == Negative(x, w8) = Negative(y, w8) /\ Negative(x, w8) # Negative(sum.v, w8)
    IN  Result(acc, Put(Put(q, "V", V), "C", sum.out), sum.n, w8)

\* The decimal difference: each digit that borrows is corrected by six.
DecimalDifference(x, y, c, w8) ==
    LET borrow(n) == IF n < 0 THEN 1 ELSE 0
        d(n) == (IF n < 0 THEN n - 6 ELSE n) % 16
        n0 == Digit(x, 0) - Digit(y, 0) - (1 - c)
        n1 == Digit(x, 1) - Digit(y, 1) - borrow(n0)
        n2 == Digit(x, 2) - Digit(y, 2) - borrow(n1)
        n3 == Digit(x, 3) - Digit(y, 3) - borrow(n2)
    IN  16 * d(n1) + d(n0) + (IF w8 THEN 0 ELSE 4096 * d(n3) + 256 * d(n2))

\* Mutant of SBC: the 8-bit branch takes the carry of the decimal digits.
SBCDigitCarry(acc, q, operand, w8) ==
    LET x == acc % Size(w8)
        y == operand % Size(w8)
        r == x + (Size(w8) - 1 - y) + Bit(q, "C")
        V == Negative(x, w8) # Negative(y, w8) /\ Negative(x, w8) # Negative(r, w8)
        n == IF "D" \in q THEN DecimalDifference(x, y, Bit(q, "C"), w8) ELSE r
        out == IF w8 /\ "D" \in q THEN Digit(x, 1) >= Digit(y, 1) ELSE r >= Size(w8)
    IN  Result(acc, Put(Put(q, "V", V), "C", out), n, w8)

\* SBC: V and C come from the binary difference in both modes.
SBC(acc, q, operand, w8) ==
    LET x == acc % Size(w8)
        y == operand % Size(w8)
        r == x + (Size(w8) - 1 - y) + Bit(q, "C")
        V == Negative(x, w8) # Negative(y, w8) /\ Negative(x, w8) # Negative(r, w8)
        n == IF "D" \in q THEN DecimalDifference(x, y, Bit(q, "C"), w8) ELSE r
    IN  Result(acc, Put(Put(q, "V", V), "C", r >= Size(w8)), n, w8)

-----------------------------------------------------------------------------
(* The other operations on A.                                              *)

CMP(acc, q, operand, w8) ==
    LET x == acc % Size(w8)
        y == operand % Size(w8)
    IN  [a |-> acc, p |-> setZN(Put(q, "C", x >= y), x - y, w8)]

\* ASL and ROL; LSR and ROR.
ShiftLeft(acc, q, rotate, w8) ==
    LET x == acc % Size(w8)
    IN  Result(acc, Put(q, "C", Negative(x, w8)),
               2 * x + (IF rotate THEN Bit(q, "C") ELSE 0), w8)
ShiftRight(acc, q, rotate, w8) ==
    LET x == acc % Size(w8)
        top == IF rotate THEN (Size(w8) \div 2) * Bit(q, "C") ELSE 0
    IN  Result(acc, Put(q, "C", x % 2 = 1), (x \div 2) + top, w8)

\* INC A and DEC A.
Step(acc, q, by, w8) == Result(acc, q, (acc + by) % Size(w8), w8)

\* XBA: N and Z follow the new low byte at either width.
XBA(acc, q) ==
    LET swapped == 256 * (acc % 256) + (acc \div 256)
    IN  [a |-> swapped, p |-> setZN(q, swapped, TRUE)]

-----------------------------------------------------------------------------
AluInit ==
    /\ a \in Accumulators
    /\ accP \in {f \cup {"Z"} : f \in SUBSET {"M", "C", "D"}}

Becomes(s) == a' = s.a /\ accP' = s.p

Arithmetic == \E v \in Words : \/ Becomes(ADC(a, accP, v, "M" \in accP))
                               \/ Becomes(SBC(a, accP, v, "M" \in accP))
                               \/ Becomes(CMP(a, accP, v, "M" \in accP))
Shifts == \E rotate \in BOOLEAN : \/ Becomes(ShiftLeft(a, accP, rotate, "M" \in accP))
                                  \/ Becomes(ShiftRight(a, accP, rotate, "M" \in accP))
Steps == \E by \in {1, -1} : Becomes(Step(a, accP, by, "M" \in accP))
Exchange == Becomes(XBA(a, accP))
\* LDA of a 16-bit word with the flag instructions around it.
Load == \E v \in Accumulators, f \in SUBSET {"M", "C", "D"} : a' = v /\ accP' = setZN(f, v, FALSE)

\* Bound: the program loads A again once a result is not in Accumulators.
AluNext ==
    \/ a \in Accumulators /\ (Arithmetic \/ Shifts \/ Steps \/ Exchange)
    \/ Load

AluSpec == AluInit /\ [][AluNext]_aluVars

-----------------------------------------------------------------------------
(* Properties.                                                             *)

Width == "M" \in accP
IsDecimal(n) == \A k \in 0 .. 3 : Digit(n, k) <= 9
Value(n, w8) ==
    Digit(n, 0) + 10 * Digit(n, 1) + (IF w8 THEN 0 ELSE 100 * Digit(n, 2) + 1000 * Digit(n, 3))
Modulus(w8) == IF w8 THEN 100 ELSE 10000

\* The digits of the exact sum or difference, C for the carry or for no borrow,
\* and after a sum Z of the digits that stay.
SumExact(v) ==
    LET s == ADC(a, accP, v, Width)
        sum == Value(a, Width) + Value(v, Width) + Bit(accP, "C")
    IN  /\ Value(s.a, Width) = sum % Modulus(Width) /\ IsDecimal(s.a)
        /\ "C" \in s.p <=> sum >= Modulus(Width)
        /\ "Z" \in s.p <=> sum % Modulus(Width) = 0
DifferenceExact(v) ==
    LET s == SBC(a, accP, v, Width)
        difference == (Value(a, Width) - Value(v, Width)) - (1 - Bit(accP, "C"))
    IN  /\ Value(s.a, Width) = difference % Modulus(Width) /\ IsDecimal(s.a)
        /\ "C" \in s.p <=> difference >= 0

\* In decimal mode ADC and SBC of decimal operands are decimal arithmetic, at
\* either width.
DecimalExact ==
    "D" \in accP /\ IsDecimal(a) =>
      \A v \in Words : IsDecimal(v) => SumExact(v) /\ DifferenceExact(v)

\* The state two 8-bit operations leave, the low one first, and that of one
\* 16-bit operation; Z tells the two apart and is left out.
Halves(low, high) == [a |-> 256 * (high.a % 256) + (low.a % 256), p |-> high.p \ {"Z"}]
Whole(s) == [a |-> s.a, p |-> s.p \ {"Z"}]

\* The same operation on v, or on A alone, in halves and whole.
SumsAgree(v) ==
    LET low == ADC(a % 256, accP, v % 256, TRUE)
    IN  Halves(low, ADC(a \div 256, low.p, v \div 256, TRUE)) = Whole(ADC(a, accP, v, FALSE))
DifferencesAgree(v) ==
    LET low == SBC(a % 256, accP, v % 256, TRUE)
    IN  Halves(low, SBC(a \div 256, low.p, v \div 256, TRUE)) = Whole(SBC(a, accP, v, FALSE))
RotationsAgree ==
    LET low == ShiftLeft(a % 256, accP, TRUE, TRUE)
    IN  Halves(low, ShiftLeft(a \div 256, low.p, TRUE, TRUE))
          = Whole(ShiftLeft(a, accP, TRUE, FALSE))

\* A program may split a 16-bit addition, subtraction or shift into two 8-bit
\* ones chained by the carry: accumulator, C, V and N come out the same, for
\* any operands and in either mode.
WidthsAgree == RotationsAgree /\ \A v \in Words : SumsAgree(v) /\ DifferencesAgree(v)

=============================================================================

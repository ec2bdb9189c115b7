---------------------------- MODULE Cpu816_proofs ----------------------------
(***************************************************************************)
(* Proofs about Cpu816, for every set of stack pointers, index values,     *)
(* operands and targets and any number of calls under way: the registers obey *)
(* the rules of the mode the CPU is in, and a return undoes its call.      *)
(*                                                                         *)
(* The second rests on what a frame remembers: each push puts its bytes in *)
(* cells of their own (PushedAt), the pulls that follow from the pointer it *)
(* left meet them in reverse order (PullMeetsPush), wherever the stack wraps, *)
(* and those bytes bring the registers back (InterruptRestores,            *)
(* CallRestores).                                                          *)
(***************************************************************************)
EXTENDS Cpu816, TLAPS

-----------------------------------------------------------------------------
(* Words and bytes.                                                        *)

LEMMA WordSet == Word = {n \in Int : 0 <= n /\ n < 65536}
BY SMT DEF Word

LEMMA OctetSet == Octet = {n \in Int : 0 <= n /\ n < 256}
BY SMT DEF Octet

LEMMA WordBounds == ASSUME NEW n \in Word PROVE n \in Int /\ 0 <= n /\ n < 65536
BY WordSet, SMT

\* A number modulo the width of a byte or a word, in one way.
LEMMA ByteRest ==
    ASSUME NEW n \in Int
    PROVE  /\ n % 256 \in Int /\ 0 <= n % 256 /\ n % 256 < 256 /\ n \div 256 \in Int
           /\ n = 256 * (n \div 256) + (n % 256)
BY SMT

LEMMA WordRest ==
    ASSUME NEW n \in Int
    PROVE  /\ n % 65536 \in Int /\ 0 <= n % 65536 /\ n % 65536 < 65536 /\ n \div 65536 \in Int
           /\ n = 65536 * (n \div 65536) + (n % 65536)
BY SMT

LEMMA ByteUnique ==
    ASSUME NEW q \in Int, NEW r \in Int, 0 <= r, r < 256, NEW n \in Int, n = 256 * q + r
    PROVE  n % 256 = r
BY SMT

LEMMA WordUnique ==
    ASSUME NEW q \in Int, NEW r \in Int, 0 <= r, r < 65536, NEW n \in Int, n = 65536 * q + r
    PROVE  n % 65536 = r
BY SMT

\* A sum modulo a width: what is reduced first does not matter.
LEMMA ByteSum ==
    ASSUME NEW a \in Int, NEW b \in Int
    PROVE  ((a % 256) + b) % 256 = (a + b) % 256
<1>1. PICK q \in Int, r \in Int : a = 256 * q + r /\ r = a % 256
  BY ByteRest, SMT
<1>2. PICK c \in Int : c = r + b
  BY <1>1, SMT
<1>3. PICK u \in Int, v \in Int : c = 256 * u + v /\ v = c % 256 /\ 0 <= v /\ v < 256
  BY ByteRest, SMT
<1>4. a + b = 256 * (q + u) + v
  BY <1>1, <1>2, <1>3, SMT
<1>5. (a + b) % 256 = v
  BY <1>3, <1>4, ByteUnique, SMT
<1>. QED
  BY <1>1, <1>2, <1>3, <1>5, SMT

LEMMA WordSum ==
    ASSUME NEW a \in Int, NEW b \in Int
    PROVE  ((a % 65536) + b) % 65536 = (a + b) % 65536
<1>1. PICK q \in Int, r \in Int : a = 65536 * q + r /\ r = a % 65536
  BY WordRest, SMT
<1>2. PICK c \in Int : c = r + b
  BY <1>1, SMT
<1>3. PICK u \in Int, v \in Int : c = 65536 * u + v /\ v = c % 65536 /\ 0 <= v /\ v < 65536
  BY WordRest, SMT
<1>4. a + b = 65536 * (q + u) + v
  BY <1>1, <1>2, <1>3, SMT
<1>5. (a + b) % 65536 = v
  BY <1>3, <1>4, WordUnique, SMT
<1>. QED
  BY <1>1, <1>2, <1>3, <1>5, SMT

\* Numbers less than a width apart differ modulo the width.
LEMMA ByteApart ==
    ASSUME NEW a \in Int, NEW b \in Int, a # b, a - b < 256, b - a < 256
    PROVE  a % 256 # b % 256
BY ByteRest, SMT

LEMMA WordApart ==
    ASSUME NEW a \in Int, NEW b \in Int, a # b, a - b < 65536, b - a < 65536
    PROVE  a % 65536 # b % 65536
BY WordRest, SMT

LEMMA WordMod == ASSUME NEW n \in Int PROVE Wrapped(n) \in Word
BY WordSet, WordRest, SMT DEF Wrapped

LEMMA WordSame == ASSUME NEW n \in Word PROVE Wrapped(n) = n
<1>1. n = 65536 * 0 + n
  BY WordSet, SMT
<1>. QED
  BY <1>1, WordUnique, WordBounds, SMT DEF Wrapped

LEMMA Halves ==
    ASSUME NEW w \in Word
    PROVE  /\ LowByte(w) \in Octet /\ HighByte(w) \in Octet
           /\ LowByte(w) + 256 * HighByte(w) = w
BY WordSet, OctetSet, SMT DEF LowByte, HighByte

LEMMA LowIsWord ==
    ASSUME NEW w \in Word
    PROVE  LowByte(w) \in Word /\ HighByte(LowByte(w)) = 0
BY WordSet, SMT DEF LowByte, HighByte

LEMMA OctetIsWord == ASSUME NEW b \in Octet PROVE b \in Word /\ HighByte(b) = 0
BY WordSet, OctetSet, SMT DEF HighByte

LEMMA TwoOctets ==
    ASSUME NEW l \in Octet, NEW h \in Octet PROVE l + 256 * h \in Word
BY WordSet, OctetSet, SMT

LEMMA PageOneWord ==
    ASSUME NEW n \in Int PROVE PageOne(n) \in Word /\ HighByte(PageOne(n)) = 1
<1>1. PICK r \in Int : PageOne(n) = 256 + r /\ 0 <= r /\ r < 256
  BY ByteRest, SMT DEF PageOne, LowByte
<1>. QED
  BY WordSet, <1>1, SMT DEF HighByte

-----------------------------------------------------------------------------
(* P as a byte.                                                            *)

LEMMA Weights ==
    /\ DOMAIN Weight = PFlags
    /\ Weight["C"] = 1 /\ Weight["I"] = 4 /\ Weight["X"] = 16 /\ Weight["M"] = 32
BY DEF Weight, PFlags

\* Four bits of a byte are the flags put in it.
LEMMA FourBits ==
    ASSUME NEW c \in {0, 1}, NEW i \in {0, 1}, NEW y \in {0, 1}, NEW m \in {0, 1},
           NEW b, b = c + 4 * i + 16 * y + 32 * m
    PROVE  /\ b \in Octet
           /\ (b \div 1) % 2 = c /\ (b \div 4) % 2 = i
           /\ (b \div 16) % 2 = y /\ (b \div 32) % 2 = m
BY OctetSet, SMT

Bit(f, q) == IF f \in q THEN 1 ELSE 0

LEMMA FlagsOfByte ==
    ASSUME NEW q \in SUBSET PFlags
    PROVE  Byte(q) \in Octet /\ Flags(Byte(q)) = q
<1> DEFINE c == Bit("C", q)
           i == Bit("I", q)
           y == Bit("X", q)
           m == Bit("M", q)
<1>1. c \in {0, 1} /\ i \in {0, 1} /\ y \in {0, 1} /\ m \in {0, 1}
  BY DEF Bit
<1>2. Byte(q) = c + 4 * i + 16 * y + 32 * m
  BY DEF Byte, Bit
<1>3. /\ ("C" \in q) <=> (c = 1)
      /\ ("I" \in q) <=> (i = 1)
      /\ ("X" \in q) <=> (y = 1)
      /\ ("M" \in q) <=> (m = 1)
  BY DEF Bit
<1> HIDE DEF c, i, y, m
<1>4. /\ Byte(q) \in Octet
      /\ (Byte(q) \div 1) % 2 = c /\ (Byte(q) \div 4) % 2 = i
      /\ (Byte(q) \div 16) % 2 = y /\ (Byte(q) \div 32) % 2 = m
  BY <1>1, <1>2, FourBits
<1>5. \A f \in PFlags : ((Byte(q) \div Weight[f]) % 2 = 1) <=> (f \in q)
  BY <1>3, <1>4, Weights DEF PFlags
<1>. QED
  BY <1>4, <1>5, Weights DEF Flags

LEMMA FlagsInP == ASSUME NEW b PROVE Flags(b) \in SUBSET PFlags
BY Weights DEF Flags

-----------------------------------------------------------------------------
(* The state.                                                              *)

StackOK == \A k \in DOMAIN stack : stack[k] \in Octet

CpuTypeOK ==
    /\ emulation \in BOOLEAN /\ p \in SUBSET PFlags
    /\ x \in Word /\ sp \in Word /\ pc \in Word /\ pbr \in Octet
    /\ StackOK

CpuInv == CpuTypeOK /\ RegisterRules

LEMMA MovedWord ==
    ASSUME NEW s \in Word, NEW by \in Int, NEW raw \in BOOLEAN
    PROVE  Moved(s, by, raw) \in Word
<1>1. s + by \in Int
  BY WordBounds, SMT
<1>2. PageOne(s + by) \in Word /\ Wrapped(s + by) \in Word
  BY <1>1, PageOneWord, WordMod
<1>. QED
  BY <1>2, Zenon DEF Moved

LEMMA SettledWord ==
    ASSUME NEW s \in Word, NEW e \in BOOLEAN
    PROVE  Settled(s, e) \in Word /\ (e => HighByte(Settled(s, e)) = 1)
<1>1. s \in Int /\ PageOne(s) \in Word /\ HighByte(PageOne(s)) = 1
  BY WordBounds, PageOneWord
<1>. QED
  BY <1>1, Zenon DEF Settled

LEMMA PulledOctet ==
    ASSUME StackOK, NEW n, NEW raw \in BOOLEAN
    PROVE  Pulled(n, raw) \in Octet /\ PulledWord(n, raw) \in Word
<1>1. 0 \in Octet
  BY OctetSet, SMT
<1>2. Pulled(n, raw) \in Octet /\ Pulled(n + 1, raw) \in Octet
  BY <1>1, Zenon DEF Pulled, Peek, StackOK
<1>. QED
  BY <1>2, TwoOctets, ZenonT(60) DEF PulledWord

\* The bytes of an instruction's push, in order.
Octets(bytes) == /\ DOMAIN bytes = 1 .. Len(bytes) /\ Len(bytes) \in 1 .. 4
                 /\ \A n \in DOMAIN bytes : bytes[n] \in Octet

LEMMA PushKeeps ==
    ASSUME CpuTypeOK, NEW bytes, Octets(bytes), NEW raw \in BOOLEAN, Push(bytes, raw)
    PROVE  /\ StackOK' /\ sp' \in Word /\ (emulation => HighByte(sp') = 1)
           /\ DOMAIN Pushed(bytes, raw) \subseteq DOMAIN stack'
           /\ DOMAIN stack \subseteq DOMAIN stack'
           /\ \A k \in DOMAIN Pushed(bytes, raw) : Pushed(bytes, raw)[k] \in Octet
<1> DEFINE cells == Pushed(bytes, raw)
<1>1. \A k \in DOMAIN cells : cells[k] \in Octet
  <2> SUFFICES ASSUME NEW k \in DOMAIN cells PROVE cells[k] \in Octet
    OBVIOUS
  <2>1. \E n \in DOMAIN bytes : PushCell(sp, n, raw) = k
    BY Zenon DEF Pushed
  <2>2. cells[k] = bytes[CHOOSE n \in DOMAIN bytes : PushCell(sp, n, raw) = k]
    BY Zenon DEF Pushed
  <2>. QED
    BY <2>1, <2>2, Zenon DEF Octets
<1>2. stack' = [k \in DOMAIN cells \cup DOMAIN stack |->
                  IF k \in DOMAIN cells THEN cells[k] ELSE stack[k]]
  BY Zenon DEF Push
<1> HIDE DEF cells
<1>3. /\ DOMAIN stack' = DOMAIN cells \cup DOMAIN stack
      /\ \A k \in DOMAIN stack' : stack'[k] = IF k \in DOMAIN cells THEN cells[k] ELSE stack[k]
  BY <1>2, Zenon
<1>4. StackOK'
  BY <1>1, <1>3, Zenon DEF CpuTypeOK, StackOK
<1>5. sp' = Settled(Moved(sp, -Len(bytes), raw), emulation)
  BY Zenon DEF Push
<1>6. -Len(bytes) \in Int
  BY DEF Octets
<1>7. Moved(sp, -Len(bytes), raw) \in Word
  BY <1>6, MovedWord, Zenon DEF CpuTypeOK
<1>8. sp' \in Word /\ (emulation => HighByte(sp') = 1)
  BY <1>5, <1>7, SettledWord, Zenon DEF CpuTypeOK
<1>. QED
  BY <1>1, <1>3, <1>4, <1>8, Zenon DEF cells

LEMMA PullKeeps ==
    ASSUME CpuTypeOK, NEW n \in Int, NEW raw \in BOOLEAN, Pull(n, raw)
    PROVE  StackOK' /\ sp' \in Word /\ (emulation => HighByte(sp') = 1) /\ stack' = stack
<1>1. sp' = Settled(Moved(sp, n, raw), emulation) /\ stack' = stack
  BY Zenon DEF Pull
<1>2. Moved(sp, n, raw) \in Word
  BY MovedWord, Zenon DEF CpuTypeOK
<1>3. StackOK'
  BY <1>1, Zenon DEF StackOK, CpuTypeOK
<1>. QED
  BY <1>1, <1>2, <1>3, SettledWord, Zenon DEF CpuTypeOK

-----------------------------------------------------------------------------
(* Types and register rules.                                               *)

LEMMA Tuples ==
    /\ \A a \in Octet : Octets(<<a>>) /\ Len(<<a>>) = 1
    /\ \A a, b \in Octet : Octets(<<a, b>>) /\ Len(<<a, b>>) = 2
    /\ \A a, b, c \in Octet : Octets(<<a, b, c>>) /\ Len(<<a, b, c>>) = 3
    /\ \A a, b, c, d \in Octet : Octets(<<a, b, c, d>>) /\ Len(<<a, b, c, d>>) = 4
<1>1. \A a \in Octet : Octets(<<a>>) /\ Len(<<a>>) = 1
  BY DEF Octets
<1>2. \A a, b \in Octet : Octets(<<a, b>>) /\ Len(<<a, b>>) = 2
  BY DEF Octets
<1>3. \A a, b, c \in Octet : Octets(<<a, b, c>>) /\ Len(<<a, b, c>>) = 3
  BY DEF Octets
<1>4. \A a, b, c, d \in Octet : Octets(<<a, b, c, d>>) /\ Len(<<a, b, c, d>>) = 4
  BY DEF Octets
<1>. QED
  BY <1>1, <1>2, <1>3, <1>4, Zenon

LEMMA PushedP ==
    ASSUME CpuTypeOK PROVE HardwareP \in Octet /\ SoftwareP \in Octet
<1>1. /\ p \in SUBSET PFlags /\ (p \ {"X"}) \cup {"M"} \in SUBSET PFlags
      /\ p \cup {"M", "X"} \in SUBSET PFlags
  BY DEF CpuTypeOK, PFlags
<1>2. /\ Byte(p) \in Octet /\ Byte((p \ {"X"}) \cup {"M"}) \in Octet
      /\ Byte(p \cup {"M", "X"}) \in Octet
  BY <1>1, FlagsOfByte, Zenon
<1>. QED
  BY <1>2, Zenon DEF HardwareP, SoftwareP

LEMMA InterruptOctets ==
    ASSUME CpuTypeOK, NEW resume \in Word, NEW b \in Octet
    PROVE  Octets(InterruptBytes(resume, b))
<1>1. LowByte(resume) \in Octet /\ HighByte(resume) \in Octet /\ pbr \in Octet
  BY Halves, Zenon DEF CpuTypeOK
<1>2. /\ Octets(<<HighByte(resume), LowByte(resume), b>>)
      /\ Octets(<<pbr, HighByte(resume), LowByte(resume), b>>)
  BY <1>1, Tuples, Zenon
<1>. QED
  BY <1>2, Zenon DEF InterruptBytes

LEMMA WordOctets == ASSUME NEW w \in Word PROVE Octets(WordBytes(w))
BY Halves, Tuples, Zenon DEF WordBytes

\* The assumption on the constants, in these terms.
LEMMA Given ==
    /\ Stacks \subseteq Word /\ Indexes \subseteq Word
    /\ \A mask \in Masks : mask \in SUBSET PFlags
    /\ \A t \in Targets : t.bank \in Octet /\ t.pc \in Word
BY CpuAssumption, Zenon

\* What a step must establish.
LEMMA Established ==
    ASSUME emulation' \in BOOLEAN, p' \in SUBSET PFlags, x' \in Word, sp' \in Word,
           pc' \in Word, pbr' \in Octet, StackOK',
           emulation' => {"M", "X"} \subseteq p' /\ HighByte(sp') = 1,
           "X" \in p' => HighByte(x') = 0
    PROVE  CpuInv'
BY Zenon DEF CpuInv, CpuTypeOK, RegisterRules

LEMMA OnPage == ASSUME CpuInv PROVE emulation => HighByte(sp) = 1
BY Zenon DEF CpuInv, RegisterRules

\* An interrupt, hardware or software.
LEMMA VectoredKeeps ==
    ASSUME CpuInv, NEW resume \in Word, NEW b \in Octet, NEW t \in Targets,
           Vectored(resume, b, t)
    PROVE  CpuInv'
<1> DEFINE bytes == InterruptBytes(resume, b)
<1>1. CpuTypeOK
  BY Zenon DEF CpuInv
<1>2. Octets(bytes)
  BY <1>1, InterruptOctets, Zenon
<1>3. Push(bytes, FALSE)
  BY Zenon DEF Vectored
<1> HIDE DEF bytes
<1>4. PICK w \in BOOLEAN : w = FALSE /\ Push(bytes, w)
  BY <1>3, Zenon
<1>5. StackOK' /\ sp' \in Word /\ (emulation => HighByte(sp') = 1)
  BY <1>1, <1>2, <1>4, PushKeeps, Zenon
<1>6. p' = p \cup {"I"} /\ pbr' = 0 /\ pc' = t.pc /\ emulation' = emulation /\ x' = x
  BY Zenon DEF Vectored
<1>7. pc' \in Word
  BY <1>6, Given, Zenon
<1>8. pbr' \in Octet
  BY OctetSet, <1>6, SMT
<1>9. p' \in SUBSET PFlags
  BY <1>1, <1>6 DEF CpuTypeOK, PFlags
<1>10. "X" \in p' => "X" \in p
  BY <1>6
<1>11. emulation => {"M", "X"} \subseteq p'
  BY <1>6 DEF CpuInv, RegisterRules
<1>. QED
  BY <1>1, <1>5, <1>6, <1>7, <1>8, <1>9, <1>10, <1>11, Established, Zenon
  DEF CpuInv, CpuTypeOK, RegisterRules

\* An instruction that pushes and leaves the registers.
LEMMA PushOnly ==
    ASSUME CpuInv, NEW bytes, Octets(bytes), NEW raw \in BOOLEAN, Push(bytes, raw),
           emulation' = emulation, p' = p, x' = x, pc' \in Word, pbr' \in Octet
    PROVE  CpuInv'
<1>1. CpuTypeOK
  BY Zenon DEF CpuInv
<1>2. StackOK' /\ sp' \in Word /\ (emulation => HighByte(sp') = 1)
  BY <1>1, PushKeeps, Zenon
<1>. QED
  BY <1>1, <1>2, Established, Zenon DEF CpuInv, CpuTypeOK, RegisterRules

\* An instruction that pulls.
LEMMA PullOnly ==
    ASSUME CpuInv, NEW n \in Int, NEW raw \in BOOLEAN, Pull(n, raw),
           emulation' = emulation, pc' \in Word, pbr' \in Octet,
           p' \in SUBSET PFlags, emulation => {"M", "X"} \subseteq p',
           x' \in Word, "X" \in p' => HighByte(x') = 0
    PROVE  CpuInv'
<1>1. CpuTypeOK
  BY Zenon DEF CpuInv
<1>2. StackOK' /\ sp' \in Word /\ (emulation => HighByte(sp') = 1)
  BY <1>1, PullKeeps, Zenon
<1>. QED
  BY <1>1, <1>2, Established, Zenon DEF CpuInv, CpuTypeOK, RegisterRules

LEMMA NextKeeps ==
    ASSUME CpuTypeOK, NEW n \in Int, Next1(n) PROVE pc' \in Word /\ pbr' \in Octet
<1>1. pc + n \in Int
  BY WordBounds, SMT DEF CpuTypeOK
<1>2. Wrapped(pc + n) \in Word
  BY <1>1, WordMod, Zenon
<1>. QED
  BY <1>2, Zenon DEF Next1, CpuTypeOK

LEMMA PlusWord == ASSUME NEW w \in Word, NEW n \in Int PROVE Wrapped(w + n) \in Word
<1>1. w + n \in Int
  BY WordBounds, SMT
<1>. QED
  BY <1>1, WordMod, Zenon

LEMMA LessOneWord == ASSUME NEW w \in Word PROVE Wrapped(w - 1) \in Word
<1>1. w - 1 \in Int
  BY WordBounds, SMT
<1>. QED
  BY <1>1, WordMod, Zenon

\* P from the stack, and the index that goes with it.
LEMMA ReloadedOK ==
    ASSUME CpuTypeOK, NEW b
    PROVE  Reloaded(b) \in SUBSET PFlags /\ (emulation => {"M", "X"} \subseteq Reloaded(b))
<1>1. Flags(b) \in SUBSET PFlags
  BY FlagsInP, Zenon
<1>2. Flags(b) \cup {"M", "X"} \in SUBSET PFlags
  BY <1>1 DEF PFlags
<1>3. {"M", "X"} \subseteq Flags(b) \cup {"M", "X"}
  OBVIOUS
<1>. QED
  BY <1>1, <1>2, <1>3, Zenon DEF Reloaded

LEMMA NarrowedOK ==
    ASSUME CpuTypeOK, NEW q
    PROVE  Narrowed(q) \in Word /\ ("X" \in q => HighByte(Narrowed(q)) = 0)
<1>1. x \in Word /\ LowByte(x) \in Word /\ HighByte(LowByte(x)) = 0
  BY LowIsWord, Zenon DEF CpuTypeOK
<1>. QED
  BY <1>1, Zenon DEF Narrowed, eX

-----------------------------------------------------------------------------
(* One lemma per kind of instruction.                                      *)

LEMMA InterruptsKeep == ASSUME CpuInv, Nmi \/ Irq \/ BrkCop PROVE CpuInv'
<1>1. CpuTypeOK /\ pc \in Word /\ HardwareP \in Octet /\ SoftwareP \in Octet
  BY PushedP, Zenon DEF CpuInv, CpuTypeOK
<1>2. Wrapped(pc + 2) \in Word
  BY <1>1, PlusWord
<1>3. CASE Nmi \/ Irq
  BY <1>1, <1>3, VectoredKeeps, Zenon DEF Nmi, Irq
<1>4. CASE BrkCop
  BY <1>1, <1>2, <1>4, VectoredKeeps, Zenon DEF BrkCop
<1>. QED
  BY <1>3, <1>4, Zenon

LEMMA CallsKeep == ASSUME CpuInv, NEW t \in Targets, JSR(t) \/ JSL(t) PROVE CpuInv'
<1>1. CpuTypeOK /\ pc \in Word /\ pbr \in Octet /\ t.pc \in Word /\ t.bank \in Octet
  BY Given, Zenon DEF CpuInv, CpuTypeOK
<1>2. PICK w \in BOOLEAN : w = FALSE
  OBVIOUS
<1>3. PICK v \in BOOLEAN : v = TRUE
  OBVIOUS
<1>4. CASE JSR(t)
  <2> DEFINE last == Wrapped(Wrapped(pc + 3) - 1)
             bytes == WordBytes(last)
  <2>1. last \in Word
    BY <1>1, PlusWord, LessOneWord
  <2>2. Push(bytes, FALSE)
    BY <1>4, Zenon DEF JSR
  <2>3. emulation' = emulation /\ p' = p /\ x' = x /\ pc' = t.pc /\ pbr' = pbr
    BY <1>4, Zenon DEF JSR
  <2> HIDE DEF last
  <2>4. Octets(bytes)
    BY <2>1, WordOctets, Zenon
  <2> HIDE DEF bytes
  <2>5. Push(bytes, w)
    BY <1>2, <2>2, Zenon
  <2>. QED
    BY <1>1, <2>3, <2>4, <2>5, PushOnly, Zenon
<1>5. CASE JSL(t)
  <2> DEFINE last == Wrapped(Wrapped(pc + 4) - 1)
             bytes == <<pbr, HighByte(last), LowByte(last)>>
  <2>1. last \in Word
    BY <1>1, PlusWord, LessOneWord
  <2>2. Push(bytes, TRUE)
    BY <1>5, Zenon DEF JSL
  <2>3. emulation' = emulation /\ p' = p /\ x' = x /\ pc' = t.pc /\ pbr' = t.bank
    BY <1>5, Zenon DEF JSL
  <2> HIDE DEF last
  <2>4. Octets(bytes)
    BY <1>1, <2>1, Halves, Tuples, Zenon
  <2> HIDE DEF bytes
  <2>5. Push(bytes, v)
    BY <1>3, <2>2, Zenon
  <2>. QED
    BY <1>1, <2>3, <2>4, <2>5, PushOnly, Zenon
<1>. QED
  BY <1>4, <1>5, Zenon

LEMMA ReturnsKeep == ASSUME CpuInv, RTI \/ RTS \/ RTL PROVE CpuInv'
<1>1. /\ CpuTypeOK /\ StackOK /\ pbr \in Octet /\ p \in SUBSET PFlags /\ x \in Word
      /\ (emulation => {"M", "X"} \subseteq p) /\ ("X" \in p => HighByte(x) = 0)
  BY Zenon DEF CpuInv, CpuTypeOK, RegisterRules
<1>2. PICK w \in BOOLEAN : w = FALSE
  OBVIOUS
<1>3. PICK v \in BOOLEAN : v = TRUE
  OBVIOUS
<1>4. \A n, r : r \in BOOLEAN => Pulled(n, r) \in Octet /\ PulledWord(n, r) \in Word
  BY <1>1, PulledOctet, Zenon
<1>5. \A n, r : r \in BOOLEAN => Wrapped(PulledWord(n, r) + 1) \in Word
  <2>1. \A m \in Word : Wrapped(m + 1) \in Word
    BY PlusWord
  <2>. QED
    BY <1>4, <2>1, Zenon
<1>6. CASE RTI
  <2>1. /\ emulation' = emulation /\ p' = Reloaded(Pulled(1, w)) /\ pc' = PulledWord(2, w)
        /\ pbr' = (IF emulation THEN pbr ELSE Pulled(4, w)) /\ x' = Narrowed(p')
        /\ Pull(IF emulation THEN 3 ELSE 4, w)
    BY <1>2, <1>6, Zenon DEF RTI
  <2>2. pc' \in Word /\ pbr' \in Octet
    BY <1>1, <1>4, <2>1, Zenon
  <2>3. PICK k \in Int : Pull(k, w)
    BY <2>1
  <2>4. p' \in SUBSET PFlags /\ (emulation => {"M", "X"} \subseteq p')
    BY <1>1, <2>1, ReloadedOK, Zenon
  <2>5. x' \in Word /\ ("X" \in p' => HighByte(x') = 0)
    BY <1>1, <2>1, NarrowedOK, Zenon
  <2>. QED
    BY <2>1, <2>2, <2>3, <2>4, <2>5, PullOnly, Zenon
<1>7. CASE RTS
  <2>1. /\ emulation' = emulation /\ p' = p /\ x' = x /\ pbr' = pbr
        /\ pc' = Wrapped(PulledWord(1, w) + 1) /\ Pull(2, w)
    BY <1>2, <1>7, Zenon DEF RTS
  <2>2. pc' \in Word
    BY <1>5, <2>1, Zenon
  <2>3. PICK k \in Int : Pull(k, w)
    BY <2>1
  <2>. QED
    BY <1>1, <2>1, <2>2, <2>3, PullOnly, Zenon
<1>8. CASE RTL
  <2>1. /\ emulation' = emulation /\ p' = p /\ x' = x /\ pbr' = Pulled(3, v)
        /\ pc' = Wrapped(PulledWord(1, v) + 1) /\ Pull(3, v)
    BY <1>3, <1>8, Zenon DEF RTL
  <2>2. pc' \in Word /\ pbr' \in Octet
    BY <1>4, <1>5, <2>1, Zenon
  <2>3. PICK k \in Int : Pull(k, v)
    BY <2>1
  <2>. QED
    BY <1>1, <2>1, <2>2, <2>3, PullOnly, Zenon
<1>. QED
  BY <1>6, <1>7, <1>8, Zenon

\* Pushes and pulls of single values.
LEMMA PushesKeep == ASSUME CpuInv, PHP \/ PHX \/ PHK PROVE CpuInv'
<1>1. /\ CpuTypeOK /\ pbr \in Octet /\ x \in Word /\ SoftwareP \in Octet
      /\ LowByte(x) \in Octet
  BY PushedP, Halves, Zenon DEF CpuInv, CpuTypeOK
<1>2. PICK w \in BOOLEAN : w = FALSE
  OBVIOUS
<1>3. PICK v \in BOOLEAN : v = TRUE
  OBVIOUS
<1>4. /\ Octets(<<SoftwareP>>) /\ Octets(<<LowByte(x)>>) /\ Octets(WordBytes(x))
      /\ Octets(<<pbr>>)
  BY <1>1, Tuples, WordOctets, Zenon
<1>5. Next1(1) /\ emulation' = emulation /\ p' = p /\ x' = x
  BY Zenon DEF PHP, PHX, PHK
<1>6. pc' \in Word /\ pbr' \in Octet
  BY <1>1, <1>5, NextKeeps
<1>7. \E bytes : Octets(bytes) /\ \E raw \in BOOLEAN : Push(bytes, raw)
  <2>1. CASE PHP
    <3>1. Push(<<SoftwareP>>, w)
      BY <1>2, <2>1, Zenon DEF PHP
    <3>. QED
      BY <1>4, <3>1, Zenon
  <2>2. CASE PHX
    <3>1. Push(IF eX(emulation, p) THEN <<LowByte(x)>> ELSE WordBytes(x), w)
      BY <1>2, <2>2, Zenon DEF PHX
    <3>. QED
      BY <1>4, <3>1, Zenon
  <2>3. CASE PHK
    <3>1. Push(<<pbr>>, v)
      BY <1>3, <2>3, Zenon DEF PHK
    <3>. QED
      BY <1>4, <3>1, Zenon
  <2>. QED
    BY <2>1, <2>2, <2>3, Zenon
<1>. QED
  BY <1>5, <1>6, <1>7, PushOnly, Zenon

LEMMA PullsKeep == ASSUME CpuInv, PLP \/ PLX \/ PLB PROVE CpuInv'
<1>1. /\ CpuTypeOK /\ StackOK /\ pbr \in Octet /\ p \in SUBSET PFlags /\ x \in Word
      /\ (emulation => {"M", "X"} \subseteq p) /\ ("X" \in p => HighByte(x) = 0)
  BY Zenon DEF CpuInv, CpuTypeOK, RegisterRules
<1>2. PICK w \in BOOLEAN : w = FALSE
  OBVIOUS
<1>3. PICK v \in BOOLEAN : v = TRUE
  OBVIOUS
<1>4. Next1(1) /\ emulation' = emulation
  BY Zenon DEF PLP, PLX, PLB
<1>5. pc' \in Word /\ pbr' \in Octet
  BY <1>1, <1>4, NextKeeps
<1>6. CASE PLP
  <2>1. /\ p' = Reloaded(Pulled(1, FALSE)) /\ x' = Narrowed(p') /\ Pull(1, w)
    BY <1>2, <1>6, Zenon DEF PLP
  <2>2. PICK k \in Int : Pull(k, w)
    BY <2>1
  <2>3. p' \in SUBSET PFlags /\ (emulation => {"M", "X"} \subseteq p')
    BY <1>1, <2>1, ReloadedOK, Zenon
  <2>4. x' \in Word /\ ("X" \in p' => HighByte(x') = 0)
    BY <1>1, <2>1, NarrowedOK, Zenon
  <2>. QED
    BY <1>4, <1>5, <2>2, <2>3, <2>4, PullOnly, Zenon
<1>7. CASE PLX
  <2>1. /\ x' = (IF eX(emulation, p) THEN Pulled(1, w) ELSE PulledWord(1, w)) /\ p' = p
        /\ Pull(IF eX(emulation, p) THEN 1 ELSE 2, w)
    BY <1>2, <1>7, Zenon DEF PLX
  <2>2. PICK k \in Int : Pull(k, w)
    BY <2>1
  <2>3. Pulled(1, w) \in Octet /\ PulledWord(1, w) \in Word
    BY <1>1, PulledOctet, Zenon
  <2>4. Pulled(1, w) \in Word /\ HighByte(Pulled(1, w)) = 0
    BY <2>3, OctetIsWord, Zenon
  <2>5. x' \in Word
    BY <2>1, <2>3, <2>4, Zenon
  <2>6. "X" \in p' => HighByte(x') = 0
    BY <2>1, <2>4, Zenon DEF eX
  <2>. QED
    BY <1>1, <1>4, <1>5, <2>1, <2>2, <2>5, <2>6, PullOnly, Zenon
<1>8. CASE PLB
  <2>1. Pull(1, v) /\ p' = p /\ x' = x
    BY <1>3, <1>8, Zenon DEF PLB
  <2>2. PICK k \in Int : Pull(k, v)
    BY <2>1
  <2>. QED
    BY <1>1, <1>4, <1>5, <2>1, <2>2, PullOnly, Zenon
<1>. QED
  BY <1>6, <1>7, <1>8, Zenon

\* The stack pointer a register instruction leaves.
LEMMA StackSame == ASSUME CpuTypeOK, stack' = stack PROVE StackOK'
BY Zenon DEF CpuTypeOK, StackOK

\* REP, SEP and LDX.
LEMMA OperandsKeep ==
    ASSUME CpuInv, \/ \E mask \in Masks : REP(mask) \/ SEP(mask)
                   \/ \E v \in Indexes : LDX(v)
    PROVE  CpuInv'
<1>1. /\ CpuTypeOK /\ p \in SUBSET PFlags /\ x \in Word /\ sp \in Word /\ emulation \in BOOLEAN
      /\ (emulation => {"M", "X"} \subseteq p) /\ ("X" \in p => HighByte(x) = 0)
      /\ (emulation => HighByte(sp) = 1)
  BY Zenon DEF CpuInv, CpuTypeOK, RegisterRules
<1>2. LowByte(x) \in Word /\ HighByte(LowByte(x)) = 0
  BY <1>1, LowIsWord, Zenon
<1>3. PICK n \in Int : Next1(n)
  <2>1. CASE \E mask \in Masks : REP(mask) \/ SEP(mask)
    BY <2>1 DEF REP, SEP
  <2>2. CASE \E v \in Indexes : LDX(v)
    BY <2>2 DEF LDX
  <2>. QED
    BY <2>1, <2>2
<1>4. pc' \in Word /\ pbr' \in Octet
  BY <1>1, <1>3, NextKeeps, Zenon
<1>5. emulation' = emulation /\ sp' = sp /\ stack' = stack
  BY Zenon DEF REP, SEP, LDX
<1>6. StackOK'
  BY <1>1, <1>5, StackSame, Zenon
<1>7. ASSUME NEW mask \in Masks, REP(mask) PROVE CpuInv'
  <2>1. p' = (p \ mask) \cup (IF emulation THEN {"M", "X"} ELSE {}) /\ x' = x
    BY <1>7, Zenon DEF REP
  <2>2. p' \in SUBSET PFlags /\ (emulation => {"M", "X"} \subseteq p')
    BY <1>1, <2>1 DEF PFlags
  <2>3. "X" \in p' => "X" \in p
    BY <1>1, <2>1
  <2>. QED
    BY <1>1, <1>4, <1>5, <1>6, <2>1, <2>2, <2>3, Established, Zenon
<1>8. ASSUME NEW mask \in Masks, SEP(mask) PROVE CpuInv'
  <2>1. p' = p \cup mask /\ x' = (IF "X" \in p' THEN LowByte(x) ELSE x)
    BY <1>8, Zenon DEF SEP
  <2>2. mask \in SUBSET PFlags
    BY Given, Zenon
  <2>3. p' \in SUBSET PFlags /\ (emulation => {"M", "X"} \subseteq p')
    BY <1>1, <2>1, <2>2
  <2>4. x' \in Word /\ ("X" \in p' => HighByte(x') = 0)
    BY <1>1, <1>2, <2>1, Zenon
  <2>. QED
    BY <1>1, <1>4, <1>5, <1>6, <2>3, <2>4, Established, Zenon
<1>9. ASSUME NEW v \in Indexes, LDX(v) PROVE CpuInv'
  <2>1. p' = p /\ x' = (IF eX(emulation, p) THEN LowByte(v) ELSE v)
    BY <1>9, Zenon DEF LDX
  <2>2. v \in Word
    BY Given, Zenon
  <2>3. LowByte(v) \in Word /\ HighByte(LowByte(v)) = 0
    BY <2>2, LowIsWord, Zenon
  <2>4. x' \in Word /\ ("X" \in p => HighByte(x') = 0)
    BY <2>1, <2>2, <2>3, Zenon DEF eX
  <2>. QED
    BY <1>1, <1>4, <1>5, <1>6, <2>1, <2>4, Established, Zenon
<1>. QED
  BY <1>7, <1>8, <1>9, Zenon

\* XCE, TXS and TSX.
LEMMA RegistersKeep == ASSUME CpuInv, XCE \/ TXS \/ TSX PROVE CpuInv'
<1>1. /\ CpuTypeOK /\ p \in SUBSET PFlags /\ x \in Word /\ sp \in Word /\ emulation \in BOOLEAN
      /\ (emulation => {"M", "X"} \subseteq p) /\ ("X" \in p => HighByte(x) = 0)
      /\ (emulation => HighByte(sp) = 1)
  BY Zenon DEF CpuInv, CpuTypeOK, RegisterRules
<1>2. /\ LowByte(x) \in Word /\ HighByte(LowByte(x)) = 0
      /\ LowByte(sp) \in Word /\ HighByte(LowByte(sp)) = 0
  BY <1>1, LowIsWord, Zenon
<1>3. Next1(1) /\ stack' = stack
  BY Zenon DEF XCE, TXS, TSX
<1>4. pc' \in Word /\ pbr' \in Octet /\ StackOK'
  BY <1>1, <1>3, NextKeeps, StackSame
<1>5. CASE XCE
  <2>1. /\ emulation' = ("C" \in p)
        /\ p' = (p \ {"C"}) \cup (IF emulation THEN {"C"} ELSE {})
                            \cup (IF emulation' THEN {"M", "X"} ELSE {})
        /\ x' = (IF emulation' THEN LowByte(x) ELSE x)
        /\ sp' = Settled(sp, emulation')
    BY <1>5, Zenon DEF XCE
  <2>2. emulation' \in BOOLEAN
    BY <2>1
  <2>3. sp' \in Word /\ (emulation' => HighByte(sp') = 1)
    BY <1>1, <2>1, <2>2, SettledWord, Zenon
  <2>4. /\ p' \in SUBSET PFlags /\ (emulation' => {"M", "X"} \subseteq p')
        /\ ("X" \in p' => emulation' \/ "X" \in p)
    BY <1>1, <2>1 DEF PFlags
  <2>5. x' \in Word /\ ("X" \in p' => HighByte(x') = 0)
    BY <1>1, <1>2, <2>1, <2>4, Zenon
  <2>. QED
    BY <1>4, <2>2, <2>3, <2>4, <2>5, Established, Zenon
<1>6. CASE TXS
  <2>1. sp' = Settled(x, emulation) /\ emulation' = emulation /\ p' = p /\ x' = x
    BY <1>6, Zenon DEF TXS
  <2>2. sp' \in Word /\ (emulation => HighByte(sp') = 1)
    BY <1>1, <2>1, SettledWord, Zenon
  <2>. QED
    BY <1>1, <1>4, <2>1, <2>2, Established, Zenon
<1>7. CASE TSX
  <2>1. /\ x' = (IF eX(emulation, p) THEN LowByte(sp) ELSE sp)
        /\ emulation' = emulation /\ p' = p /\ sp' = sp
    BY <1>7, Zenon DEF TSX
  <2>2. x' \in Word /\ ("X" \in p => HighByte(x') = 0)
    BY <1>1, <1>2, <2>1, Zenon DEF eX
  <2>. QED
    BY <1>1, <1>4, <2>1, <2>2, Established, Zenon
<1>. QED
  BY <1>5, <1>6, <1>7, Zenon

-----------------------------------------------------------------------------
(* The register rules.                                                     *)

LEMMA CpuStart == CpuInit => CpuInv
<1> SUFFICES ASSUME CpuInit PROVE CpuInv
  OBVIOUS
<1>1. emulation \in BOOLEAN /\ x = 0 /\ pc = 0 /\ stack = <<>>
  BY Zenon DEF CpuInit
<1>2. pbr = IF emulation THEN 0 ELSE 1
  BY Zenon DEF CpuInit
<1>3. 0 \in Word /\ 0 \in Octet /\ 1 \in Octet /\ HighByte(0) = 0
  BY WordSet, OctetSet, SMT DEF HighByte
<1>4. x \in Word /\ pc \in Word /\ pbr \in Octet /\ HighByte(x) = 0
  BY <1>1, <1>2, <1>3, Zenon
<1>5. StackOK
  BY <1>1 DEF StackOK
<1>6. p \in SUBSET PFlags /\ (emulation => {"M", "X"} \subseteq p)
  BY <1>1 DEF CpuInit, PFlags
<1>7. PICK s \in Stacks : sp = IF emulation THEN PageOne(s) ELSE s
  BY Zenon DEF CpuInit
<1>8. s \in Word /\ PageOne(s) \in Word /\ HighByte(PageOne(s)) = 1
  BY Given, WordBounds, PageOneWord
<1>9. sp \in Word /\ (emulation => HighByte(sp) = 1)
  BY <1>7, <1>8, Zenon
<1>. QED
  BY <1>1, <1>4, <1>5, <1>6, <1>9, Zenon DEF CpuInv, CpuTypeOK, RegisterRules

LEMMA CpuStep == CpuInv /\ [CpuNext]_cpuVars => CpuInv'
<1> SUFFICES ASSUME CpuInv, [CpuNext]_cpuVars PROVE CpuInv'
  OBVIOUS
<1>1. CASE CpuNext
  BY <1>1, InterruptsKeep, CallsKeep, ReturnsKeep, PushesKeep, PullsKeep, OperandsKeep,
     RegistersKeep, Zenon DEF CpuNext
<1>2. CASE UNCHANGED cpuVars
  <2>1. UNCHANGED <<emulation, p, x, sp, pc, pbr, stack>>
    BY <1>2, Zenon DEF cpuVars, cpuRegisters
  <2>. QED
    BY <2>1, Zenon DEF CpuInv, CpuTypeOK, RegisterRules, StackOK
<1>. QED
  BY <1>1, <1>2, Zenon

\* After any sequence of instructions and interrupts, from any stack pointer,
\* the registers obey the rules of the mode the CPU is in.
THEOREM RegisterRulesHold == CpuSpec => []RegisterRules
<1>1. CpuInv => RegisterRules
  BY Zenon DEF CpuInv
<1>. QED
  BY <1>1, CpuStart, CpuStep, PTL DEF CpuSpec

-----------------------------------------------------------------------------
(* A return undoes its call: the cells.                                    *)

\* The cell `by` bytes from s, in a mode.
Cell(e, s, by, raw) == IF e /\ ~raw THEN PageOne(s + by) ELSE Wrapped(s + by)

LEMMA CellIsMoved ==
    ASSUME NEW s, NEW by, NEW raw PROVE Moved(s, by, raw) = Cell(emulation, s, by, raw)
BY Zenon DEF Moved, Cell

LEMMA PageOneSum ==
    ASSUME NEW a \in Int, NEW b \in Int PROVE PageOne(PageOne(a) + b) = PageOne(a + b)
<1>1. PICK q \in Int, r \in Int : a = 256 * q + r /\ 0 <= r /\ r < 256 /\ PageOne(a) = 256 + r
  BY ByteRest, SMT DEF PageOne, LowByte
<1>2. PICK c \in Int : c = r + b
  BY <1>1, SMT
<1>3. PICK u \in Int, v \in Int : c = 256 * u + v /\ v = c % 256 /\ 0 <= v /\ v < 256
  BY ByteRest, SMT
<1>4. PICK n \in Int : n = PageOne(a) + b
  BY <1>1, SMT
<1>5. PICK m \in Int : m = a + b
  BY SMT
<1>6. n = 256 * (u + 1) + v /\ m = 256 * (q + u) + v
  BY <1>1, <1>2, <1>3, <1>4, <1>5, SMT
<1>7. n % 256 = v /\ m % 256 = v
  BY <1>3, <1>6, ByteUnique, SMT
<1>. QED
  BY <1>4, <1>5, <1>7, SMT DEF PageOne, LowByte

LEMMA PageOneSame == ASSUME NEW s \in Word, HighByte(s) = 1 PROVE PageOne(s) = s
BY WordSet, SMT DEF PageOne, LowByte, HighByte

LEMMA WrappedSum ==
    ASSUME NEW a \in Int, NEW b \in Int PROVE Wrapped(Wrapped(a) + b) = Wrapped(a + b)
BY WordSum, SMT DEF Wrapped

LEMMA CellsApart ==
    ASSUME NEW e \in BOOLEAN, NEW raw \in BOOLEAN, NEW s \in Word,
           NEW n \in 1 .. 4, NEW m \in 1 .. 4, n # m
    PROVE  Cell(e, s, 1 - n, raw) # Cell(e, s, 1 - m, raw)
<1>1. PICK a \in Int, b \in Int : a = s + (1 - n) /\ b = s + (1 - m)
  BY WordBounds, SMT
<1>2. a # b /\ a - b < 256 /\ b - a < 256 /\ a - b < 65536 /\ b - a < 65536
  BY <1>1, WordBounds, SMT
<1>3. Wrapped(a) # Wrapped(b)
  BY <1>2, WordApart, SMT DEF Wrapped
<1>4. a % 256 # b % 256 /\ a % 256 \in Int /\ b % 256 \in Int
  BY <1>2, ByteApart, ByteRest, SMT
<1>5. PageOne(a) # PageOne(b)
  BY <1>4, SMT DEF PageOne, LowByte
<1>. QED
  BY <1>1, <1>3, <1>5, Zenon DEF Cell

\* Each byte pushed is where it was put.
LEMMA PushedAt ==
    ASSUME CpuTypeOK, NEW bytes, Octets(bytes), NEW raw \in BOOLEAN, NEW n \in DOMAIN bytes
    PROVE  LET k == Cell(emulation, sp, 1 - n, raw)
           IN  k \in DOMAIN Pushed(bytes, raw) /\ Pushed(bytes, raw)[k] = bytes[n]
<1> DEFINE k == Cell(emulation, sp, 1 - n, raw)
<1>1. \A m : PushCell(sp, m, raw) = Cell(emulation, sp, 1 - m, raw)
  BY CellIsMoved, Zenon DEF PushCell
<1>2. DOMAIN bytes \subseteq 1 .. 4
  BY DEF Octets
<1>3. \A m \in DOMAIN bytes : PushCell(sp, m, raw) = k => m = n
  <2> SUFFICES ASSUME NEW m \in DOMAIN bytes, PushCell(sp, m, raw) = k PROVE m = n
    OBVIOUS
  <2>1. m \in 1 .. 4 /\ n \in 1 .. 4
    BY <1>2, Zenon
  <2>2. emulation \in BOOLEAN /\ sp \in Word
    BY Zenon DEF CpuTypeOK
  <2>3. Cell(emulation, sp, 1 - m, raw) = Cell(emulation, sp, 1 - n, raw)
    BY <1>1, Zenon
  <2>. QED
    BY <2>1, <2>2, <2>3, CellsApart, Zenon
<1>4. PushCell(sp, n, raw) = k
  BY <1>1, Zenon
<1>5. (CHOOSE m \in DOMAIN bytes : PushCell(sp, m, raw) = k) = n
  BY <1>3, <1>4, Zenon
<1>6. k \in {PushCell(sp, m, raw) : m \in DOMAIN bytes}
  BY <1>4, Zenon
<1> HIDE DEF k
<1>7. /\ k \in DOMAIN Pushed(bytes, raw)
      /\ Pushed(bytes, raw)[k] = bytes[CHOOSE m \in DOMAIN bytes : PushCell(sp, m, raw) = k]
  BY <1>6, Zenon DEF Pushed
<1>. QED
  BY <1>5, <1>7, Zenon DEF k

\* From the pointer a push leaves, the n-th cell up is the n-th last pushed:
\* but for a long call at the edge of page 1.
LEMMA PullMeetsPush ==
    ASSUME NEW e \in BOOLEAN, NEW raw \in BOOLEAN, NEW s \in Word, e => HighByte(s) = 1,
           NEW len \in 1 .. 4, NEW n \in 1 .. len,
           e /\ raw => LowByte(s) >= len
    PROVE  Cell(e, Settled(Cell(e, s, -len, raw), e), n, raw) = Cell(e, s, n - len, raw)
<1>1. PICK a \in Int : a = s + (-len)
  BY WordBounds, SMT
<1>2. a + n = s + (n - len) /\ s \in Int /\ n \in Int
  BY <1>1, WordBounds, SMT
<1>3. PageOne(PageOne(a) + n) = PageOne(a + n) /\ Wrapped(Wrapped(a) + n) = Wrapped(a + n)
  BY <1>2, PageOneSum, WrappedSum, Zenon
<1>4. CASE e /\ ~raw
  <2>1. Cell(e, s, -len, raw) = PageOne(a)
    BY <1>1, <1>4, Zenon DEF Cell
  <2>2. PageOne(a) \in Word /\ HighByte(PageOne(a)) = 1
    BY PageOneWord, Zenon
  <2>3. Settled(PageOne(a), e) = PageOne(a)
    BY <1>4, <2>2, PageOneSame, Zenon DEF Settled
  <2>. QED
    BY <1>2, <1>3, <1>4, <2>1, <2>3, Zenon DEF Cell
<1>5. CASE ~e
  <2>1. Settled(Cell(e, s, -len, raw), e) = Wrapped(a)
    BY <1>1, <1>5, Zenon DEF Cell, Settled
  <2>. QED
    BY <1>2, <1>3, <1>5, <2>1, Zenon DEF Cell
<1>6. CASE e /\ raw
  <2>1. a \in Word /\ HighByte(a) = 1
    BY <1>1, <1>6, WordSet, SMT DEF LowByte, HighByte
  <2>2. Wrapped(a) = a /\ PageOne(a) = a
    BY <2>1, WordSame, PageOneSame, Zenon
  <2>3. Settled(Cell(e, s, -len, raw), e) = a
    BY <1>1, <1>6, <2>2, Zenon DEF Cell, Settled
  <2>. QED
    BY <1>2, <1>6, <2>3, Zenon DEF Cell
<1>. QED
  BY <1>4, <1>5, <1>6, Zenon

\* What the pulls of a return find after a push.
LEMMA PullsFind ==
    ASSUME CpuInv, NEW bytes, Octets(bytes), NEW raw \in BOOLEAN, Push(bytes, raw),
           emulation /\ raw => LowByte(sp) >= Len(bytes)
    PROVE  /\ \A n \in 1 .. Len(bytes) :
                LET k == Cell(emulation, sp', n, raw)
                IN  /\ k \in DOMAIN Pushed(bytes, raw)
                    /\ Pushed(bytes, raw)[k] = bytes[Len(bytes) + 1 - n]
           /\ Settled(Cell(emulation, sp', Len(bytes), raw), emulation) = sp
<1>1. CpuTypeOK /\ sp \in Word /\ emulation \in BOOLEAN /\ (emulation => HighByte(sp) = 1)
  BY Zenon DEF CpuInv, CpuTypeOK, RegisterRules
<1>2. Len(bytes) \in 1 .. 4 /\ DOMAIN bytes = 1 .. Len(bytes)
  BY Zenon DEF Octets
<1>3. sp' = Settled(Cell(emulation, sp, -Len(bytes), raw), emulation)
  BY CellIsMoved, Zenon DEF Push
<1>4. \A n \in 1 .. Len(bytes) :
        Cell(emulation, sp', n, raw) = Cell(emulation, sp, n - Len(bytes), raw)
  BY <1>1, <1>2, <1>3, PullMeetsPush, Zenon
<1>5. ASSUME NEW n \in 1 .. Len(bytes)
      PROVE  LET k == Cell(emulation, sp', n, raw)
             IN  /\ k \in DOMAIN Pushed(bytes, raw)
                 /\ Pushed(bytes, raw)[k] = bytes[Len(bytes) + 1 - n]
  <2>1. PICK m \in DOMAIN bytes : m = Len(bytes) + 1 - n /\ 1 - m = n - Len(bytes)
    BY <1>2, SMT
  <2>2. Cell(emulation, sp', n, raw) = Cell(emulation, sp, 1 - m, raw)
    BY <1>4, <2>1, Zenon
  <2>3. LET k == Cell(emulation, sp, 1 - m, raw)
        IN  k \in DOMAIN Pushed(bytes, raw) /\ Pushed(bytes, raw)[k] = bytes[m]
    BY <1>1, PushedAt, Zenon
  <2>. QED
    BY <2>1, <2>2, <2>3, Zenon
<1>6. Settled(Cell(emulation, sp', Len(bytes), raw), emulation) = sp
  <2>1. PICK z \in Int : z = Len(bytes) - Len(bytes) /\ sp + z = sp
    BY <1>1, <1>2, WordBounds, SMT
  <2>2. Len(bytes) \in 1 .. Len(bytes)
    BY <1>2, SMT
  <2>3. Cell(emulation, sp', Len(bytes), raw) = Cell(emulation, sp, z, raw)
    BY <1>4, <2>1, <2>2, Zenon
  <2>4. Wrapped(sp) = sp /\ (emulation => PageOne(sp) = sp)
    BY <1>1, WordSame, PageOneSame, Zenon
  <2>. QED
    BY <2>1, <2>3, <2>4, Zenon DEF Cell, Settled
<1>. QED
  BY <1>5, <1>6, Zenon

-----------------------------------------------------------------------------
(* A return undoes its call: the frames.                                   *)

Kinds == {"near", "far", "interrupt"}
Frame ==
    [kind : Kinds, e : BOOLEAN, p : SUBSET PFlags, pbr : Octet, pc : Word,
     before : Word, after : Word, cells : UNION {[K -> Octet] : K \in SUBSET Word}]

\* How many bytes a return pulls, and where it finds the n-th.
Size(kind, e) == IF kind = "near" THEN 2 ELSE IF kind = "far" \/ e THEN 3 ELSE 4
At(f, n) == Cell(f.e, f.after, n, f.kind = "far")

\* The bytes b are what brings these registers back.
Restores(kind, e, q, bank, resume, b) ==
    /\ kind = "interrupt" =>
         /\ q = IF e THEN Flags(b[1]) \cup {"M", "X"} ELSE Flags(b[1])
         /\ b[2] + 256 * b[3] = resume
         /\ ~e => b[4] = bank
    /\ kind # "interrupt" => Wrapped(b[1] + 256 * b[2] + 1) = resume
    /\ kind = "far" => b[3] = bank

\* The cells of a frame, read back from the pointer its push left, restore it:
\* but for a long call at the edge of page 1.
Good(f) ==
    (f.kind = "far" /\ f.e => LowByte(f.before) >= 3)
    => /\ \A n \in 1 .. Size(f.kind, f.e) : At(f, n) \in DOMAIN f.cells
       /\ Restores(f.kind, f.e, f.p, f.pbr, f.pc,
                   [n \in 1 .. Size(f.kind, f.e) |-> f.cells[At(f, n)]])
       /\ Settled(At(f, Size(f.kind, f.e)), f.e) = f.before

FrameSet == {f \in Frame : Good(f)}
FramesOK ==
    /\ frames \in Seq(FrameSet)
    /\ \A i \in 1 .. Len(frames) : DOMAIN frames[i].cells \subseteq DOMAIN stack

ReturnInv == CpuInv /\ FramesOK

LEMMA AppendFrame ==
    ASSUME NEW f \in FrameSet, frames \in Seq(FrameSet)
    PROVE  /\ Append(frames, f) \in Seq(FrameSet)
           /\ Len(Append(frames, f)) = Len(frames) + 1
           /\ \A i \in 1 .. Len(Append(frames, f)) :
                \/ Append(frames, f)[i] = frames[i] /\ i \in 1 .. Len(frames)
                \/ Append(frames, f)[i] = f
OBVIOUS

LEMMA DropFrame ==
    ASSUME frames \in Seq(FrameSet), frames # <<>>
    PROVE  /\ SubSeq(frames, 1, Len(frames) - 1) \in Seq(FrameSet)
           /\ \A i \in 1 .. Len(SubSeq(frames, 1, Len(frames) - 1)) :
                SubSeq(frames, 1, Len(frames) - 1)[i] = frames[i] /\ i \in 1 .. Len(frames)
OBVIOUS

\* A push that enters a frame.
LEMMA EnterKeeps ==
    ASSUME CpuInv, FramesOK, NEW kind \in Kinds, NEW resume \in Word, NEW bytes, Octets(bytes),
           NEW raw \in BOOLEAN, raw <=> kind = "far", Len(bytes) = Size(kind, emulation),
           Push(bytes, raw), Enter(kind, resume, bytes, raw),
           Restores(kind, emulation, p, pbr, resume,
                    [n \in 1 .. Len(bytes) |-> bytes[Len(bytes) + 1 - n]])
    PROVE  FramesOK' /\ Len(frames') = Len(frames) + 1
<1> DEFINE cells == Pushed(bytes, raw)
           f == [kind |-> kind, e |-> emulation, p |-> p, pbr |-> pbr, pc |-> resume,
                 before |-> sp, after |-> sp', cells |-> cells]
<1>1. CpuTypeOK
  BY Zenon DEF CpuInv
<1>2. /\ sp' \in Word
      /\ DOMAIN cells \subseteq DOMAIN stack' /\ DOMAIN stack \subseteq DOMAIN stack'
      /\ \A k \in DOMAIN cells : cells[k] \in Octet
  BY <1>1, PushKeeps, Zenon
<1>3. frames' = Append(frames, f)
  BY Zenon DEF Enter
<1>4. cells \in UNION {[K -> Octet] : K \in SUBSET Word}
  <2>1. DOMAIN cells \subseteq Word
    <3>1. \A n \in DOMAIN bytes : 1 - n \in Int
      BY DEF Octets
    <3>2. \A n \in DOMAIN bytes : PushCell(sp, n, raw) \in Word
      BY <1>1, <3>1, MovedWord, Zenon DEF PushCell, CpuTypeOK
    <3>. QED
      BY <3>2, Zenon DEF Pushed
  <2>2. cells = [k \in DOMAIN cells |-> cells[k]]
    <3>1. \E S : cells = [k \in S |-> bytes[CHOOSE n \in DOMAIN bytes : PushCell(sp, n, raw) = k]]
      BY Zenon DEF Pushed
    <3> HIDE DEF cells
    <3>2. PICK S : cells = [k \in S |-> bytes[CHOOSE n \in DOMAIN bytes : PushCell(sp, n, raw) = k]]
      BY <3>1
    <3>. QED
      BY <3>2
  <2> HIDE DEF cells
  <2>3. cells \in [DOMAIN cells -> Octet]
    BY <1>2, <2>2, Zenon
  <2>. QED
    BY <2>1, <2>3, Zenon
<1>5. emulation /\ raw => (LowByte(sp) >= 3 => LowByte(sp) >= Len(bytes))
  BY DEF Size
<1>6. ASSUME kind = "far" /\ emulation => LowByte(sp) >= 3
      PROVE  /\ \A n \in 1 .. Len(bytes) :
                  LET k == Cell(emulation, sp', n, raw)
                  IN  k \in DOMAIN cells /\ cells[k] = bytes[Len(bytes) + 1 - n]
             /\ Settled(Cell(emulation, sp', Len(bytes), raw), emulation) = sp
  BY <1>5, <1>6, PullsFind, Zenon
<1> HIDE DEF cells
<1>7. f \in Frame
  BY <1>1, <1>2, <1>4 DEF Frame, CpuTypeOK
<1>8. /\ f.kind = kind /\ f.e = emulation /\ f.p = p /\ f.pbr = pbr /\ f.pc = resume
      /\ f.before = sp /\ f.after = sp' /\ f.cells = cells
  BY Zenon
<1> HIDE DEF f
<1>9. Good(f)
  <2> SUFFICES ASSUME f.kind = "far" /\ f.e => LowByte(f.before) >= 3
               PROVE  /\ \A n \in 1 .. Size(f.kind, f.e) : At(f, n) \in DOMAIN f.cells
                      /\ Restores(f.kind, f.e, f.p, f.pbr, f.pc,
                                  [n \in 1 .. Size(f.kind, f.e) |-> f.cells[At(f, n)]])
                      /\ Settled(At(f, Size(f.kind, f.e)), f.e) = f.before
    BY Zenon DEF Good
  <2>1. \A n : At(f, n) = Cell(emulation, sp', n, raw)
    BY <1>8, Zenon DEF At, Cell
  <2>2. /\ \A n \in 1 .. Len(bytes) :
             At(f, n) \in DOMAIN cells /\ cells[At(f, n)] = bytes[Len(bytes) + 1 - n]
        /\ Settled(At(f, Len(bytes)), emulation) = sp
    BY <1>6, <1>8, <2>1, Zenon
  <2>3. [n \in 1 .. Len(bytes) |-> bytes[Len(bytes) + 1 - n]]
        = [n \in 1 .. Size(f.kind, f.e) |-> f.cells[At(f, n)]]
    BY <1>8, <2>2, Zenon
  <2>. QED
    BY <1>8, <2>2, <2>3, Zenon
<1>10. f \in FrameSet
  BY <1>7, <1>9, Zenon DEF FrameSet
<1>11. /\ frames' \in Seq(FrameSet) /\ Len(frames') = Len(frames) + 1
       /\ \A i \in 1 .. Len(frames') :
            \/ frames'[i] = frames[i] /\ i \in 1 .. Len(frames)
            \/ frames'[i] = f
  BY <1>3, <1>10, AppendFrame, Zenon DEF FramesOK
<1>. QED
  BY <1>2, <1>8, <1>11, Zenon DEF FramesOK

\* A step that leaves the frames.
LEMMA FramesStay ==
    ASSUME FramesOK, frames' = frames, DOMAIN stack \subseteq DOMAIN stack' PROVE FramesOK'
BY Zenon DEF FramesOK

\* A return leaves one.
LEMMA LeftKeeps ==
    ASSUME FramesOK, NEW kind, Left(kind), stack' = stack PROVE FramesOK'
<1>1. CASE frames' = frames
  BY <1>1, Zenon DEF FramesOK
<1>2. CASE frames # <<>> /\ frames' = SubSeq(frames, 1, Len(frames) - 1)
  <2>1. /\ frames' \in Seq(FrameSet)
        /\ \A i \in 1 .. Len(frames') : frames'[i] = frames[i] /\ i \in 1 .. Len(frames)
    BY <1>2, DropFrame, Zenon DEF FramesOK
  <2>. QED
    BY <2>1, Zenon DEF FramesOK
<1>. QED
  BY <1>1, <1>2, Zenon DEF Left

\* What an interrupt pushes restores what it took.
LEMMA InterruptRestores ==
    ASSUME CpuInv, NEW resume \in Word, NEW b \in {HardwareP, SoftwareP}
    PROVE  LET bytes == InterruptBytes(resume, b)
           IN  /\ Len(bytes) = Size("interrupt", emulation)
               /\ Restores("interrupt", emulation, p, pbr, resume,
                           [n \in 1 .. Len(bytes) |-> bytes[Len(bytes) + 1 - n]])
<1>1. /\ emulation \in BOOLEAN /\ p \in SUBSET PFlags /\ (emulation => {"M", "X"} \subseteq p)
  BY Zenon DEF CpuInv, CpuTypeOK, RegisterRules
<1>2. p = IF emulation THEN Flags(b) \cup {"M", "X"} ELSE Flags(b)
  <2>1. (p \ {"X"}) \cup {"M"} \in SUBSET PFlags /\ p \cup {"M", "X"} \in SUBSET PFlags
    BY <1>1 DEF PFlags
  <2>2. /\ Flags(Byte(p)) = p /\ Flags(Byte((p \ {"X"}) \cup {"M"})) = (p \ {"X"}) \cup {"M"}
        /\ Flags(Byte(p \cup {"M", "X"})) = p \cup {"M", "X"}
    BY <1>1, <2>1, FlagsOfByte, Zenon
  <2>3. Flags(b) = IF emulation THEN IF b = HardwareP THEN (p \ {"X"}) \cup {"M"}
                                     ELSE p \cup {"M", "X"}
                   ELSE p
    BY <2>2, Zenon DEF HardwareP, SoftwareP
  <2>. QED
    BY <1>1, <2>3
<1>3. LowByte(resume) + 256 * HighByte(resume) = resume
  BY Halves, Zenon
<1> DEFINE lo == LowByte(resume)
           hi == HighByte(resume)
           bytes == InterruptBytes(resume, b)
           r == [n \in 1 .. Len(bytes) |-> bytes[Len(bytes) + 1 - n]]
<1>4. bytes = IF emulation THEN <<hi, lo, b>> ELSE <<pbr, hi, lo, b>>
  BY Zenon DEF InterruptBytes
<1> HIDE DEF lo, hi, bytes
<1>5. CASE emulation
  <2>1. Len(bytes) = 3 /\ r[1] = b /\ r[2] = lo /\ r[3] = hi
    <3>1. bytes = <<hi, lo, b>>
      BY <1>4, <1>5, Zenon
    <3>. QED
      BY <3>1
  <2>2. r[2] + 256 * r[3] = resume
    BY <1>3, <2>1, Zenon DEF lo, hi
  <2> HIDE DEF r
  <2>3. Len(bytes) = Size("interrupt", emulation)
    BY <1>5, <2>1 DEF Size
  <2>4. p = IF emulation THEN Flags(r[1]) \cup {"M", "X"} ELSE Flags(r[1])
    BY <1>2, <2>1, Zenon
  <2>5. Restores("interrupt", emulation, p, pbr, resume, r)
    BY <1>5, <2>2, <2>4 DEF Restores
  <2>. QED
    BY <2>3, <2>5, Zenon DEF r, bytes
<1>6. CASE ~emulation
  <2>1. Len(bytes) = 4 /\ r[1] = b /\ r[2] = lo /\ r[3] = hi /\ r[4] = pbr
    <3>1. bytes = <<pbr, hi, lo, b>>
      BY <1>4, <1>6, Zenon
    <3>. QED
      BY <3>1
  <2>2. r[2] + 256 * r[3] = resume
    BY <1>3, <2>1, Zenon DEF lo, hi
  <2> HIDE DEF r
  <2>3. Len(bytes) = Size("interrupt", emulation)
    BY <1>6, <2>1 DEF Size
  <2>4. p = IF emulation THEN Flags(r[1]) \cup {"M", "X"} ELSE Flags(r[1])
    BY <1>2, <2>1, Zenon
  <2>5. Restores("interrupt", emulation, p, pbr, resume, r)
    BY <1>6, <2>1, <2>2, <2>4 DEF Restores
  <2>. QED
    BY <2>3, <2>5, Zenon DEF r, bytes
<1>. QED
  BY <1>1, <1>5, <1>6, Zenon

LEMMA VectoredFrames ==
    ASSUME CpuInv, FramesOK, NEW resume \in Word, NEW b \in {HardwareP, SoftwareP},
           NEW t \in Targets, Vectored(resume, b, t)
    PROVE  FramesOK' /\ Len(frames') = Len(frames) + 1
<1> DEFINE bytes == InterruptBytes(resume, b)
<1>1. CpuTypeOK /\ b \in Octet
  BY PushedP, Zenon DEF CpuInv
<1>2. Octets(bytes)
  BY <1>1, InterruptOctets, Zenon
<1>3. Push(bytes, FALSE) /\ Enter("interrupt", resume, bytes, FALSE)
  BY Zenon DEF Vectored
<1>4. /\ Len(bytes) = Size("interrupt", emulation)
      /\ Restores("interrupt", emulation, p, pbr, resume,
                  [n \in 1 .. Len(bytes) |-> bytes[Len(bytes) + 1 - n]])
  BY InterruptRestores, Zenon
<1> HIDE DEF bytes
<1>5. PICK w \in BOOLEAN : w = FALSE /\ Push(bytes, w) /\ Enter("interrupt", resume, bytes, w)
  BY <1>3, Zenon
<1>6. PICK kind \in Kinds : kind = "interrupt" /\ (w <=> (kind = "far"))
  BY <1>5 DEF Kinds
<1>. QED
  BY <1>2, <1>4, <1>5, <1>6, EnterKeeps, Zenon

\* And what a call pushes.
LEMMA CallRestores ==
    ASSUME NEW e, NEW q, NEW bank, NEW resume \in Word
    PROVE  LET last == Wrapped(resume - 1)
           IN  /\ LET bytes == WordBytes(last)
                  IN  /\ Len(bytes) = Size("near", e)
                      /\ Restores("near", e, q, bank, resume,
                                  [n \in 1 .. Len(bytes) |-> bytes[Len(bytes) + 1 - n]])
               /\ LET bytes == <<bank, HighByte(last), LowByte(last)>>
                  IN  /\ Len(bytes) = Size("far", e)
                      /\ Restores("far", e, q, bank, resume,
                                  [n \in 1 .. Len(bytes) |-> bytes[Len(bytes) + 1 - n]])
<1> DEFINE last == Wrapped(resume - 1)
           lo == LowByte(last)
           hi == HighByte(last)
           near == WordBytes(last)
           far == <<bank, HighByte(last), LowByte(last)>>
           rn == [n \in 1 .. Len(near) |-> near[Len(near) + 1 - n]]
           rf == [n \in 1 .. Len(far) |-> far[Len(far) + 1 - n]]
<1>1. last \in Word
  BY LessOneWord, Zenon
<1>2. PICK a \in Int : a = resume - 1
  BY WordBounds, SMT
<1>3. a + 1 = resume /\ resume - 1 = a
  BY <1>2, WordBounds, SMT
<1>4. Wrapped(last + 1) = resume
  <2>1. Wrapped(Wrapped(a) + 1) = Wrapped(a + 1)
    BY WrappedSum
  <2>2. Wrapped(resume) = resume
    BY WordSame
  <2>. QED
    BY <1>3, <2>1, <2>2, Zenon
<1> HIDE DEF last
<1>5. lo + 256 * hi = last
  BY <1>1, Halves, Zenon
<1>9. near = <<hi, lo>> /\ far = <<bank, hi, lo>>
  BY Zenon DEF WordBytes
<1> HIDE DEF lo, hi, near, far
<1>6. Len(near) = 2 /\ rn[1] = lo /\ rn[2] = hi
  BY <1>9
<1>7. Len(far) = 3 /\ rf[1] = lo /\ rf[2] = hi /\ rf[3] = bank
  BY <1>9
<1>8. Wrapped(rn[1] + 256 * rn[2] + 1) = resume /\ Wrapped(rf[1] + 256 * rf[2] + 1) = resume
  BY <1>4, <1>5, <1>6, <1>7, Zenon
<1> HIDE DEF rn, rf
<1>10. Len(near) = Size("near", e) /\ Len(far) = Size("far", e)
  BY <1>6, <1>7 DEF Size
<1>11. Restores("near", e, q, bank, resume, rn) /\ Restores("far", e, q, bank, resume, rf)
  BY <1>7, <1>8 DEF Restores
<1>12. LET bytes == WordBytes(last)
       IN  /\ Len(bytes) = Size("near", e)
           /\ Restores("near", e, q, bank, resume,
                       [n \in 1 .. Len(bytes) |-> bytes[Len(bytes) + 1 - n]])
  BY <1>10, <1>11, Zenon DEF rn, near
<1>13. LET bytes == <<bank, HighByte(last), LowByte(last)>>
       IN  /\ Len(bytes) = Size("far", e)
           /\ Restores("far", e, q, bank, resume,
                       [n \in 1 .. Len(bytes) |-> bytes[Len(bytes) + 1 - n]])
  BY <1>10, <1>11, Zenon DEF rf, far
<1>. QED
  BY <1>12, <1>13, Zenon DEF last

LEMMA CallsFrames ==
    ASSUME CpuInv, FramesOK, NEW t \in Targets, JSR(t) \/ JSL(t)
    PROVE  FramesOK' /\ Len(frames') = Len(frames) + 1
<1>1. pc \in Word /\ pbr \in Octet
  BY Zenon DEF CpuInv, CpuTypeOK
<1>2. CASE JSR(t)
  <2> DEFINE resume == Wrapped(pc + 3)
             last == Wrapped(resume - 1)
             bytes == WordBytes(last)
  <2>1. Push(bytes, FALSE) /\ Enter("near", resume, bytes, FALSE)
    BY <1>2, Zenon DEF JSR
  <2>2. resume \in Word
    BY <1>1, PlusWord
  <2> HIDE DEF resume
  <2>3. last \in Word
    BY <2>2, LessOneWord, Zenon
  <2>4. /\ Len(bytes) = Size("near", emulation)
        /\ Restores("near", emulation, p, pbr, resume,
                    [n \in 1 .. Len(bytes) |-> bytes[Len(bytes) + 1 - n]])
    BY <2>2, CallRestores, Zenon
  <2> HIDE DEF last
  <2>5. Octets(bytes)
    BY <2>3, WordOctets, Zenon
  <2> HIDE DEF bytes
  <2>6. PICK w \in BOOLEAN : w = FALSE /\ Push(bytes, w) /\ Enter("near", resume, bytes, w)
    BY <2>1, Zenon
  <2>7. PICK kind \in Kinds : kind = "near" /\ (w <=> (kind = "far"))
    BY <2>6 DEF Kinds
  <2>. QED
    BY <2>2, <2>4, <2>5, <2>6, <2>7, EnterKeeps, Zenon
<1>3. CASE JSL(t)
  <2> DEFINE resume == Wrapped(pc + 4)
             last == Wrapped(resume - 1)
             bytes == <<pbr, HighByte(last), LowByte(last)>>
  <2>1. Push(bytes, TRUE) /\ Enter("far", resume, bytes, TRUE)
    BY <1>3, Zenon DEF JSL
  <2>2. resume \in Word
    BY <1>1, PlusWord
  <2> HIDE DEF resume
  <2>3. last \in Word
    BY <2>2, LessOneWord, Zenon
  <2>4. /\ Len(bytes) = Size("far", emulation)
        /\ Restores("far", emulation, p, pbr, resume,
                    [n \in 1 .. Len(bytes) |-> bytes[Len(bytes) + 1 - n]])
    BY <2>2, CallRestores, Zenon
  <2> HIDE DEF last
  <2>5. Octets(bytes)
    BY <1>1, <2>3, Halves, Tuples, Zenon
  <2> HIDE DEF bytes
  <2>6. PICK v \in BOOLEAN : v = TRUE /\ Push(bytes, v) /\ Enter("far", resume, bytes, v)
    BY <2>1, Zenon
  <2>7. PICK kind \in Kinds : kind = "far" /\ (v <=> (kind = "far"))
    BY <2>6 DEF Kinds
  <2>. QED
    BY <2>2, <2>4, <2>5, <2>6, <2>7, EnterKeeps, Zenon
<1>. QED
  BY <1>2, <1>3, Zenon

LEMMA PushGrows ==
    ASSUME NEW bytes, NEW raw \in BOOLEAN, Push(bytes, raw)
    PROVE  DOMAIN stack \subseteq DOMAIN stack'
<1>1. \E cells : DOMAIN stack' = DOMAIN cells \cup DOMAIN stack
  BY Zenon DEF Push
<1>. QED
  BY <1>1

\* Every other instruction leaves the frames and takes no byte off the stack.
LEMMA OthersFrames ==
    ASSUME PHP \/ PLP \/ XCE \/ TXS \/ TSX \/ PHX \/ PLX \/ PHK \/ PLB
           \/ (\E mask \in Masks : REP(mask) \/ SEP(mask)) \/ (\E v \in Indexes : LDX(v))
    PROVE  frames' = frames /\ DOMAIN stack \subseteq DOMAIN stack'
<1>1. CASE PHP \/ PHX \/ PHK
  <2>1. frames' = frames
    BY <1>1, Zenon DEF PHP, PHX, PHK, Next1
  <2>2. \E bytes : Push(bytes, FALSE) \/ Push(bytes, TRUE)
    BY <1>1, Zenon DEF PHP, PHX, PHK
  <2>3. \E bytes : \E raw \in BOOLEAN : Push(bytes, raw)
    BY <2>2, Zenon
  <2>. QED
    BY <2>1, <2>3, PushGrows, Zenon
<1>2. CASE PLP \/ PLX \/ PLB
  BY <1>2, Zenon DEF PLP, PLX, PLB, Pull, Next1
<1>3. CASE XCE \/ TXS \/ TSX
  BY <1>3, Zenon DEF XCE, TXS, TSX, Next1
<1>4. CASE \/ \E mask \in Masks : REP(mask) \/ SEP(mask)
           \/ \E v \in Indexes : LDX(v)
  BY <1>4, Zenon DEF REP, SEP, LDX, Next1
<1>. QED
  BY <1>1, <1>2, <1>3, <1>4, Zenon

LEMMA NonReturns ==
    ASSUME ReturnInv, [CpuNext]_cpuVars, ~(RTI \/ RTS \/ RTL)
    PROVE  FramesOK' /\ ~(Len(frames') < Len(frames))
<1>1. CpuInv /\ FramesOK /\ CpuTypeOK /\ pc \in Word
  BY Zenon DEF ReturnInv, CpuInv, CpuTypeOK
<1>2. Len(frames) \in Nat
  BY <1>1 DEF FramesOK
<1>3. CASE Nmi \/ Irq \/ BrkCop
  <2>1. Wrapped(pc + 2) \in Word
    BY <1>1, PlusWord
  <2>2. \E resume \in Word : \E b \in {HardwareP, SoftwareP} : \E t \in Targets :
          Vectored(resume, b, t)
    BY <1>1, <1>3, <2>1, Zenon DEF Nmi, Irq, BrkCop
  <2>3. FramesOK' /\ Len(frames') = Len(frames) + 1
    BY <1>1, <2>2, VectoredFrames, Zenon
  <2>. QED
    BY <1>2, <2>3, SMT
<1>4. CASE \E t \in Targets : JSR(t) \/ JSL(t)
  <2>1. FramesOK' /\ Len(frames') = Len(frames) + 1
    BY <1>1, <1>4, CallsFrames, Zenon
  <2>. QED
    BY <1>2, <2>1, SMT
<1>5. CASE PHP \/ PLP \/ XCE \/ TXS \/ TSX \/ PHX \/ PLX \/ PHK \/ PLB
           \/ (\E mask \in Masks : REP(mask) \/ SEP(mask)) \/ (\E v \in Indexes : LDX(v))
  <2>1. frames' = frames /\ FramesOK'
    BY <1>1, <1>5, OthersFrames, FramesStay, Zenon
  <2>. QED
    BY <1>2, <2>1, SMT
<1>6. CASE UNCHANGED cpuVars
  <2>1. frames' = frames /\ stack' = stack
    BY <1>6, Zenon DEF cpuVars
  <2>2. FramesOK'
    BY <1>1, <2>1, Zenon DEF FramesOK
  <2>. QED
    BY <1>2, <2>1, <2>2, SMT
<1>. QED
  BY <1>3, <1>4, <1>5, <1>6, Zenon DEF CpuNext

LEMMA ReturnsFrames == ASSUME FramesOK, RTI \/ RTS \/ RTL PROVE FramesOK'
<1>1. (\E kind : Left(kind)) /\ stack' = stack
  BY Zenon DEF RTI, RTS, RTL, Pull
<1>. QED
  BY <1>1, LeftKeeps, Zenon

-----------------------------------------------------------------------------
(* A return undoes its call.                                               *)

\* What a return of its own kind finds at a frame whose bytes are untouched.
LEMMA ReturnFinds ==
    ASSUME ReturnInv, frames # <<>>, NEW raw \in BOOLEAN, raw <=> Top.kind = "far",
           Top.e = emulation, Top.after = sp, Recoverable(Top),
           \A k \in DOMAIN Top.cells : stack[k] = Top.cells[k]
    PROVE  /\ Top \in Frame
           /\ Restores(Top.kind, emulation, Top.p, Top.pbr, Top.pc,
                       [n \in 1 .. Size(Top.kind, emulation) |-> Pulled(n, raw)])
           /\ Settled(Moved(sp, Size(Top.kind, emulation), raw), emulation) = Top.before
<1> DEFINE f == Top
           size == Size(f.kind, emulation)
           length == Size(f.kind, f.e)
<1>1. Len(frames) \in 1 .. Len(frames) /\ f \in FrameSet
  BY DEF ReturnInv, FramesOK, Top
<1>2. f \in Frame /\ Good(f)
  BY <1>1, Zenon DEF FrameSet
<1>3. DOMAIN f.cells \subseteq DOMAIN stack
  BY <1>1, Zenon DEF ReturnInv, FramesOK, Top
<1>4. \A n : At(f, n) = Moved(sp, n, raw)
  BY Zenon DEF At, Cell, Moved
<1>5. f.kind = "far" /\ f.e => LowByte(f.before) >= 3
  BY Zenon DEF Recoverable
<1>6. /\ f.e = emulation /\ \A k \in DOMAIN f.cells : stack[k] = f.cells[k]
  OBVIOUS
<1> HIDE DEF f
<1>7. /\ \A n \in 1 .. length : At(f, n) \in DOMAIN f.cells
      /\ Restores(f.kind, f.e, f.p, f.pbr, f.pc, [n \in 1 .. length |-> f.cells[At(f, n)]])
      /\ Settled(At(f, length), f.e) = f.before
  BY <1>2, <1>5, Zenon DEF Good
<1>8. length = size
  BY <1>6, Zenon
<1> HIDE DEF size, length
<1>9. \A n \in 1 .. size : f.cells[At(f, n)] = Pulled(n, raw)
  BY <1>3, <1>4, <1>6, <1>7, <1>8, Zenon DEF Pulled, Peek, PullCell
<1>10. [n \in 1 .. length |-> f.cells[At(f, n)]] = [n \in 1 .. size |-> Pulled(n, raw)]
  BY <1>8, <1>9, Zenon
<1>. QED
  BY <1>2, <1>4, <1>6, <1>7, <1>8, <1>10, Zenon DEF f, size

LEMMA LeftKind ==
    ASSUME FramesOK, NEW kind, Left(kind), Len(frames') < Len(frames)
    PROVE  frames # <<>> /\ Top.kind = kind
<1>1. ~(frames' = frames)
  BY DEF FramesOK
<1>. QED
  BY <1>1, Zenon DEF Left

LEMMA ReturnExact == ASSUME ReturnInv, [CpuNext]_cpuVars PROVE ReturnStep
<1> SUFFICES ASSUME Len(frames') < Len(frames),
                    Top.e = emulation /\ Top.after = sp /\ Recoverable(Top),
                    \A k \in DOMAIN Top.cells : stack[k] = Top.cells[k]
             PROVE  /\ pc' = Top.pc /\ pbr' = Top.pbr /\ sp' = Top.before
                    /\ Top.kind = "interrupt" => p' = Top.p
  BY Zenon DEF ReturnStep
<1>1. FramesOK /\ CpuTypeOK /\ emulation \in BOOLEAN
  BY Zenon DEF ReturnInv, CpuInv, CpuTypeOK
<1>2. PICK w \in BOOLEAN : w = FALSE
  OBVIOUS
<1>3. PICK v \in BOOLEAN : v = TRUE
  OBVIOUS
<1>4. \A r \in BOOLEAN : /\ PulledWord(1, r) = Pulled(1, r) + 256 * Pulled(2, r)
                         /\ PulledWord(2, r) = Pulled(2, r) + 256 * Pulled(3, r)
  BY DEF PulledWord
<1> DEFINE size == Size(Top.kind, emulation)
           b(r) == [n \in 1 .. size |-> Pulled(n, r)]
<1>5. ASSUME NEW kind, Left(kind), NEW r \in BOOLEAN, r <=> kind = "far"
      PROVE  /\ Top.kind = kind
             /\ Restores(Top.kind, emulation, Top.p, Top.pbr, Top.pc, b(r))
             /\ Settled(Moved(sp, size, r), emulation) = Top.before
  <2>1. frames # <<>> /\ Top.kind = kind
    BY <1>1, <1>5, LeftKind, Zenon
  <2>. QED
    BY <1>5, <2>1, ReturnFinds, Zenon
<1>6. \A r : /\ size >= 2 => b(r)[1] = Pulled(1, r) /\ b(r)[2] = Pulled(2, r)
             /\ size >= 3 => b(r)[3] = Pulled(3, r)
             /\ size >= 4 => b(r)[4] = Pulled(4, r)
  BY DEF Size
<1> HIDE DEF b
<1>7. CASE RTI
  <2>1. /\ Left("interrupt") /\ p' = Reloaded(Pulled(1, w)) /\ pc' = PulledWord(2, w)
        /\ pbr' = (IF emulation THEN pbr ELSE Pulled(4, w))
        /\ sp' = Settled(Moved(sp, IF emulation THEN 3 ELSE 4, w), emulation)
    BY <1>2, <1>7, Zenon DEF RTI, Pull
  <2>2. w <=> ("interrupt" = "far")
    BY <1>2
  <2>3. /\ Top.kind = "interrupt"
        /\ Restores(Top.kind, emulation, Top.p, Top.pbr, Top.pc, b(w))
        /\ Settled(Moved(sp, size, w), emulation) = Top.before
    BY <1>5, <2>1, <2>2, Zenon
  <2>4. size = (IF emulation THEN 3 ELSE 4) /\ size >= 3 /\ size >= 2 /\ (~emulation => size >= 4)
    BY <2>3 DEF Size
  <2>5. sp' = Top.before
    BY <2>1, <2>3, <2>4, Zenon
  <2>6. /\ Top.p = (IF emulation THEN Flags(b(w)[1]) \cup {"M", "X"} ELSE Flags(b(w)[1]))
        /\ b(w)[2] + 256 * b(w)[3] = Top.pc
        /\ ~emulation => b(w)[4] = Top.pbr
    BY <2>3, Zenon DEF Restores
  <2>7. emulation => Top.pbr = pbr
    BY <2>3, Zenon DEF Recoverable
  <2>8. p' = Top.p
    BY <1>6, <2>1, <2>4, <2>6, Zenon DEF Reloaded
  <2>9. pc' = Top.pc
    <3>1. PulledWord(2, w) = Pulled(2, w) + 256 * Pulled(3, w)
      BY <1>4, ZenonT(60)
    <3>2. b(w)[2] = Pulled(2, w) /\ b(w)[3] = Pulled(3, w)
      BY <1>6, <2>4, Zenon
    <3>. QED
      BY <2>1, <2>6, <3>1, <3>2, Zenon
  <2>10. pbr' = Top.pbr
    BY <1>6, <2>1, <2>4, <2>6, <2>7, Zenon
  <2>. QED
    BY <2>5, <2>8, <2>9, <2>10, Zenon
<1>8. CASE RTS
  <2>1. /\ Left("near") /\ pc' = Wrapped(PulledWord(1, w) + 1) /\ pbr' = pbr
        /\ sp' = Settled(Moved(sp, 2, w), emulation)
    BY <1>2, <1>8, Zenon DEF RTS, Pull
  <2>2. w <=> ("near" = "far")
    BY <1>2
  <2>3. /\ Top.kind = "near"
        /\ Restores(Top.kind, emulation, Top.p, Top.pbr, Top.pc, b(w))
        /\ Settled(Moved(sp, size, w), emulation) = Top.before
    BY <1>5, <2>1, <2>2, Zenon
  <2>4. size = 2 /\ size >= 2 /\ "near" # "interrupt"
    BY <2>3 DEF Size
  <2>5. Wrapped(b(w)[1] + 256 * b(w)[2] + 1) = Top.pc
    BY <2>3, <2>4, Zenon DEF Restores
  <2>6. Top.pbr = pbr
    BY <2>3, Zenon DEF Recoverable
  <2>7. pc' = Top.pc
    <3>1. PulledWord(1, w) = Pulled(1, w) + 256 * Pulled(2, w)
      BY <1>4, ZenonT(60)
    <3>2. b(w)[1] = Pulled(1, w) /\ b(w)[2] = Pulled(2, w)
      BY <1>6, <2>4, Zenon
    <3>. QED
      BY <2>1, <2>5, <3>1, <3>2, Zenon
  <2>. QED
    BY <2>1, <2>3, <2>4, <2>6, <2>7, Zenon
<1>9. CASE RTL
  <2>1. /\ Left("far") /\ pc' = Wrapped(PulledWord(1, v) + 1) /\ pbr' = Pulled(3, v)
        /\ sp' = Settled(Moved(sp, 3, v), emulation)
    BY <1>3, <1>9, Zenon DEF RTL, Pull
  <2>2. v <=> ("far" = "far")
    BY <1>3
  <2>3. /\ Top.kind = "far"
        /\ Restores(Top.kind, emulation, Top.p, Top.pbr, Top.pc, b(v))
        /\ Settled(Moved(sp, size, v), emulation) = Top.before
    BY <1>5, <2>1, <2>2, Zenon
  <2>4. size = 3 /\ size >= 2 /\ size >= 3 /\ "far" # "interrupt"
    BY <2>3 DEF Size
  <2>5. Wrapped(b(v)[1] + 256 * b(v)[2] + 1) = Top.pc /\ b(v)[3] = Top.pbr
    BY <2>3, <2>4, Zenon DEF Restores
  <2>6. pc' = Top.pc
    <3>1. PulledWord(1, v) = Pulled(1, v) + 256 * Pulled(2, v)
      BY <1>4, ZenonT(60)
    <3>2. b(v)[1] = Pulled(1, v) /\ b(v)[2] = Pulled(2, v)
      BY <1>6, <2>4, Zenon
    <3>. QED
      BY <2>1, <2>5, <3>1, <3>2, Zenon
  <2>7. pbr' = Top.pbr
    BY <1>6, <2>1, <2>4, <2>5, Zenon
  <2>. QED
    BY <2>1, <2>3, <2>4, <2>6, <2>7, Zenon
<1>10. CASE ~(RTI \/ RTS \/ RTL)
  BY <1>10, NonReturns, Zenon
<1>. QED
  BY <1>7, <1>8, <1>9, <1>10, Zenon

\* A return undoes its call: from any stack pointer, with any instructions and
\* interrupts in between and any number of calls under way, a handler or a
\* subroutine that comes back with its mode, its stack pointer and its return
\* bytes resumes the caller exactly.
THEOREM ReturnsExactHolds == CpuSpec => ReturnsExact
<1>1. CpuInit => ReturnInv
  <2>1. CpuInit => FramesOK
    BY DEF CpuInit, FramesOK
  <2>. QED
    BY <2>1, CpuStart, Zenon DEF ReturnInv
<1>2. ReturnInv /\ [CpuNext]_cpuVars => ReturnInv'
  BY CpuStep, NonReturns, ReturnsFrames, Zenon DEF ReturnInv
<1>3. ReturnInv /\ [CpuNext]_cpuVars => [ReturnStep]_cpuVars
  BY ReturnExact, Zenon
<1>. QED
  BY <1>1, <1>2, <1>3, PTL DEF CpuSpec, ReturnsExact

=============================================================================

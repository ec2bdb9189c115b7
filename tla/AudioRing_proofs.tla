-------------------------- MODULE AudioRing_proofs --------------------------
(***************************************************************************)
(* Proofs about AudioRing, for every ring size, every index width that is  *)
(* a multiple of it, and every frame and period length.                    *)
(***************************************************************************)
EXTENDS AudioRing, TLAPS

-----------------------------------------------------------------------------
(* Arithmetic of the indices.                                              *)

\* Division with remainder, and that it is unique.
LEMMA DivMod ==
    ASSUME NEW w \in Nat \ {0}, NEW x \in Int
    PROVE  /\ x % w \in 0 .. w - 1
           /\ x \div w \in Int
           /\ x = w * (x \div w) + (x % w)
OBVIOUS

LEMMA ModUnique ==
    ASSUME NEW w \in Nat \ {0}, NEW q \in Int, NEW r \in 0 .. w - 1
    PROVE  (w * q + r) % w = r
<1> DEFINE x == w * q + r
           p == x \div w
           s == x % w
<1>1. x \in Int /\ p \in Int /\ s \in 0 .. w - 1 /\ x = w * p + s
    BY DivMod
<1> HIDE DEF p, s
<1>2. w * (p - q) = r - s
    BY <1>1
<1>3. p - q >= 1 => w * (p - q) >= w
    BY <1>1
<1>4. q - p >= 1 => w * (q - p) >= w
    BY <1>1
<1>5. w * (q - p) = s - r
    BY <1>1
<1>6. p = q
    BY <1>1, <1>2, <1>3, <1>4, <1>5
<1>7. s = r
    BY <1>1, <1>6
<1> QED BY <1>7 DEF s

\* A multiple of the divisor may be added or dropped.
LEMMA ModShift ==
    ASSUME NEW w \in Nat \ {0}, NEW x \in Int, NEW q \in Int
    PROVE  (x + w * q) % w = x % w
<1> DEFINE p == x \div w
           r == x % w
<1>1. p \in Int /\ r \in 0 .. w - 1 /\ x = w * p + r
    BY DivMod
<1> HIDE DEF p, r
<1>2. x + w * q = w * (p + q) + r
    BY <1>1
<1>3. (w * (p + q) + r) % w = r
    BY <1>1, ModUnique
<1> QED BY <1>2, <1>3 DEF r

\* A remainder may be taken first, by the divisor or by a multiple of it.
LEMMA ModSum ==
    ASSUME NEW s \in Nat \ {0}, NEW w \in Nat \ {0}, w % s = 0,
           NEW x \in Int, NEW y \in Int
    PROVE  ((x % w) + y) % s = (x + y) % s
<1> DEFINE m == w \div s
           q == x \div w
           r == x % w
<1>1. m \in Int /\ w = s * m
    BY DivMod
<1>2. q \in Int /\ r \in Int /\ x = w * q + r
    BY DivMod
<1> HIDE DEF m, q, r
<1> DEFINE k == m * q
           z == r + y
<1>3. k \in Int /\ z \in Int
    BY <1>1, <1>2
<1>4. x + y = z + s * k
    BY <1>1, <1>2
<1> HIDE DEF k, z
<1>5. (z + s * k) % s = z % s
    BY <1>3, ModShift
<1> QED BY <1>4, <1>5 DEF r, z

LEMMA ModSelf ==
    ASSUME NEW w \in Nat \ {0}
    PROVE  w % w = 0
<1>1. (w * 1 + 0) % w = 0
    BY ModUnique
<1> QED BY <1>1

\* Moving an index twice is moving it once by the sum.
LEMMA AheadAhead ==
    ASSUME NEW i \in Index, NEW k \in Nat, NEW l \in Nat
    PROVE  /\ Ahead(i, k) \in Index
           /\ Ahead(Ahead(i, k), l) = Ahead(i, k + l)
<1> DEFINE x == i + k
<1>1. Wrap \in Nat \ {0} /\ x \in Int /\ l \in Int /\ x + l = i + (k + l)
    BY RingAssumption DEF Index
<1> HIDE DEF x
<1>2. x % Wrap \in 0 .. Wrap - 1
    BY <1>1
<1>3. ((x % Wrap) + l) % Wrap = (x + l) % Wrap
    BY <1>1, ModSum, ModSelf
<1>4. Ahead(Ahead(i, k), l) = ((x % Wrap) + l) % Wrap
    BY DEF Ahead, x
<1>5. Ahead(i, k + l) = (x + l) % Wrap
    BY <1>1 DEF Ahead
<1>6. Ahead(i, k) \in Index
    BY <1>2 DEF Ahead, Index, x
<1> QED BY <1>3, <1>4, <1>5, <1>6

\* The distance to an index is how far it was moved.
LEMMA GapAhead ==
    ASSUME NEW i \in Index, NEW k \in 0 .. Wrap - 1
    PROVE  Gap(i, Ahead(i, k)) = k
<1> DEFINE x == i + k
           y == -i
<1>1. Wrap \in Nat \ {0} /\ x \in Int /\ y \in Int /\ x + y = k
    BY RingAssumption DEF Index
<1>2. (x % Wrap) - i = (x % Wrap) + y
    BY <1>1 DEF Index
<1> HIDE DEF x, y
<1>3. ((x % Wrap) + y) % Wrap = (x + y) % Wrap
    BY <1>1, ModSum, ModSelf
<1>4. k % Wrap = k
    BY <1>1
<1> QED BY <1>1, <1>2, <1>3, <1>4 DEF Gap, Ahead, x

\* Slots follow indices across the wrap: Wrap is a multiple of Size.
LEMMA SlotAhead ==
    ASSUME NEW i \in Index, NEW k \in Nat, NEW l \in Nat
    PROVE  Slot(Ahead(i, k) + l) = Slot(i + (k + l))
<1> DEFINE x == i + k
<1>1. /\ Wrap \in Nat \ {0} /\ Size \in Nat \ {0} /\ Wrap % Size = 0
      /\ x \in Int /\ l \in Int /\ x + l = i + (k + l)
    BY RingAssumption DEF Index
<1> HIDE DEF x
<1>2. ((x % Wrap) + l) % Size = (x + l) % Size
    BY <1>1, ModSum
<1>3. Slot(Ahead(i, k) + l) = ((x % Wrap) + l) % Size
    BY DEF Ahead, Slot, x
<1>4. Slot(i + (k + l)) = (x + l) % Size
    BY <1>1 DEF Slot
<1> QED BY <1>2, <1>3, <1>4

\* Fewer than Size slots apart, slots differ.
LEMMA SlotsDiffer ==
    ASSUME NEW x \in Nat, NEW d \in 1 .. Size - 1
    PROVE  Slot(x) # Slot(x + d)
<1>1. Size \in Nat \ {0}
    BY RingAssumption
<1> DEFINE p == x \div Size
           q == (x + d) \div Size
<1>2. p \in Int /\ x = Size * p + (x % Size)
    BY <1>1, DivMod
<1>3. q \in Int /\ x + d = Size * q + ((x + d) % Size)
    <2> DEFINE y == x + d
    <2> y \in Int
        BY <1>1
    <2> HIDE DEF y
    <2>1. y \div Size \in Int /\ y = Size * (y \div Size) + (y % Size)
        BY <1>1, DivMod
    <2> QED BY <2>1 DEF y
<1>4. x % Size \in Int /\ (x + d) % Size \in Int
    BY <1>1
<1> HIDE DEF p, q
<1> SUFFICES ASSUME x % Size = (x + d) % Size PROVE FALSE
    BY DEF Slot
<1>5. Size * (q - p) = d
    BY <1>1, <1>2, <1>3, <1>4
<1>6. q - p >= 1 => Size * (q - p) >= Size
    BY <1>1, <1>2, <1>3
<1>7. q - p <= 0 => Size * (q - p) <= 0
    BY <1>1, <1>2, <1>3
<1> QED BY <1>1, <1>2, <1>3, <1>5, <1>6, <1>7

\* Not moving is the identity; from zero, a small move is its length.
LEMMA AheadZero ==
    /\ \A i \in Index : Ahead(i, 0) = i
    /\ \A k \in 0 .. Wrap - 1 : Ahead(0, k) = k
    /\ 0 \in Index
<1>1. Wrap \in Nat \ {0}
    BY RingAssumption
<1> QED BY <1>1 DEF Ahead, Index

-----------------------------------------------------------------------------
(* The inductive invariant.                                                *)

\* A thread that is not copying has nothing left over of its last call.
Resting ==
    /\ pPc # "copy" => pGoal = 0 /\ pDone = 0
    /\ cPc = "idle" => cOut = <<>> /\ cGoal = 0

\* The four indices the threads hold, in order round the ring: a slots freed
\* the producer has not seen, b published ones the consumer has seen, c it has
\* not.  What a thread is copying lies in its own stretch.
ChainAt(a, b, c) ==
    /\ a + b + c <= Size
    /\ read = Ahead(pSeen, a)
    /\ cSeen = Ahead(read, b)
    /\ write = Ahead(cSeen, c)
    /\ pGoal <= Size - (a + b + c)
    /\ cGoal <= b
    /\ pPc = "start" => write = 0 /\ a = 0 /\ b = 0 /\ c = 0

Chain == \E a, b, c \in 0 .. Size : ChainAt(a, b, c)

Inv == TypeOK /\ Resting /\ Chain

LEMMA InitInv == Init => Inv
<1> SUFFICES ASSUME Init PROVE Inv
    OBVIOUS
<1>1. Size \in Nat \ {0} /\ Wrap \in Nat \ {0} /\ Wrap > Size
    BY RingAssumption
<1>2. Resting
    BY DEF Init, Resting
<1>3. ChainAt(0, 0, 0)
    BY <1>1, AheadZero DEF Init, ChainAt
<1>4. Chain
    BY <1>1, <1>3 DEF Chain
<1>5. Silence \in Sample
    BY DEF Sample
<1>6. TypeOK
    <2>1. <<>> \in Seq(Sample) /\ Len(<<>>) = 0
        OBVIOUS
    <2> QED BY <2>1, <1>1, <1>5, AheadZero DEF Init, TypeOK
<1> QED BY <1>2, <1>4, <1>6 DEF Inv

\* The indices are where the chain says, seen from either end.
LEMMA ChainGaps ==
    ASSUME TypeOK, NEW a \in 0 .. Size, NEW b \in 0 .. Size, NEW c \in 0 .. Size,
           ChainAt(a, b, c)
    PROVE  /\ Gap(pSeen, read) = a
           /\ Gap(read, cSeen) = b
           /\ Gap(cSeen, write) = c
           /\ write = Ahead(read, b + c)
           /\ write = Ahead(pSeen, a + b + c)
           /\ Gap(pSeen, write) = a + b + c
<1>1. Size \in Nat \ {0} /\ Wrap \in Nat \ {0} /\ Wrap > Size
    BY RingAssumption
<1>2. pSeen \in Index /\ read \in Index /\ cSeen \in Index /\ write \in Index
    BY DEF TypeOK
<1>3. /\ a \in 0 .. Wrap - 1 /\ b \in 0 .. Wrap - 1 /\ c \in 0 .. Wrap - 1
      /\ a + b + c \in 0 .. Wrap - 1
      /\ a \in Nat /\ b \in Nat /\ c \in Nat /\ b + c \in Nat
      /\ a + (b + c) = a + b + c
    BY <1>1 DEF ChainAt
<1>4. read = Ahead(pSeen, a) /\ cSeen = Ahead(read, b) /\ write = Ahead(cSeen, c)
    BY DEF ChainAt
<1>5. write = Ahead(read, b + c)
    BY <1>2, <1>3, <1>4, AheadAhead
<1>6. write = Ahead(pSeen, a + b + c)
    <2>1. Ahead(Ahead(pSeen, a), b + c) = Ahead(pSeen, a + (b + c))
        BY <1>2, <1>3, AheadAhead
    <2> QED BY <1>3, <1>4, <1>5, <2>1
<1>7. Gap(pSeen, read) = a /\ Gap(read, cSeen) = b /\ Gap(cSeen, write) = c
    BY <1>2, <1>3, <1>4, GapAhead
<1>8. Gap(pSeen, write) = a + b + c
    BY <1>2, <1>3, <1>6, GapAhead
<1> QED BY <1>5, <1>6, <1>7, <1>8

\* An acquire load moves the seen index part of the way to the current one.
LEMMA LoadSplits ==
    ASSUME NEW seen \in Index, NEW now \in Index, NEW d \in 0 .. Size,
           now = Ahead(seen, d), Gap(seen, now) = d, NEW new \in Loads(seen, now)
    PROVE  /\ new \in Index
           /\ \E k \in 0 .. d : new = Ahead(seen, k) /\ now = Ahead(new, d - k)
<1>1. Size \in Nat
    BY RingAssumption
<1>2. PICK k \in 0 .. d : new = Ahead(seen, k)
    BY DEF Loads
<1>3. k \in Nat /\ d - k \in Nat /\ k + (d - k) = d
    BY <1>1
<1>4. new \in Index /\ Ahead(Ahead(seen, k), d - k) = Ahead(seen, k + (d - k))
    BY <1>2, <1>3, AheadAhead
<1> QED BY <1>2, <1>3, <1>4

-----------------------------------------------------------------------------
(* Each step keeps it.                                                     *)

\* Threads rest between their calls.
LEMMA StepResting == Inv /\ [Next]_vars => Resting'
<1> SUFFICES ASSUME Inv, [Next]_vars PROVE Resting'
    OBVIOUS
<1> USE DEF Inv, Resting
<1>1. CASE PublishPrefill
    BY <1>1 DEF PublishPrefill, consumer
<1>2. ASSUME NEW w \in Waves, MixFrame(w) PROVE Resting'
    BY <1>2 DEF MixFrame, consumer
<1>3. CASE PushLoad
    BY <1>3 DEF PushLoad, consumer
<1>4. CASE PushCopy
    BY <1>4 DEF PushCopy, consumer
<1>5. CASE PushStore
    BY <1>5 DEF PushStore, consumer
<1>6. ASSUME NEW n \in Periods, PullLoad(n) PROVE Resting'
    BY <1>6 DEF PullLoad, producer
<1>7. CASE PullCopy
    BY <1>7 DEF PullCopy, producer
<1>8. CASE PullStore
    BY <1>8 DEF PullStore, producer
<1>9. CASE UNCHANGED vars
    BY <1>9 DEF vars, producer, consumer
<1> QED BY <1>1, <1>2, <1>3, <1>4, <1>5, <1>6, <1>7, <1>8, <1>9 DEF Next

\* The indices keep their order, and copies their stretches.
LEMMA StepChain == Inv /\ [Next]_vars => Chain'
<1> SUFFICES ASSUME Inv, [Next]_vars PROVE Chain'
    OBVIOUS
<1>1. Size \in Nat \ {0} /\ Wrap \in Nat \ {0} /\ Wrap > Size /\ Prefill \in 0 .. Size
    BY RingAssumption
<1>2. TypeOK /\ Resting
    BY DEF Inv
<1>3. pSeen \in Index /\ read \in Index /\ cSeen \in Index /\ write \in Index
    BY <1>2 DEF TypeOK
<1>4. pGoal \in Nat /\ Len(pSrc) \in Nat /\ cGoal \in Nat
    BY <1>2, RateAssumption DEF TypeOK
<1>5. PICK a \in 0 .. Size, b \in 0 .. Size, c \in 0 .. Size : ChainAt(a, b, c)
    BY DEF Inv, Chain
<1>6. /\ Gap(pSeen, read) = a /\ Gap(read, cSeen) = b /\ Gap(cSeen, write) = c
      /\ Gap(pSeen, write) = a + b + c
    BY <1>2, <1>5, ChainGaps
<1>7. CASE PublishPrefill
    <2>1. /\ a = 0 /\ b = 0 /\ c = 0 /\ write = 0 /\ pGoal = 0
          /\ read = Ahead(pSeen, a) /\ cSeen = Ahead(read, b) /\ write = Ahead(cSeen, c)
          /\ cGoal <= b
        BY <1>2, <1>5, <1>7 DEF PublishPrefill, ChainAt, Resting
    <2>2. write' = Ahead(cSeen, Prefill)
        BY <1>1, <1>3, <1>7, <2>1, AheadZero DEF PublishPrefill
    <2>3. ChainAt(0, 0, Prefill)'
        BY <1>1, <1>7, <2>1, <2>2 DEF PublishPrefill, ChainAt, consumer
    <2> QED BY <1>1, <2>3 DEF Chain
<1>8. ASSUME NEW w \in Waves, MixFrame(w) PROVE Chain'
    <2>1. pSeen' \in Loads(pSeen, read)
        BY <1>8 DEF MixFrame
    <2>2. PICK k \in 0 .. a : read = Ahead(pSeen', a - k)
        BY <1>3, <1>5, <1>6, <2>1, LoadSplits DEF ChainAt
    <2>3. ChainAt(a - k, b, c)'
        BY <1>1, <1>4, <1>5, <1>8, <2>2 DEF MixFrame, ChainAt, consumer
    <2> QED BY <1>1, <2>2, <2>3 DEF Chain
<1>9. CASE PushLoad
    <2>1. pSeen' \in Loads(pSeen, read)
        BY <1>9 DEF PushLoad
    <2>2. PICK k \in 0 .. a : pSeen' \in Index /\ read = Ahead(pSeen', a - k)
        BY <1>3, <1>5, <1>6, <2>1, LoadSplits DEF ChainAt
    <2>3. Free(pSeen') = Size - ((a - k) + b + c)
        <3>1. a - k \in Nat /\ b + c \in Nat /\ (a - k) + (b + c) \in 0 .. Wrap - 1
            BY <1>1, <1>5 DEF ChainAt
        <3>2. write = Ahead(read, b + c)
            BY <1>2, <1>5, ChainGaps
        <3>3. write = Ahead(pSeen', (a - k) + (b + c))
            BY <2>2, <3>1, <3>2, AheadAhead
        <3>4. Gap(pSeen', write) = (a - k) + (b + c)
            BY <2>2, <3>1, <3>3, GapAhead
        <3> QED BY <1>1, <3>1, <3>4 DEF Free
    <2>4. pGoal' <= Size - ((a - k) + b + c)
        BY <1>1, <1>2, <1>4, <1>5, <1>9, <2>2, <2>3 DEF PushLoad, Resting, ChainAt
    <2>5. ChainAt(a - k, b, c)'
        BY <1>1, <1>5, <1>9, <2>2, <2>4 DEF PushLoad, ChainAt, consumer
    <2> QED BY <1>1, <2>2, <2>5 DEF Chain
<1>10. CASE PushCopy
    <2>1. ChainAt(a, b, c)'
        BY <1>5, <1>10 DEF PushCopy, ChainAt, consumer
    <2> QED BY <2>1 DEF Chain
<1>11. CASE PushStore
    <2>1. write' = Ahead(cSeen, c + pGoal)
        BY <1>3, <1>4, <1>5, <1>11, AheadAhead DEF PushStore, ChainAt
    <2>2. PICK g \in 0 .. Size : g = pGoal /\ c + g \in 0 .. Size
        BY <1>1, <1>4, <1>5 DEF ChainAt
    <2>3. ChainAt(a, b, c + g)'
        BY <1>1, <1>4, <1>5, <1>11, <2>1, <2>2 DEF PushStore, ChainAt, consumer
    <2> QED BY <2>2, <2>3 DEF Chain
<1>12. ASSUME NEW n \in Periods, PullLoad(n) PROVE Chain'
    <2>1. cSeen' \in Loads(cSeen, write)
        BY <1>12 DEF PullLoad
    <2>2. PICK k \in 0 .. c : cSeen' = Ahead(cSeen, k) /\ write = Ahead(cSeen', c - k)
        BY <1>3, <1>5, <1>6, <2>1, LoadSplits DEF ChainAt
    <2>3. b + k \in 0 .. Size /\ b \in Nat /\ k \in Nat /\ b + k \in 0 .. Wrap - 1
        BY <1>1, <1>5, <2>2 DEF ChainAt
    <2>4. cSeen' = Ahead(read, b + k)
        BY <1>3, <1>5, <2>2, <2>3, AheadAhead DEF ChainAt
    <2>5. Gap(read, cSeen') = b + k
        BY <1>3, <2>3, <2>4, GapAhead
    <2>6. cGoal' <= b + k
        BY <1>12, <2>3, <2>5, RateAssumption DEF PullLoad
    <2>7. ChainAt(a, b + k, c - k)'
        BY <1>1, <1>5, <1>12, <2>2, <2>3, <2>4, <2>6 DEF PullLoad, ChainAt, producer
    <2> QED BY <1>1, <2>2, <2>3, <2>7 DEF Chain
<1>13. CASE PullCopy
    <2>1. ChainAt(a, b, c)'
        BY <1>5, <1>13 DEF PullCopy, ChainAt, producer
    <2> QED BY <2>1 DEF Chain
<1>14. CASE PullStore
    <2>1. PICK g \in 0 .. b : g = cGoal /\ b - g \in 0 .. Size /\ g + (b - g) = b
        BY <1>1, <1>4, <1>5 DEF ChainAt
    <2>2. read' = Ahead(read, g) /\ cSeen' = cSeen
        BY <1>14, <2>1 DEF PullStore
    <2>3. cSeen' = Ahead(read', b - g)
        BY <1>3, <1>4, <1>5, <2>1, <2>2, AheadAhead DEF ChainAt
    <2>4. read' = Ahead(pSeen, a + g) /\ a + g \in 0 .. Size
        BY <1>1, <1>3, <1>4, <1>5, <2>1, <2>2, AheadAhead DEF ChainAt
    <2>5. ChainAt(a + g, b - g, c)'
        BY <1>1, <1>4, <1>5, <1>14, <2>1, <2>3, <2>4 DEF PullStore, ChainAt, producer
    <2> QED BY <1>1, <2>1, <2>4, <2>5 DEF Chain
<1>15. CASE UNCHANGED vars
    BY <1>5, <1>15 DEF vars, producer, consumer, Chain, ChainAt
<1> QED BY <1>7, <1>8, <1>9, <1>10, <1>11, <1>12, <1>13, <1>14, <1>15 DEF Next

\* A loaded index is an index.
LEMMA LoadsType ==
    ASSUME NEW seen \in Index, NEW now \in Index, NEW new \in Loads(seen, now)
    PROVE  new \in Index
<1>1. Gap(seen, now) \in Nat
    BY RingAssumption DEF Gap, Index
<1>2. PICK k \in 0 .. Gap(seen, now) : new = Ahead(seen, k)
    BY DEF Loads
<1> QED BY <1>1, <1>2, AheadAhead

\* What push() computes as free fits the ring, whatever read_ it loads.
LEMMA FreeBound ==
    ASSUME Inv, NEW new \in Loads(pSeen, read)
    PROVE  Free(new) \in 0 .. Size
<1>1. Size \in Nat \ {0} /\ Wrap \in Nat \ {0} /\ Wrap > Size
    BY RingAssumption
<1>2. PICK a \in 0 .. Size, b \in 0 .. Size, c \in 0 .. Size : ChainAt(a, b, c)
    BY DEF Inv, Chain
<1>3. TypeOK /\ pSeen \in Index /\ read \in Index
    BY DEF Inv, TypeOK
<1>4. /\ read = Ahead(pSeen, a) /\ Gap(pSeen, read) = a
      /\ write = Ahead(read, b + c) /\ a + b + c <= Size
    BY <1>2, <1>3, ChainGaps DEF ChainAt
<1>5. PICK k \in 0 .. a : new \in Index /\ read = Ahead(new, a - k)
    BY <1>3, <1>4, LoadSplits
<1>6. a - k \in Nat /\ b + c \in Nat /\ (a - k) + (b + c) \in 0 .. Size
    BY <1>1, <1>4
<1>7. write = Ahead(new, (a - k) + (b + c))
    BY <1>4, <1>5, <1>6, AheadAhead
<1>8. Gap(new, write) = (a - k) + (b + c)
    BY <1>1, <1>5, <1>6, <1>7, GapAhead
<1> QED BY <1>1, <1>6, <1>8 DEF Free

\* The variables keep their types.
LEMMA StepType == Inv /\ [Next]_vars => TypeOK'
<1> SUFFICES ASSUME Inv, [Next]_vars PROVE TypeOK'
    OBVIOUS
<1>1. Size \in Nat \ {0} /\ Wrap \in Nat \ {0} /\ Wrap > Size /\ Prefill \in 0 .. Size
    BY RingAssumption
<1>2. TypeOK /\ Resting
    BY DEF Inv
<1>3. /\ write \in Index /\ read \in Index /\ pSeen \in Index /\ cSeen \in Index
      /\ pSrc \in Seq(Sample) /\ cOut \in Seq(Sample) /\ Silence \in Sample
      /\ ring \in [0 .. Size - 1 -> Sample]
      /\ cWant \in Nat
    BY <1>2, RateAssumption DEF TypeOK, Sample
<1>4. \A x \in Nat : Slot(x) \in 0 .. Size - 1
    BY <1>1 DEF Slot
<1>5. CASE PublishPrefill
    <2>1. Prefill \in Index
        BY <1>1 DEF Index
    <2> QED BY <1>2, <1>5, <2>1 DEF PublishPrefill, TypeOK, consumer
<1>6. ASSUME NEW w \in Waves, MixFrame(w) PROVE TypeOK'
    <2>1. pSeen' \in Index
        BY <1>3, <1>6, LoadsType DEF MixFrame
    <2>2. w \in Seq(Sample) /\ Len(w) = Base + Nudge
        BY WaveAssumption
    <2>3. FrameLength(Gap(pSeen', write)) \in 1 .. Len(w)
        BY <2>2, RateAssumption DEF FrameLength
    <2>4. pSrc' \in Seq(Sample) /\ Len(pSrc') \in Nat
        BY <1>6, <2>2, <2>3 DEF MixFrame
    <2> QED BY <1>2, <1>6, <2>1, <2>4 DEF MixFrame, TypeOK, consumer
<1>7. CASE PushLoad
    <2>1. pSeen' \in Index
        BY <1>3, <1>7, LoadsType DEF PushLoad
    <2>2. /\ pPc' \in {"idle", "copy"} /\ pSrc' \in Seq(Sample)
          /\ pGoal' \in 0 .. Len(pSrc') /\ pDone' \in 0 .. pGoal'
        <3>1. Free(pSeen') \in Int /\ Free(pSeen') >= 0
            <4>1. pSeen' \in Loads(pSeen, read)
                BY <1>7 DEF PushLoad
            <4>2. Free(pSeen') \in 0 .. Size
                BY <4>1, FreeBound
            <4> QED BY <1>1, <4>2
        <3>2. Len(pSrc) \in Nat /\ pGoal = 0 /\ pDone = 0 /\ pDone' = pDone
            BY <1>2, <1>3, <1>7 DEF PushLoad, Resting
        <3>3. CASE Free(pSeen') = 0
            <4>1. pPc' = "idle" /\ pSrc' = <<>> /\ pGoal' = 0
                BY <1>7, <3>2, <3>3 DEF PushLoad
            <4> QED BY <3>2, <4>1
        <3>4. CASE Free(pSeen') # 0
            <4>1. /\ pPc' = "copy" /\ pSrc' = pSrc
                  /\ pGoal' \in {Len(pSrc), Free(pSeen')} /\ pGoal' <= Len(pSrc)
                BY <1>7, <3>1, <3>2, <3>4 DEF PushLoad
            <4> QED BY <1>3, <3>1, <3>2, <4>1
        <3> QED BY <3>3, <3>4
    <2> QED BY <1>2, <1>7, <2>1, <2>2 DEF PushLoad, TypeOK, consumer
<1>8. CASE PushCopy
    <2>1. Slot(write + pDone) \in 0 .. Size - 1
        <3>1. write \in Nat
            BY <1>1, <1>3 DEF Index
        <3>2. pDone \in Nat
            BY <1>2, <1>3 DEF TypeOK
        <3>3. write + pDone \in Nat
            BY <3>1, <3>2
        <3> QED BY <1>4, <3>3
    <2>2. pSrc[pDone + 1] \in Sample
        BY <1>2, <1>3, <1>8 DEF PushCopy, TypeOK
    <2> QED BY <1>2, <1>3, <1>8, <2>1, <2>2 DEF PushCopy, TypeOK, consumer
<1>9. CASE PushStore
    <2>1. write' \in Index
        BY <1>2, <1>3, <1>9, AheadAhead DEF PushStore, TypeOK
    <2> QED BY <1>2, <1>9, <2>1 DEF PushStore, TypeOK, consumer
<1>10. ASSUME NEW n \in Periods, PullLoad(n) PROVE TypeOK'
    <2>1. cSeen' \in Index
        BY <1>3, <1>10, LoadsType DEF PullLoad
    <2>2. n \in Nat /\ Gap(read, cSeen') \in Nat
        BY <1>1, <1>3, <2>1, RateAssumption DEF Gap, Index
    <2>3. cGoal' \in 0 .. n
        BY <1>10, <2>2 DEF PullLoad
    <2>4. cOut' = <<>> /\ Len(cOut') = 0
        BY <1>2, <1>10 DEF PullLoad, Resting
    <2> QED BY <1>2, <1>10, <2>1, <2>3, <2>4 DEF PullLoad, TypeOK, producer
<1>11. CASE PullCopy
    <2>1. Slot(read + Len(cOut)) \in 0 .. Size - 1
        <3>1. read \in Nat
            BY <1>1, <1>3 DEF Index
        <3>2. Len(cOut) \in Nat
            BY <1>3
        <3>3. read + Len(cOut) \in Nat
            BY <3>1, <3>2
        <3> QED BY <1>4, <3>3
    <2>2. cOut' \in Seq(Sample) /\ Len(cOut') = Len(cOut) + 1
        BY <1>3, <1>11, <2>1 DEF PullCopy
    <2>3. Len(cOut') <= cGoal /\ cGoal' = cGoal
        BY <1>2, <1>3, <1>11, <2>2 DEF PullCopy, TypeOK
    <2> QED BY <1>2, <1>11, <2>2, <2>3 DEF PullCopy, TypeOK, producer
<1>12. CASE PullStore
    <2>1. read' \in Index
        BY <1>2, <1>3, <1>12, AheadAhead DEF PullStore, TypeOK
    <2>2. cWant - cGoal \in Nat
        BY <1>2, <1>3 DEF TypeOK
    <2> DEFINE rest == [i \in 1 .. cWant - cGoal |-> Silence]
    <2>3. rest \in Seq(Sample)
        BY <1>3, <2>2
    <2>4. heard' = cOut \o rest
        BY <1>12 DEF PullStore
    <2> HIDE DEF rest
    <2>5. heard' \in Seq(Sample)
        BY <1>3, <2>3, <2>4
    <2>6. cPc' = "idle" /\ cWant' = 0 /\ cGoal' = 0 /\ cOut' = <<>> /\ cSeen' = cSeen
        BY <1>12 DEF PullStore
    <2>7. cOut' \in Seq(Sample) /\ Len(cOut') <= cGoal' /\ cGoal' \in 0 .. cWant'
        BY <2>6
    <2>8. UNCHANGED <<ring, write, pPc, pSrc, pSeen, pGoal, pDone>>
        BY <1>12 DEF PullStore, producer
    <2> QED BY <1>2, <2>1, <2>5, <2>6, <2>7, <2>8 DEF TypeOK
<1>13. CASE UNCHANGED vars
    BY <1>2, <1>13 DEF vars, producer, consumer, TypeOK
<1> QED BY <1>5, <1>6, <1>7, <1>8, <1>9, <1>10, <1>11, <1>12, <1>13 DEF Next

-----------------------------------------------------------------------------
(* What follows.                                                           *)

\* A slot being written is not a published one.
LEMMA Apart ==
    ASSUME Inv, NEW j \in Nat, NEW k \in Nat, j < Gap(read, write), k < pGoal
    PROVE  Slot(read + j) # Slot(write + k)
<1>1. Size \in Nat \ {0}
    BY RingAssumption
<1>2. read \in Index /\ read \in Nat
    BY RingAssumption DEF Inv, TypeOK, Index
<1>3. PICK a \in 0 .. Size, b \in 0 .. Size, c \in 0 .. Size : ChainAt(a, b, c)
    BY DEF Inv, Chain
<1>4. b + c \in 0 .. Wrap - 1 /\ b + c \in Nat
    BY <1>1, <1>3, RingAssumption DEF ChainAt
<1>5. write = Ahead(read, b + c)
    BY <1>3, ChainGaps DEF Inv
<1>6. Gap(read, write) = b + c
    BY <1>2, <1>4, <1>5, GapAhead
<1>7. pGoal <= Size - (a + b + c) /\ pGoal \in Int
    <2>1. pSrc \in Seq(Sample) /\ pGoal \in 0 .. Len(pSrc)
        BY DEF Inv, TypeOK
    <2> QED BY <1>3, <2>1 DEF ChainAt
<1>8. Slot(write + k) = Slot(read + (b + c + k))
    BY <1>2, <1>4, <1>5, SlotAhead
<1> DEFINE x == read + j
           d == (b + c + k) - j
<1>9. x \in Nat /\ d \in 1 .. Size - 1 /\ x + d = read + (b + c + k)
    BY <1>1, <1>2, <1>4, <1>6, <1>7
<1> HIDE DEF d
<1>10. Slot(x) # Slot(x + d)
    BY <1>9, SlotsDiffer
<1> QED BY <1>8, <1>9, <1>10

\* The consumer copies published samples only.
LEMMA GoalPublished ==
    ASSUME Inv
    PROVE  /\ cGoal \in 0 .. Gap(read, write) /\ Gap(read, write) \in 0 .. Size
           /\ Gap(read, write) + pGoal <= Size
           /\ write = Ahead(read, Gap(read, write))
<1>1. Size \in Nat \ {0} /\ Wrap \in Nat \ {0} /\ Wrap > Size
    BY RingAssumption
<1>2. PICK a \in 0 .. Size, b \in 0 .. Size, c \in 0 .. Size : ChainAt(a, b, c)
    BY DEF Inv, Chain
<1>3. write = Ahead(read, b + c) /\ read \in Index
    BY <1>2, ChainGaps DEF Inv, TypeOK
<1>4. b + c \in 0 .. Wrap - 1 /\ cGoal <= b /\ b + c <= Size
    BY <1>1, <1>2 DEF ChainAt
<1>5. Gap(read, write) = b + c
    BY <1>3, <1>4, GapAhead
<1>6. cGoal \in Nat
    <2>1. TypeOK /\ Periods \cup {0} \subseteq Nat
        BY RateAssumption DEF Inv
    <2> QED BY <2>1 DEF TypeOK
<1>7. pGoal <= Size - (a + b + c) /\ pGoal \in Int
    <2>1. pSrc \in Seq(Sample) /\ pGoal \in 0 .. Len(pSrc)
        BY DEF Inv, TypeOK
    <2> QED BY <1>2, <2>1 DEF ChainAt
<1> QED BY <1>1, <1>3, <1>4, <1>5, <1>6, <1>7

\* In the invariant the stretches the threads copy do not meet.
LEMMA InvNoRace == Inv => NoRace
<1> SUFFICES ASSUME Inv PROVE NoRace
    OBVIOUS
<1>1. Len(cOut) \in Nat /\ pDone \in Nat /\ cGoal \in Nat /\ pGoal \in Nat
    <2>1. TypeOK /\ Periods \cup {0} \subseteq Nat
        BY RateAssumption DEF Inv
    <2>2. /\ pSrc \in Seq(Sample) /\ pGoal \in 0 .. Len(pSrc) /\ pDone \in 0 .. pGoal
          /\ cOut \in Seq(Sample) /\ cGoal \in 0 .. cWant /\ cWant \in Nat
        BY <2>1 DEF TypeOK
    <2> QED BY <2>2
<1> SUFFICES ASSUME NEW j \in Nat, NEW k \in Nat, j < cGoal, k < pGoal
             PROVE  Slot(read + j) # Slot(write + k)
    BY <1>1 DEF NoRace, Writing, Reading
<1>2. j < Gap(read, write)
    BY <1>1, GoalPublished
<1> QED BY <1>2, Apart

\* The ring's invariant holds of every behaviour.
THEOREM RingInvariant == Spec => []Inv
<1>1. Inv /\ [Next]_vars => Inv'
    BY StepResting, StepChain, StepType DEF Inv
<1> QED BY InitInv, <1>1, PTL DEF Spec

\* Indices, samples and copies keep their types.
THEOREM TypeCorrect == Spec => []TypeOK
<1>1. Inv => TypeOK
    BY DEF Inv
<1> QED BY <1>1, RingInvariant, PTL

\* No slot is ever written and read at the same time, at any ring size, index
\* width, frame and period length, and however stale the loads.
THEOREM RaceFree == Spec => []NoRace
BY InvNoRace, RingInvariant, PTL

-----------------------------------------------------------------------------
(* The ring implements the bounded FIFO.                                   *)

\* What pull() has copied is the head of the published samples.
Copied ==
    /\ \A j \in 1 .. Len(cOut) : cOut[j] = ring[Slot(read + (j - 1))]
    /\ cPc = "copy" => cWant \in Periods

FifoInv == Inv /\ Copied

LEMMA StepCopied == FifoInv /\ [Next]_vars => Copied'
<1> SUFFICES ASSUME FifoInv, [Next]_vars PROVE Copied'
    OBVIOUS
<1>1. Inv /\ Copied
    BY DEF FifoInv
<1>2. /\ read \in Nat /\ write \in Nat /\ Len(cOut) \in Nat /\ cOut \in Seq(Sample)
      /\ pDone \in Nat /\ pGoal \in Nat /\ ring \in [0 .. Size - 1 -> Sample]
      /\ Len(cOut) <= cGoal /\ cGoal \in Nat
    <2>1. TypeOK /\ Periods \cup {0} \subseteq Nat
        BY <1>1, RateAssumption DEF Inv
    <2>2. /\ pSrc \in Seq(Sample) /\ pGoal \in 0 .. Len(pSrc) /\ pDone \in 0 .. pGoal
          /\ cOut \in Seq(Sample) /\ cGoal \in 0 .. cWant /\ cWant \in Nat
          /\ Len(cOut) <= cGoal /\ read \in Index /\ write \in Index
        BY <2>1 DEF TypeOK
    <2>3. Index \subseteq Nat
        BY RingAssumption DEF Index
    <2> QED BY <2>1, <2>2, <2>3 DEF TypeOK
<1>3. CASE UNCHANGED <<ring, read, cOut, cPc, cWant>>
    BY <1>1, <1>3 DEF Copied
<1>4. CASE PushCopy
    <2>1. ASSUME NEW j \in 1 .. Len(cOut)
          PROVE  cOut'[j] = ring'[Slot(read' + (j - 1))]
        <3>1. j - 1 \in Nat /\ j - 1 < Gap(read, write)
            BY <1>1, <1>2, <2>1, GoalPublished
        <3>2. Slot(read + (j - 1)) # Slot(write + pDone)
            BY <1>1, <1>2, <1>4, <3>1, Apart DEF PushCopy
        <3>3. cOut[j] = ring[Slot(read + (j - 1))]
            BY <1>1, <2>1 DEF Copied
        <3>4. ring' = [ring EXCEPT ![Slot(write + pDone)] = pSrc[pDone + 1]]
              /\ cOut' = cOut /\ read' = read
            BY <1>4 DEF PushCopy, consumer
        <3>5. Slot(read + (j - 1)) \in DOMAIN ring
            BY <1>2, <3>1, RingAssumption DEF Slot
        <3> QED BY <3>2, <3>3, <3>4, <3>5
    <2> QED BY <1>1, <1>4, <2>1 DEF PushCopy, consumer, Copied
<1>5. ASSUME NEW n \in Periods, PullLoad(n) PROVE Copied'
    BY <1>1, <1>5 DEF PullLoad, Copied
<1>6. CASE PullCopy
    <2>1. /\ cOut' = Append(cOut, ring[Slot(read + Len(cOut))])
          /\ UNCHANGED <<ring, read, cPc, cWant>>
        BY <1>6 DEF PullCopy
    <2>2. \A j \in 1 .. Len(cOut') : cOut'[j] = ring[Slot(read + (j - 1))]
        <3> TAKE j \in 1 .. Len(cOut')
        <3>1. CASE j = Len(cOut) + 1
            <4>1. j - 1 = Len(cOut)
                BY <1>2, <3>1
            <4> QED BY <1>2, <2>1, <3>1, <4>1
        <3>2. CASE j # Len(cOut) + 1
            <4>1. j \in 1 .. Len(cOut)
                BY <1>2, <2>1, <3>2
            <4>2. cOut'[j] = cOut[j]
                BY <1>2, <2>1, <4>1
            <4> QED BY <1>1, <4>1, <4>2 DEF Copied
        <3> QED BY <3>1, <3>2
    <2> QED BY <1>1, <2>1, <2>2 DEF Copied
<1>7. CASE PullStore
    <2>1. cOut' = <<>> /\ cPc' = "idle"
        BY <1>7 DEF PullStore
    <2> QED BY <2>1 DEF Copied
<1> QED
    BY <1>3, <1>4, <1>5, <1>6, <1>7
    DEF Next, vars, consumer, PublishPrefill, MixFrame, PushLoad, PushStore

\* Published is a sequence, indexed from the consumer's index.
LEMMA PublishedSeq ==
    ASSUME Inv
    PROVE  /\ Gap(read, write) \in Nat
           /\ Published \in Seq(Sample)
           /\ Len(Published) = Gap(read, write)
           /\ \A k \in 1 .. Gap(read, write) : Published[k] = ring[Slot(read + k - 1)]
<1>1. Gap(read, write) \in Nat
    BY GoalPublished, RingAssumption
<1>2. ring \in [0 .. Size - 1 -> Sample] /\ read \in Nat
    BY RingAssumption DEF Inv, TypeOK, Index
<1>3. \A k \in 1 .. Gap(read, write) : ring[Slot(read + k - 1)] \in Sample
    <2> TAKE k \in 1 .. Gap(read, write)
    <2>1. read + k - 1 \in Nat
        BY <1>1, <1>2
    <2>2. Slot(read + k - 1) \in 0 .. Size - 1
        BY <2>1, RingAssumption DEF Slot
    <2> QED BY <1>2, <2>2
<1> QED BY <1>1, <1>3 DEF Published

\* A step that leaves the published slots and both indices alone is a stutter.
LEMMA PublishedSame ==
    ASSUME Inv, read' = read, write' = write,
           \A k \in 1 .. Gap(read, write) : ring'[Slot(read + k - 1)] = ring[Slot(read + k - 1)]
    PROVE  Published' = Published
BY DEF Published

\* Publishing appends.
LEMMA PublishedGrows ==
    ASSUME Inv, read' = read, ring' = ring, heard' = heard,
           NEW h \in Gap(read, write) .. Size, Gap(read, write') = h
    PROVE  Queue!Put \/ UNCHANGED <<Published, heard>>
<1> DEFINE p == Published
           q == Published'
           g == Gap(read, write)
<1>1. /\ g \in Nat /\ p \in Seq(Sample) /\ Len(p) = g
      /\ \A k \in 1 .. g : p[k] = ring[Slot(read + k - 1)]
    BY PublishedSeq
<1>2. h \in Nat /\ h <= Size /\ g <= h
    BY <1>1, RingAssumption
<1>3. q = [k \in 1 .. h |-> ring[Slot(read + k - 1)]]
    BY DEF Published
<1>4. /\ Len(q) = h
      /\ q \in Seq(Sample)
      /\ \A k \in 1 .. h : q[k] = ring[Slot(read + k - 1)]
    <2>1. ring \in [0 .. Size - 1 -> Sample] /\ read \in Nat
        BY RingAssumption DEF Inv, TypeOK, Index
    <2>2. \A k \in 1 .. h : ring[Slot(read + k - 1)] \in Sample
        <3> TAKE k \in 1 .. h
        <3>1. read + k - 1 \in Nat
            BY <1>2, <2>1
        <3>2. Slot(read + k - 1) \in 0 .. Size - 1
            BY <3>1, RingAssumption DEF Slot
        <3> QED BY <2>1, <3>2
    <2> HIDE DEF q
    <2> QED BY <1>2, <1>3, <2>2
<1> HIDE DEF p, q, g
<1>5. \A k \in 1 .. g : q[k] = p[k]
    <2> TAKE k \in 1 .. g
    <2>1. k \in 1 .. h
        BY <1>1, <1>2
    <2>2. q[k] = ring[Slot(read + k - 1)]
        BY <1>4, <2>1
    <2>3. p[k] = ring[Slot(read + k - 1)]
        BY <1>1
    <2> QED BY <2>2, <2>3
<1>6. SubSeq(p, 1, g) = SubSeq(q, 1, g)
    BY <1>1, <1>2, <1>4, <1>5
<1>7. CASE p = q
    BY <1>7 DEF p, q
<1>8. CASE p # q
    <2>1. Queue!IsStrictPrefix(p, q)
        BY <1>1, <1>2, <1>4, <1>6, <1>8 DEF Queue!IsStrictPrefix, Queue!IsPrefix
    <2> QED BY <1>2, <1>4, <2>1 DEF Queue!Put, p, q
<1> QED BY <1>7, <1>8

\* Returning a period takes the head of the queue, and silence.
LEMMA PullTakes == FifoInv /\ PullStore => Queue!Take
<1> SUFFICES ASSUME FifoInv, PullStore PROVE Queue!Take
    OBVIOUS
<1> DEFINE p == Published
           q == Published'
           g == Gap(read, write)
           M == CHOOSE m \in Periods : \A n \in Periods : n <= m
<1>1. Inv /\ Copied
    BY DEF FifoInv
<1>2. /\ g \in Nat /\ p \in Seq(Sample) /\ Len(p) = g
      /\ \A i \in 1 .. g : p[i] = ring[Slot(read + i - 1)]
    BY <1>1, PublishedSeq
<1>3. /\ cGoal \in 0 .. g /\ g \in 0 .. Size /\ write = Ahead(read, g)
      /\ read \in Index /\ read \in Nat
    BY <1>1, GoalPublished, RingAssumption DEF Inv, TypeOK, Index
<1>4. /\ cOut \in Seq(Sample) /\ Len(cOut) = cGoal /\ cGoal <= cWant
      /\ read' = Ahead(read, cGoal) /\ write' = write /\ ring' = ring
      /\ heard' = cOut \o [i \in 1 .. cWant - cGoal |-> Silence]
    BY <1>1, RateAssumption DEF PullStore, Inv, TypeOK, producer
<1>5. cWant \in 1 .. M
    <2>1. M \in Periods /\ \A n \in Periods : n <= M
        BY PeriodAssumption
    <2>2. cWant \in Periods
        BY <1>1 DEF PullStore, Copied
    <2> HIDE DEF M
    <2> QED BY <2>1, <2>2, RateAssumption
<1> HIDE DEF M
<1>6. cOut = SubSeq(p, 1, cGoal)
    <2>1. \A i \in 1 .. cGoal : cOut[i] = p[i]
        <3> TAKE i \in 1 .. cGoal
        <3>1. i \in 1 .. g /\ read + i - 1 = read + (i - 1)
            BY <1>2, <1>3
        <3>2. cOut[i] = ring[Slot(read + (i - 1))]
            BY <1>1, <1>4 DEF Copied
        <3> QED BY <1>2, <3>1, <3>2
    <2> HIDE DEF p, g
    <2>2. SubSeq(p, 1, cGoal) = [i \in 1 .. cGoal |-> p[i]]
        BY <1>2, <1>3
    <2>3. cOut = [i \in 1 .. cGoal |-> cOut[i]]
        BY <1>2, <1>3, <1>4
    <2> QED BY <2>1, <2>2, <2>3
<1>7. q = SubSeq(p, cGoal + 1, Len(p))
    <2>1. Gap(read', write') = g - cGoal
        <3>1. cGoal \in Nat /\ g - cGoal \in Nat /\ cGoal + (g - cGoal) = g
            BY <1>2, <1>3
        <3>2. Ahead(read', g - cGoal) = write' /\ read' \in Index
            BY <1>3, <1>4, <3>1, AheadAhead
        <3>3. g - cGoal \in 0 .. Wrap - 1
            BY <1>2, <1>3, <3>1, RingAssumption
        <3> HIDE DEF g
        <3> QED BY <3>2, <3>3, GapAhead
    <2>2. q = [i \in 1 .. g - cGoal |-> ring[Slot(read' + i - 1)]]
        BY <1>4, <2>1 DEF Published
    <2>3. \A i \in 1 .. g - cGoal : ring[Slot(read' + i - 1)] = p[cGoal + i]
        <3> TAKE i \in 1 .. g - cGoal
        <3>1. i - 1 \in Nat /\ cGoal \in Nat /\ cGoal + i \in 1 .. g
            BY <1>2, <1>3
        <3>2. Slot(Ahead(read, cGoal) + (i - 1)) = Slot(read + (cGoal + (i - 1)))
            BY <1>3, <3>1, SlotAhead
        <3>3. read' + i - 1 = Ahead(read, cGoal) + (i - 1)
            <4>1. Ahead(read, cGoal) \in Int
                BY <1>3, <3>1, AheadAhead, RingAssumption DEF Index
            <4> QED BY <1>4, <3>1, <4>1
        <3>4. read + (cGoal + (i - 1)) = read + (cGoal + i) - 1
            BY <1>3, <3>1
        <3>5. p[cGoal + i] = ring[Slot(read + (cGoal + i) - 1)]
            BY <1>2, <3>1
        <3> QED BY <3>2, <3>3, <3>4, <3>5
    <2> HIDE DEF p, q, g
    <2>4. q = [i \in 1 .. g - cGoal |-> p[cGoal + i]]
        BY <2>2, <2>3
    <2>5. SubSeq(p, cGoal + 1, g) = [i \in 1 .. g - cGoal |-> p[cGoal + i]]
        BY <1>2, <1>3
    <2> QED BY <1>2, <2>4, <2>5
<1>8. cGoal \in 0 .. Len(p) /\ cGoal <= cWant
    BY <1>2, <1>3, <1>4
<1>9. heard' = SubSeq(p, 1, cGoal) \o [i \in 1 .. cWant - cGoal |-> Silence]
    BY <1>4, <1>6
<1> QED BY <1>5, <1>7, <1>8, <1>9 DEF Queue!Take, M

\* What the two ends publish and free is what the queue does.
LEMMA StepImplements ==
    FifoInv /\ [Next]_vars => Queue!Next \/ UNCHANGED <<Published, heard>>
<1> SUFFICES ASSUME FifoInv, [Next]_vars
             PROVE  Queue!Next \/ UNCHANGED <<Published, heard>>
    OBVIOUS
<1>1. Inv
    BY DEF FifoInv
<1>2. /\ read \in Index /\ write = Ahead(read, Gap(read, write))
      /\ Gap(read, write) \in 0 .. Size /\ Gap(read, write) + pGoal <= Size
      /\ pGoal \in Nat
    <2>1. pSrc \in Seq(Sample) /\ pGoal \in 0 .. Len(pSrc)
        BY <1>1 DEF Inv, TypeOK
    <2> QED BY <1>1, <2>1, GoalPublished DEF Inv, TypeOK
<1>3. CASE PublishPrefill
    <2>1. PICK a \in 0 .. Size, b \in 0 .. Size, c \in 0 .. Size : ChainAt(a, b, c)
        BY <1>1 DEF Inv, Chain
    <2>2. a = 0 /\ b = 0 /\ c = 0 /\ write = 0
        BY <1>3, <2>1 DEF PublishPrefill, ChainAt
    <2>3. cSeen = 0 /\ read = 0
        <3>1. cSeen \in Index
            BY <1>1 DEF Inv, TypeOK
        <3> QED BY <1>2, <2>1, <2>2, <3>1, AheadZero DEF ChainAt
    <2>4. Prefill \in 0 .. Wrap - 1 /\ Prefill \in 0 .. Size
        BY RingAssumption
    <2>5. Gap(read, write) = 0 /\ Gap(read, write') = Prefill
        <3>1. Gap(0, 0) = 0 /\ Gap(0, Prefill) = Prefill
            <4>1. 0 \in 0 .. Wrap - 1 /\ 0 \in Index
                BY AheadZero, RingAssumption
            <4>2. Ahead(0, 0) = 0 /\ Ahead(0, Prefill) = Prefill
                BY <2>4, <4>1, AheadZero
            <4>3. Gap(0, Ahead(0, 0)) = 0 /\ Gap(0, Ahead(0, Prefill)) = Prefill
                BY <2>4, <4>1, GapAhead
            <4> QED BY <4>2, <4>3
        <3> QED BY <1>3, <2>2, <2>3, <3>1 DEF PublishPrefill
    <2>6. Prefill \in Gap(read, write) .. Size
        BY <2>4, <2>5
    <2> QED BY <1>1, <1>3, <2>5, <2>6, PublishedGrows DEF PublishPrefill, consumer, Queue!Next
<1>4. CASE PushStore
    <2>1. PICK h \in Gap(read, write) .. Size : h = Gap(read, write) + pGoal
        BY <1>2, RingAssumption
    <2>2. write' = Ahead(read, h) /\ h \in 0 .. Wrap - 1
        <3>1. Gap(read, write) \in Nat /\ h \in 0 .. Wrap - 1
            BY <1>2, <2>1, RingAssumption
        <3>2. Ahead(Ahead(read, Gap(read, write)), pGoal) = Ahead(read, h)
            BY <1>2, <2>1, <3>1, AheadAhead
        <3> QED BY <1>2, <1>4, <3>1, <3>2 DEF PushStore
    <2>3. Gap(read, write') = h
        BY <1>2, <2>2, GapAhead
    <2> QED BY <1>1, <1>4, <2>3, PublishedGrows DEF PushStore, consumer, Queue!Next
<1>5. CASE PullStore
    BY <1>5, PullTakes DEF Queue!Next
<1>6. CASE PushCopy
    <2>1. /\ ring' = [ring EXCEPT ![Slot(write + pDone)] = pSrc[pDone + 1]]
          /\ read' = read /\ write' = write /\ heard' = heard
          /\ pDone \in Nat /\ pDone < pGoal
        <3>1. pSrc \in Seq(Sample) /\ pGoal \in 0 .. Len(pSrc) /\ pDone \in 0 .. pGoal
            BY <1>1 DEF Inv, TypeOK
        <3> QED BY <1>6, <3>1 DEF PushCopy, consumer
    <2>2. ASSUME NEW k \in 1 .. Gap(read, write)
          PROVE  ring'[Slot(read + k - 1)] = ring[Slot(read + k - 1)]
        <3>1. read \in Nat
            BY <1>2, RingAssumption DEF Index
        <3>2. /\ k - 1 \in Nat /\ k - 1 < Gap(read, write)
              /\ read + k - 1 = read + (k - 1) /\ read + k - 1 \in Nat
            BY <1>2, <3>1
        <3>3. Slot(read + k - 1) # Slot(write + pDone)
            BY <1>1, <2>1, <3>2, Apart
        <3>4. Slot(read + k - 1) \in 0 .. Size - 1
            BY <3>2, RingAssumption DEF Slot
        <3>5. ring \in [0 .. Size - 1 -> Sample]
            BY <1>1 DEF Inv, TypeOK
        <3> QED BY <2>1, <3>3, <3>4, <3>5
    <2> QED BY <1>1, <2>1, <2>2, PublishedSame
<1>7. CASE UNCHANGED <<ring, read, write, heard>>
    BY <1>1, <1>7, PublishedSame
<1> QED
    BY <1>3, <1>4, <1>5, <1>6, <1>7
    DEF Next, vars, producer, consumer, MixFrame, PushLoad, PullLoad, PullCopy

\* The ring starts as the empty queue.
LEMMA InitImplements == Init => Queue!Init
<1> SUFFICES ASSUME Init PROVE Published = <<>>
    BY DEF Init, Queue!Init
<1>1. Gap(0, 0) = 0
    BY AheadZero, GapAhead, RingAssumption
<1> QED BY <1>1 DEF Init, Published

\* The ring, its two threads, wrapping indices and stale loads implement the
\* bounded FIFO of SampleQueue.
THEOREM Implements == Spec => ImplementsQueue
<1>1. Init => FifoInv
    <2>1. Init => Copied
        BY DEF Init, Copied
    <2> QED BY <2>1, InitInv DEF FifoInv
<1>2. FifoInv /\ [Next]_vars => FifoInv'
    <2>1. Inv /\ [Next]_vars => Inv'
        BY StepResting, StepChain, StepType DEF Inv
    <2> QED BY <2>1, StepCopied DEF FifoInv
<1>3. FifoInv /\ [Next]_vars => [Queue!Next]_<<Published, heard>>
    BY StepImplements
<1> QED
    BY <1>1, <1>2, <1>3, InitImplements, PTL
    DEF Spec, ImplementsQueue, Queue!Spec

=============================================================================

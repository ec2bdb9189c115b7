------------------------------ MODULE Cpu816 ------------------------------
(***************************************************************************)
(* The 65C816's modes, register widths and stack (CPU65816.cpp): the       *)
(* emulation and width flags, the two kinds of stack access, interrupts,   *)
(* calls and returns.  A guest is any sequence of these instructions;      *)
(* interrupts come between any two of them.                                *)
(*                                                                         *)
(* Of P's flags only C, I, X and M are kept; X stands for both indexes.    *)
(***************************************************************************)
EXTENDS Integers, Sequences

CONSTANTS
    Stacks,     \* bound: stack pointers at the start
    Indexes,    \* bound: values loaded into X
    Masks,      \* bound: operands of REP and SEP, as flags
    Targets,    \* bound: subroutines and handlers: [bank, pc]
    MaxNest,    \* bound: interrupts and calls under way
    MaxSteps    \* bound: instructions of a run

Word == {n \in Nat : n < 65536}
Octet == {n \in Nat : n < 256}
PFlags == {"C", "I", "X", "M"}

ASSUME CpuAssumption ==
    /\ Stacks \subseteq Word /\ Indexes \subseteq Word
    /\ Masks \subseteq SUBSET PFlags
    /\ \A t \in Targets : t.bank \in Octet /\ t.pc \in Word

VARIABLES
    emulation,  \* emulation_
    p,          \* p_: the flags set
    x, sp, pc, pbr,
    stack,      \* the bank-0 bytes pushed so far
    frames,     \* interrupts and calls under way, with what they shall restore
    steps

cpuRegisters == <<emulation, p, x, sp, pc, pbr>>
cpuVars == <<cpuRegisters, stack, frames, steps>>

Wrapped(n) == n % 65536
LowByte(n) == n % 256
HighByte(n) == n \div 256
PageOne(n) == 256 + LowByte(n)

\* P as a byte, and back.
Weight == [C |-> 1, I |-> 4, X |-> 16, M |-> 32]
Byte(q) == (IF "C" \in q THEN 1 ELSE 0) + (IF "I" \in q THEN 4 ELSE 0)
           + (IF "X" \in q THEN 16 ELSE 0) + (IF "M" \in q THEN 32 ELSE 0)
Flags(b) == {f \in DOMAIN Weight : (b \div Weight[f]) % 2 = 1}

eX(e, q) == e \/ "X" \in q

CpuInit ==
    /\ emulation \in BOOLEAN
    /\ p \in IF emulation THEN {{"I", "M", "X"}} ELSE {{"C"}, {"M", "X"}}
    /\ x = 0 /\ pc = 0
    /\ pbr = IF emulation THEN 0 ELSE 1
    /\ sp \in {IF emulation THEN PageOne(s) ELSE s : s \in Stacks}
    /\ stack = <<>> /\ frames = <<>> /\ steps = 0

-----------------------------------------------------------------------------
(* The stack.  Old instructions wrap in page 1 in emulation mode; those of *)
(* the 65816 count in 16 bits, and the page is put back after them.        *)

Peek(k) == IF k \in DOMAIN stack THEN stack[k] ELSE 0

Moved(s, by, raw) ==
    IF emulation /\ ~raw THEN PageOne(s + by) ELSE Wrapped(s + by)

\* Where the n bytes pushed from s land, and those pulled come from, in order.
PushCell(s, n, raw) == Moved(s, 1 - n, raw)
PullCell(s, n, raw) == Moved(s, n, raw)

\* The step's last line: SPH is hardwired in emulation mode.
Settled(s, e) == IF e THEN PageOne(s) ELSE s

\* pushB, pushW, pushBraw, pushWraw of `bytes`, high bytes first.
Pushed(bytes, raw) ==
    [k \in {PushCell(sp, n, raw) : n \in DOMAIN bytes} |->
        bytes[CHOOSE n \in DOMAIN bytes : PushCell(sp, n, raw) = k]]

Push(bytes, raw) ==
    /\ stack' = LET cells == Pushed(bytes, raw)
                IN  [k \in DOMAIN cells \cup DOMAIN stack |->
                        IF k \in DOMAIN cells THEN cells[k] ELSE stack[k]]
    /\ sp' = Settled(Moved(sp, -Len(bytes), raw), emulation)

\* pullB: the n-th byte pulled.
Pulled(n, raw) == Peek(PullCell(sp, n, raw))
PulledWord(n, raw) == Pulled(n, raw) + 256 * Pulled(n + 1, raw)
Pull(n, raw) == sp' = Settled(Moved(sp, n, raw), emulation) /\ UNCHANGED stack

WordBytes(w) == <<HighByte(w), LowByte(w)>>

-----------------------------------------------------------------------------
(* Calls and interrupts.                                                   *)

\* What a return must restore; `before` the stack pointer then, `after` once
\* the bytes are pushed.
Enter(kind, resume, bytes, raw) ==
    /\ Len(frames) < MaxNest
    /\ frames' = Append(frames,
         [kind |-> kind, e |-> emulation, p |-> p, pbr |-> pbr, pc |-> resume,
          before |-> sp, after |-> sp', cells |-> Pushed(bytes, raw)])

\* P as an interrupt pushes it: in emulation mode with B, the X bit, clear.
HardwareP == IF emulation THEN Byte((p \ {"X"}) \cup {"M"}) ELSE Byte(p)
SoftwareP == IF emulation THEN Byte(p \cup {"M", "X"}) ELSE Byte(p)

\* Mutant of InterruptBytes: PBR is pushed below the return address.
InterruptBytesSwapped(resume, pushedP) ==
    IF emulation THEN <<HighByte(resume), LowByte(resume), pushedP>>
    ELSE <<HighByte(resume), LowByte(resume), pbr, pushedP>>

\* Only native mode pushes the bank.
InterruptBytes(resume, pushedP) ==
    IF emulation THEN <<HighByte(resume), LowByte(resume), pushedP>>
    ELSE <<pbr, HighByte(resume), LowByte(resume), pushedP>>

\* serviceInt(), BRK and COP: a handler's bank is 0.
Vectored(resume, pushedP, t) ==
    LET bytes == InterruptBytes(resume, pushedP)
    IN  /\ Push(bytes, FALSE)
        /\ Enter("interrupt", resume, bytes, FALSE)
        /\ p' = p \cup {"I"}
        /\ pbr' = 0 /\ pc' = t.pc
        /\ UNCHANGED <<emulation, x>>

Nmi == \E t \in Targets : Vectored(pc, HardwareP, t)
Irq == "I" \notin p /\ Nmi
BrkCop == \E t \in Targets : Vectored(Wrapped(pc + 2), SoftwareP, t)

\* P pulled by PLP or RTI.
Reloaded(b) == IF emulation THEN Flags(b) \cup {"M", "X"} ELSE Flags(b)
Narrowed(q) == IF eX(emulation, q) THEN LowByte(x) ELSE x

Top == frames[Len(frames)]
Left(kind) ==
    frames' = IF frames # <<>> /\ Top.kind = kind THEN SubSeq(frames, 1, Len(frames) - 1)
              ELSE frames

RTI ==
    /\ p' = Reloaded(Pulled(1, FALSE))
    /\ pc' = PulledWord(2, FALSE)
    /\ pbr' = IF emulation THEN pbr ELSE Pulled(4, FALSE)
    /\ x' = Narrowed(p')
    /\ Pull(IF emulation THEN 3 ELSE 4, FALSE)
    /\ Left("interrupt")
    /\ UNCHANGED emulation

JSR(t) ==
    LET resume == Wrapped(pc + 3)
        bytes == WordBytes(Wrapped(resume - 1))
    IN  /\ Push(bytes, FALSE) /\ Enter("near", resume, bytes, FALSE)
        /\ pc' = t.pc
        /\ UNCHANGED <<emulation, p, x, pbr>>

RTS ==
    /\ pc' = Wrapped(PulledWord(1, FALSE) + 1)
    /\ Pull(2, FALSE) /\ Left("near")
    /\ UNCHANGED <<emulation, p, x, pbr>>

JSL(t) ==
    LET resume == Wrapped(pc + 4)
        last == Wrapped(resume - 1)
        bytes == <<pbr, HighByte(last), LowByte(last)>>
    IN  /\ Push(bytes, TRUE) /\ Enter("far", resume, bytes, TRUE)
        /\ pc' = t.pc /\ pbr' = t.bank
        /\ UNCHANGED <<emulation, p, x>>

RTL ==
    /\ pc' = Wrapped(PulledWord(1, TRUE) + 1)
    /\ pbr' = Pulled(3, TRUE)
    /\ Pull(3, TRUE) /\ Left("far")
    /\ UNCHANGED <<emulation, p, x>>

-----------------------------------------------------------------------------
(* Other instructions: the length, and what they change.                   *)

Next1(n) == pc' = Wrapped(pc + n) /\ UNCHANGED <<pbr, frames>>

PHP ==
    /\ Push(<<SoftwareP>>, FALSE) /\ Next1(1)
    /\ UNCHANGED <<emulation, p, x>>

\* Mutant of PLP: emulation mode does not hold the widths.
PLPFree ==
    /\ p' = Flags(Pulled(1, FALSE)) /\ x' = Narrowed(p')
    /\ Pull(1, FALSE) /\ Next1(1)
    /\ UNCHANGED emulation

PLP ==
    /\ p' = Reloaded(Pulled(1, FALSE)) /\ x' = Narrowed(p')
    /\ Pull(1, FALSE) /\ Next1(1)
    /\ UNCHANGED emulation

REP(mask) ==
    /\ p' = (p \ mask) \cup (IF emulation THEN {"M", "X"} ELSE {})
    /\ Next1(2)
    /\ UNCHANGED <<emulation, x, sp, stack>>

SEP(mask) ==
    /\ p' = p \cup mask /\ x' = IF "X" \in p' THEN LowByte(x) ELSE x
    /\ Next1(2)
    /\ UNCHANGED <<emulation, sp, stack>>

\* XCE: carry and emulation bit change places.
XCE ==
    /\ emulation' = ("C" \in p)
    /\ p' = (p \ {"C"}) \cup (IF emulation THEN {"C"} ELSE {})
                        \cup (IF emulation' THEN {"M", "X"} ELSE {})
    /\ x' = IF emulation' THEN LowByte(x) ELSE x
    /\ sp' = Settled(sp, emulation')
    /\ Next1(1) /\ UNCHANGED stack

LDX(v) ==
    /\ x' = IF eX(emulation, p) THEN LowByte(v) ELSE v
    /\ Next1(IF eX(emulation, p) THEN 2 ELSE 3)
    /\ UNCHANGED <<emulation, p, sp, stack>>

TXS ==
    /\ sp' = Settled(x, emulation)
    /\ Next1(1) /\ UNCHANGED <<emulation, p, x, stack>>

TSX ==
    /\ x' = IF eX(emulation, p) THEN LowByte(sp) ELSE sp
    /\ Next1(1) /\ UNCHANGED <<emulation, p, sp, stack>>

PHX ==
    /\ Push(IF eX(emulation, p) THEN <<LowByte(x)>> ELSE WordBytes(x), FALSE)
    /\ Next1(1) /\ UNCHANGED <<emulation, p, x>>

PLX ==
    /\ x' = IF eX(emulation, p) THEN Pulled(1, FALSE) ELSE PulledWord(1, FALSE)
    /\ Pull(IF eX(emulation, p) THEN 1 ELSE 2, FALSE)
    /\ Next1(1) /\ UNCHANGED <<emulation, p>>

\* PHK, PHB and PLB: one byte, and a raw pull may leave page 1.
PHK == Push(<<pbr>>, TRUE) /\ Next1(1) /\ UNCHANGED <<emulation, p, x>>
PLB == Pull(1, TRUE) /\ Next1(1) /\ UNCHANGED <<emulation, p, x>>

CpuNext ==
    /\ steps < MaxSteps /\ steps' = steps + 1
    /\ \/ Nmi \/ Irq \/ BrkCop \/ RTI \/ RTS \/ RTL
       \/ \E t \in Targets : JSR(t) \/ JSL(t)
       \/ PHP \/ PLP \/ XCE \/ TXS \/ TSX \/ PHX \/ PLX \/ PHK \/ PLB
       \/ \E mask \in Masks : REP(mask) \/ SEP(mask)
       \/ \E v \in Indexes : LDX(v)

CpuSpec == CpuInit /\ [][CpuNext]_cpuVars

-----------------------------------------------------------------------------
(* Properties.                                                             *)

\* After any sequence of instructions and interrupts: emulation mode means an
\* 8-bit accumulator and index and a stack in page 1, and an 8-bit index has
\* no high byte (CPU65816.cpp:107-111, "the CPU can never observe them
\* violated").
RegisterRules ==
    /\ emulation => {"M", "X"} \subseteq p /\ HighByte(sp) = 1
    /\ "X" \in p => HighByte(x) = 0

\* What the silicon itself loses: a short call, and in emulation mode an
\* interrupt, keep no bank, and a long call's bytes leave page 1 at its edge.
Recoverable(f) ==
    /\ f.kind = "near" \/ (f.kind = "interrupt" /\ f.e) => f.pbr = pbr
    /\ f.kind = "far" /\ f.e => LowByte(f.before) >= 3

\* A return undoes its call: when a handler or subroutine comes back with the
\* mode and the stack pointer it was given and its return bytes untouched,
\* whatever ran in between and wherever the stack wraps, the caller resumes
\* where it stopped, in its bank, with its stack pointer and, after an
\* interrupt, with its flags.
ReturnStep ==
    /\ Len(frames') < Len(frames)
    /\ Top.e = emulation /\ Top.after = sp /\ Recoverable(Top)
    /\ \A k \in DOMAIN Top.cells : stack[k] = Top.cells[k]
    => /\ pc' = Top.pc /\ pbr' = Top.pbr /\ sp' = Top.before
       /\ Top.kind = "interrupt" => p' = Top.p
ReturnsExact == [][ReturnStep]_cpuVars

=============================================================================

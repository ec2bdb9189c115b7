------------------------------ MODULE MegaIrq ------------------------------
(***************************************************************************)
(* The level-sensitive interrupt lines of the IIgs and the CPU that        *)
(* samples them: Mega II VBL and quarter-second timers, VGC scan-line and  *)
(* one-second timers, the DOC oscillator line with its edge-tracked        *)
(* mirror, the beam that latches the raster interrupts, and the 65816's    *)
(* I flag and WAI stall.  Source: IIgsMemory.cpp, CPU65816.cpp, the        *)
(* interrupt side of Es5503.cpp, and the frame loop of main.cpp.           *)
(*                                                                         *)
(* One emulated instruction is three phases.  "fetch": step() samples the  *)
(* IRQ level.  "exec": the instruction touches any number of registers     *)
(* (16-bit and read-modify-write accesses touch several), then retires.    *)
(* "tick": IIgsMemory::tick advances the beam and the DOC.  Host actions   *)
(* (end of frame, Ctrl-Reset, power cycle, snapshot load) happen between   *)
(* two instructions only.                                                  *)
(***************************************************************************)
EXTENDS Integers, FiniteSets

CONSTANTS
    LineTicks,      \* master ticks per video line (912)
    Lines,          \* lines per frame (262)
    VblLine,        \* first line of the vertical blank (192)
    ScbLines,       \* lines that have a scan-line control byte (200)
    MaxTicks,       \* most master ticks one instruction takes, its traps included
    QuarterFrames,  \* host frames per quarter-second tick (16)
    SecondFrames,   \* host frames per one-second tick (60)
    Oscs,           \* oscillators of the DOC (32)
    ScbWritable,    \* bound: lines whose SCB interrupt bit the guest writes
    Snapshots       \* snapshot files the user may load

\* The longest instruction is a block call, whose trap copies 512 bytes and a
\* parameter list through the bus, all billed to one tick: several lines, and
\* less than the blank (70 lines) or the display above it.
ASSUME BeamAssumption ==
    /\ LineTicks \in Nat \ {0}
    /\ Lines \in Nat \ {0}
    /\ VblLine \in 1 .. Lines - 1
    /\ ScbLines \in VblLine .. Lines
    /\ MaxTicks \in Nat \ {0}
    /\ MaxTicks <= LineTicks * VblLine
    /\ MaxTicks <= LineTicks * (Lines - VblLine)

ASSUME TimerAssumption ==
    /\ QuarterFrames \in Nat \ {0}
    /\ SecondFrames \in Nat \ {0}

ASSUME OscAssumption == Oscs \in Nat \ {0}

ASSUME ScbAssumption == ScbWritable \subseteq 0 .. ScbLines - 1

VARIABLES
    videoCycles,    \* beam position in master ticks, modulo one frame
    lastVpos,       \* line of the beam at the previous tick
    shr,            \* NEWVIDEO bit 7: Super Hi-Res enabled
    scb,            \* lines whose SCB has the interrupt bit
    intflag,        \* $C046: latched Mega II sources
    inten,          \* $C041: enabled Mega II sources
    vgcStat,        \* $C023 bits 6-5: latched VGC sources
    vgcEn,          \* $C023 bits 2-1: enabled VGC sources
    vgcIrq,         \* $C023 bit 7: summary of the VGC line
    frameCount,     \* host frames, modulo QuarterFrames * SecondFrames
    irqPend,        \* DOC oscillators with a pending interrupt
    oscEnabled,     \* DOC register $E1: number of enabled oscillators
    docIrqLast,     \* last DOC level mirrored to the CPU
    irqSourceMask,  \* sources asserting the CPU's wire-OR'd IRQ input
    iFlag,          \* the 65816 I flag
    waiting,        \* parked by WAI
    phase           \* of the current instruction

beam == <<videoCycles, lastVpos>>
screen == <<shr, scb>>
mega2 == <<intflag, inten>>
vgc == <<vgcStat, vgcEn, vgcIrq>>
doc == <<irqPend, oscEnabled, docIrqLast>>
cpu == <<iFlag, waiting>>
vars == <<beam, screen, mega2, vgc, frameCount, doc, irqSourceMask, cpu, phase>>

Mega2Sources == {"vbl", "quarter"}
VgcSources == {"scan", "second"}
IrqSources == {"mega2", "vgc", "doc"}
Osc == 0 .. Oscs - 1
FrameTicks == LineTicks * Lines
TimerPeriod == QuarterFrames * SecondFrames

\* What a snapshot file holds of this state.
SnapshotType ==
    [videoCycles : 0 .. FrameTicks - 1, lastVpos : 0 .. Lines - 1,
     shr : BOOLEAN, scb : SUBSET ScbWritable,
     intflag : SUBSET Mega2Sources, inten : SUBSET Mega2Sources,
     vgcStat : SUBSET VgcSources, vgcEn : SUBSET VgcSources, vgcIrq : BOOLEAN,
     frameCount : 0 .. TimerPeriod - 1,
     irqPend : SUBSET Osc, oscEnabled : 1 .. Oscs, iFlag : BOOLEAN]

\* The line of the beam at clock value t: vpos().
VposAt(t) == t \div LineTicks

\* A file has the clock and the remembered line of one moment between two
\* instructions, as any running machine has them.
ASSUME SnapshotAssumption ==
    /\ Snapshots \subseteq SnapshotType
    /\ \A s \in Snapshots : s.lastVpos = VposAt(s.videoCycles) \/ s.lastVpos = 0

TypeOK ==
    /\ videoCycles \in 0 .. FrameTicks - 1
    /\ lastVpos \in 0 .. Lines - 1
    /\ shr \in BOOLEAN
    /\ scb \subseteq ScbWritable
    /\ intflag \subseteq Mega2Sources
    /\ inten \subseteq Mega2Sources
    /\ vgcStat \subseteq VgcSources
    /\ vgcEn \subseteq VgcSources
    /\ vgcIrq \in BOOLEAN
    /\ frameCount \in 0 .. TimerPeriod - 1
    /\ irqPend \subseteq Osc
    /\ oscEnabled \in 1 .. Oscs
    /\ docIrqLast \in BOOLEAN
    /\ irqSourceMask \subseteq IrqSources
    /\ iFlag \in BOOLEAN
    /\ waiting \in BOOLEAN
    /\ phase \in {"fetch", "exec", "tick"}

-----------------------------------------------------------------------------
\* CPU65816::setIrqLine on a mask value: one bit of the wire-OR.
SetIrqLine(mask, source, asserted) ==
    IF asserted THEN mask \cup {source} ELSE mask \ {source}

Vpos == VposAt(videoCycles)

\* The level each device drives, from its registers.
Mega2Active(flag, en) == flag \cap en # {}
VgcActive(stat, en) == stat \cap en # {}
IrqPending(pend, n) == \E o \in pend : o < n

\* The registers become flag and en, then updateMega2Irq() runs on `mask`.
UpdateMega2(flag, en, mask) ==
    /\ intflag' = flag
    /\ inten' = en
    /\ irqSourceMask' = SetIrqLine(mask, "mega2", Mega2Active(flag, en))

\* The registers become stat and en, then updateVgcIrq() runs on the mask.
UpdateVgc(stat, en, mask) ==
    /\ vgcStat' = stat
    /\ vgcEn' = en
    /\ vgcIrq' = VgcActive(stat, en)
    /\ irqSourceMask' = SetIrqLine(mask, "vgc", VgcActive(stat, en))

\* Mutant of MirrorDoc: falling edges are dropped.
MirrorDocRaiseOnly(mask, last, p) ==
    IF p /\ ~last THEN mask \cup {"doc"} ELSE mask

\* mirrorDocIrq() seeing level p: the mask changes on an edge of p only.
MirrorDoc(mask, last, p) ==
    IF p # last THEN SetIrqLine(mask, "doc", p) ELSE mask

\* The $E0 acknowledge drops the lowest pending enabled oscillator.
AckLowest(pend, n) ==
    {o \in pend : o >= n \/ \E q \in pend : q < o}

Init ==
    /\ videoCycles = 0 /\ lastVpos = 0
    /\ shr = FALSE /\ scb = {}
    /\ intflag = {} /\ inten = {}
    /\ vgcStat = {} /\ vgcEn = {} /\ vgcIrq = FALSE
    /\ frameCount = 0
    /\ irqPend = {} /\ oscEnabled = 1 /\ docIrqLast = FALSE
    /\ irqSourceMask = {}
    /\ iFlag = TRUE /\ waiting = FALSE
    /\ phase = "fetch"

-----------------------------------------------------------------------------
(* The CPU samples its interrupt input.                                    *)

Irq == irqSourceMask # {}

\* The line is up and I is clear: push, set I, vector.  Ends a WAI.
ServiceInt ==
    /\ phase = "fetch" /\ Irq /\ ~iFlag
    /\ iFlag' = TRUE
    /\ waiting' = FALSE
    /\ phase' = "tick"
    /\ UNCHANGED <<beam, screen, mega2, vgc, frameCount, doc, irqSourceMask>>

\* Mutant of WaiPoll: a set I flag keeps the CPU parked.
WaiPollMasked ==
    /\ phase = "fetch" /\ waiting /\ (~Irq \/ iFlag)
    /\ phase' = "tick"
    /\ UNCHANGED <<beam, screen, mega2, vgc, frameCount, doc, irqSourceMask, cpu>>

\* Parked by WAI with no line up: one poll cycle.
WaiPoll ==
    /\ phase = "fetch" /\ waiting /\ ~Irq
    /\ phase' = "tick"
    /\ UNCHANGED <<beam, screen, mega2, vgc, frameCount, doc, irqSourceMask, cpu>>

\* An instruction starts: also the wake from WAI with I set.
Begin ==
    /\ phase = "fetch" /\ ~(Irq /\ ~iFlag) /\ (waiting => Irq)
    /\ waiting' = FALSE
    /\ phase' = "exec"
    /\ UNCHANGED <<beam, screen, mega2, vgc, frameCount, doc, irqSourceMask, iFlag>>

Fetch == ServiceInt \/ WaiPoll \/ Begin

-----------------------------------------------------------------------------
(* Register accesses of the running instruction.                           *)

\* $C041 INTEN.
WriteInten(en) ==
    /\ UpdateMega2(intflag, en, irqSourceMask)
    /\ UNCHANGED <<beam, screen, vgc, frameCount, doc, cpu, phase>>

\* $C047 CLRVBLINT, read or write.
ClearVblInt ==
    /\ UpdateMega2({}, inten, irqSourceMask)
    /\ UNCHANGED <<beam, screen, vgc, frameCount, doc, cpu, phase>>

\* $C023 VGCINT: software stores the enables, the status bits stay.
WriteVgcInt(en) ==
    /\ UpdateVgc(vgcStat, en, irqSourceMask)
    /\ UNCHANGED <<beam, screen, mega2, frameCount, doc, cpu, phase>>

\* $C032 VGCINTCLEAR: status bits written as 1 are kept.
WriteVgcIntClear(keep) ==
    /\ UpdateVgc(vgcStat \cap keep, vgcEn, irqSourceMask)
    /\ UNCHANGED <<beam, screen, mega2, frameCount, doc, cpu, phase>>

\* Mutant of ReadBeamCounter: clears the status, forgets updateVgcIrq().
ReadBeamCounterQuiet ==
    /\ vgcStat' = vgcStat \ {"scan"}
    /\ UNCHANGED <<beam, screen, mega2, vgcEn, vgcIrq, frameCount, doc,
                   irqSourceMask, cpu, phase>>

\* $C02E / $C02F: reading a beam counter acknowledges the scan-line source.
ReadBeamCounter ==
    /\ UpdateVgc(vgcStat \ {"scan"}, vgcEn, irqSourceMask)
    /\ UNCHANGED <<beam, screen, mega2, frameCount, doc, cpu, phase>>

\* $C029 NEWVIDEO bit 7, or the interrupt bit of one SCB in $E1/9D00.
WriteScreen(s, lines) ==
    /\ shr' = s
    /\ scb' = lines
    /\ UNCHANGED <<beam, mega2, vgc, frameCount, doc, irqSourceMask, cpu, phase>>

\* $C03C-$C03F read: possibly the $E0 acknowledge, always mirrored.
DocRead(ack) ==
    LET pend == IF ack THEN AckLowest(irqPend, oscEnabled) ELSE irqPend
        p == IrqPending(pend, oscEnabled)
    IN  /\ irqPend' = pend
        /\ docIrqLast' = p
        /\ irqSourceMask' = MirrorDoc(irqSourceMask, docIrqLast, p)
        /\ UNCHANGED <<beam, screen, mega2, vgc, frameCount, oscEnabled, cpu, phase>>

\* Mutant of DocWriteEnable: the field's "+ 1" is forgotten.
DocWriteEnableRaw(n) ==
    /\ oscEnabled' = n - 1
    /\ UNCHANGED <<beam, screen, mega2, vgc, frameCount, irqPend, docIrqLast,
                   irqSourceMask, cpu, phase>>

\* $C03D write of register $E1: changes the level, mirrors nothing.
DocWriteEnable(n) ==
    /\ oscEnabled' = n
    /\ UNCHANGED <<beam, screen, mega2, vgc, frameCount, irqPend, docIrqLast,
                   irqSourceMask, cpu, phase>>

Access ==
    /\ phase = "exec"
    /\ \/ \E en \in SUBSET Mega2Sources : WriteInten(en)
       \/ ClearVblInt
       \/ \E en \in SUBSET VgcSources : WriteVgcInt(en)
       \/ \E keep \in SUBSET VgcSources : WriteVgcIntClear(keep)
       \/ ReadBeamCounter
       \/ WriteScreen(~shr, scb)
       \/ \E l \in ScbWritable : WriteScreen(shr, scb \cup {l})
       \/ \E l \in ScbWritable : WriteScreen(shr, scb \ {l})
       \/ \E ack \in BOOLEAN : DocRead(ack)
       \/ \E n \in 1 .. Oscs : DocWriteEnable(n)

\* The instruction ends: CLI, SEI, PLP, RTI, REP, SEP set I; WAI parks.
Retire ==
    /\ phase = "exec"
    /\ phase' = "tick"
    /\ \/ iFlag' \in BOOLEAN /\ waiting' = FALSE
       \/ iFlag' = iFlag /\ waiting' = TRUE
    /\ UNCHANGED <<beam, screen, mega2, vgc, frameCount, doc, irqSourceMask>>

-----------------------------------------------------------------------------
(* IIgsMemory::tick: beam, DOC, raster interrupts.                         *)

\* Mutant of VblEntered: latches for as long as the blank lasts.
VblLevel(last, vp) == vp >= VblLine

\* The rising edge into the vertical blank.
VblEntered(last, vp) == vp >= VblLine /\ last < VblLine

\* Mutant of Walk: the walk does not wrap at the end of the frame.
WalkNoWrap(from, to) == from + 1 .. to

\* The lines the walk of tick() visits: after `from`, up to `to`, wrapping.
Walk(from, to) ==
    IF from <= to THEN from + 1 .. to
                  ELSE (from + 1 .. Lines - 1) \cup (0 .. to)

\* An oscillator's end of wave interrupts in the DOC tick: any enabled ones.
DocEnds == SUBSET {o \in Osc : o < oscEnabled}

Tick ==
    /\ phase = "tick"
    /\ \E mt \in 1 .. MaxTicks, ends \in DocEnds :
         LET now  == (videoCycles + mt) % FrameTicks
             vp   == VposAt(now)
             p    == IrqPending(irqPend \cup ends, oscEnabled)
             edge == VblEntered(lastVpos, vp)
             scan == shr /\ \E l \in Walk(lastVpos, vp) : l < ScbLines /\ l \in scb
             flag == IF edge THEN intflag \cup {"vbl"} ELSE intflag
             stat == IF scan THEN vgcStat \cup {"scan"} ELSE vgcStat
             m0   == MirrorDoc(irqSourceMask, docIrqLast, p)
             m1   == IF edge THEN SetIrqLine(m0, "mega2", Mega2Active(flag, inten)) ELSE m0
             m2   == IF scan THEN SetIrqLine(m1, "vgc", VgcActive(stat, vgcEn)) ELSE m1
         IN  /\ videoCycles' = now
             /\ lastVpos' = vp
             /\ irqPend' = irqPend \cup ends
             /\ docIrqLast' = p
             /\ intflag' = flag
             /\ vgcStat' = stat
             /\ vgcIrq' = IF scan THEN VgcActive(stat, vgcEn) ELSE vgcIrq
             /\ irqSourceMask' = m2
    /\ phase' = "fetch"
    /\ UNCHANGED <<screen, inten, vgcEn, frameCount, oscEnabled, cpu>>

-----------------------------------------------------------------------------
(* Host actions, between two instructions.                                 *)

\* frameTick(): the slow timers, and a re-mirror of the DOC line.
FrameTick ==
    LET n    == (frameCount + 1) % TimerPeriod
        flag == IF n % QuarterFrames = 0 THEN intflag \cup {"quarter"} ELSE intflag
        stat == IF n % SecondFrames = 0 THEN vgcStat \cup {"second"} ELSE vgcStat
        p    == IrqPending(irqPend, oscEnabled)
        m0   == IF n % QuarterFrames = 0
                THEN SetIrqLine(irqSourceMask, "mega2", Mega2Active(flag, inten))
                ELSE irqSourceMask
        m1   == IF n % SecondFrames = 0
                THEN SetIrqLine(m0, "vgc", VgcActive(stat, vgcEn))
                ELSE m0
    IN  /\ phase = "fetch"
        /\ frameCount' = n
        /\ intflag' = flag
        /\ vgcStat' = stat
        /\ vgcIrq' = IF n % SecondFrames = 0 THEN VgcActive(stat, vgcEn) ELSE vgcIrq
        /\ docIrqLast' = p
        /\ irqSourceMask' = MirrorDoc(m1, docIrqLast, p)
        /\ UNCHANGED <<beam, screen, inten, vgcEn, irqPend, oscEnabled, cpu, phase>>

\* Mutant of ResetRegisters: the raster state survives.
ResetKeepsLine ==
    /\ lastVpos' = lastVpos
    /\ shr' = FALSE
    /\ intflag' = {} /\ inten' = {}
    /\ vgcStat' = {} /\ vgcEn' = {} /\ vgcIrq' = FALSE
    /\ frameCount' = 0
    /\ irqPend' = {} /\ oscEnabled' = 1 /\ docIrqLast' = FALSE
    /\ irqSourceMask' = {}
    /\ iFlag' = TRUE /\ waiting' = FALSE

\* IIgsMemory::softReset then CPU65816::softReset, on this state.
ResetRegisters ==
    /\ lastVpos' = 0
    /\ shr' = FALSE
    /\ intflag' = {} /\ inten' = {}
    /\ vgcStat' = {} /\ vgcEn' = {} /\ vgcIrq' = FALSE
    /\ frameCount' = 0
    /\ irqPend' = {} /\ oscEnabled' = 1 /\ docIrqLast' = FALSE
    /\ irqSourceMask' = {}
    /\ iFlag' = TRUE /\ waiting' = FALSE

\* Ctrl-Reset: the master clock and RAM survive.
CtrlReset ==
    /\ phase = "fetch"
    /\ ResetRegisters
    /\ UNCHANGED <<videoCycles, scb, phase>>

\* Power cycle: RAM and the master clock are cleared as well.
PowerCycle ==
    /\ phase = "fetch"
    /\ ResetRegisters
    /\ videoCycles' = 0
    /\ scb' = {}
    /\ UNCHANGED phase

\* loadSnapshot(): registers from the file, docIrqLast forgotten, the lines
\* re-derived in the code's order; setPC cancels a WAI.
LoadSnapshot(s) ==
    LET p  == IrqPending(s.irqPend, s.oscEnabled)
        m0 == SetIrqLine(irqSourceMask, "mega2", Mega2Active(s.intflag, s.inten))
        m1 == SetIrqLine(m0, "vgc", VgcActive(s.vgcStat, s.vgcEn))
    IN  /\ phase = "fetch"
        /\ videoCycles' = s.videoCycles /\ lastVpos' = s.lastVpos
        /\ shr' = s.shr /\ scb' = s.scb
        /\ intflag' = s.intflag /\ inten' = s.inten
        /\ vgcStat' = s.vgcStat /\ vgcEn' = s.vgcEn
        /\ vgcIrq' = VgcActive(s.vgcStat, s.vgcEn)
        /\ frameCount' = s.frameCount
        /\ irqPend' = s.irqPend /\ oscEnabled' = s.oscEnabled
        /\ docIrqLast' = p
        /\ irqSourceMask' = MirrorDoc(m1, FALSE, p)
        /\ iFlag' = s.iFlag /\ waiting' = FALSE
        /\ UNCHANGED phase

Next ==
    \/ Fetch \/ Access \/ Retire \/ Tick
    \/ FrameTick \/ CtrlReset \/ PowerCycle
    \/ \E s \in Snapshots : LoadSnapshot(s)

\* The frame loop keeps stepping: each instruction ends after finitely many
\* accesses and is ticked, and each frame's budget of ticks runs out.
Fairness ==
    /\ WF_vars(Fetch)
    /\ WF_vars(Retire)
    /\ WF_vars(Tick)
    /\ SF_vars(FrameTick)

Spec == Init /\ [][Next]_vars

LiveSpec == Spec /\ Fairness

-----------------------------------------------------------------------------
(* Properties.                                                             *)

\* The Mega II and VGC lines carry exactly the level of their registers at
\* every step, whatever order accesses, ticks, timers, resets and loads come
\* in, and $C023 bit 7 says the same as the VGC line ("so the level tracks
\* the register state exactly", IIgsMemory.cpp:241-243).
LineLevels ==
    /\ "mega2" \in irqSourceMask <=> Mega2Active(intflag, inten)
    /\ "vgc" \in irqSourceMask <=> VgcActive(vgcStat, vgcEn)
    /\ vgcIrq <=> VgcActive(vgcStat, vgcEn)

\* The edge-tracked DOC mirror never drifts from the line, and whenever the
\* CPU samples its input the DOC line is the chip's pending level, although
\* a $E1 write inside the instruction changed that level unmirrored.
DocLine ==
    /\ docIrqLast <=> "doc" \in irqSourceMask
    /\ phase = "fetch" => (docIrqLast <=> IrqPending(irqPend, oscEnabled))

\* The line tick() remembers is the beam's, or line 0: a reset zeroes it and
\* leaves the clock, and a snapshot may have been saved right then.
BeamSync == lastVpos = Vpos \/ lastVpos = 0

\* The lines the beam enters in a step, from the clock alone.
LinesEntered ==
    LET mt == (videoCycles' - videoCycles) % FrameTicks
    IN  {VposAt((videoCycles + k) % FrameTicks) : k \in 1 .. mt} \ {Vpos}

VblStep ==
    phase = "tick" /\ lastVpos = Vpos =>
        intflag' = intflag \cup
            (IF \E l \in LinesEntered : l = VblLine THEN {"vbl"} ELSE {})

\* A step that moves an in-step beam sets the VBL latch if and only if the
\* beam enters the blank: none is lost at the frame's wrap or by a block call
\* that runs past the blank's first line, none is repeated while it lasts.
VblExact == [][VblStep]_vars

ScanStep ==
    phase = "tick" /\ lastVpos = Vpos =>
        vgcStat' = vgcStat \cup
            (IF shr /\ LinesEntered \cap scb # {} THEN {"scan"} ELSE {})

\* A step that moves an in-step beam sets the scan-line latch if and only if
\* the beam enters a line whose SCB asks for it with Super Hi-Res on, also
\* when it runs past the line in a block call or over the end of the frame.
ScanExact == [][ScanStep]_vars

\* A CPU parked by WAI with a source enabled that must come is released: the
\* blank, a marked line on a Super Hi-Res screen, or a slow timer.  The I flag
\* plays no part (CPU65816.cpp:443-448).
WaiEnds ==
    (waiting /\ \/ inten # {}
                \/ "second" \in vgcEn
                \/ "scan" \in vgcEn /\ shr /\ scb # {}) ~> ~waiting

=============================================================================

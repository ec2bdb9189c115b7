--------------------------- MODULE MegaIrq_proofs ---------------------------
(***************************************************************************)
(* Proofs about MegaIrq, for every number of lines, oscillators, timer     *)
(* period and every set of snapshot files.                                 *)
(***************************************************************************)
EXTENDS MegaIrq, TLAPS

-----------------------------------------------------------------------------
(* Arithmetic of the beam.                                                 *)

\* The clock modulo one frame stays within the frame.
LEMMA FrameWrap ==
    ASSUME NEW t \in Nat
    PROVE  t % FrameTicks \in 0 .. FrameTicks - 1
<1>1. FrameTicks \in Nat \ {0}
    BY BeamAssumption DEF FrameTicks
<1> QED BY <1>1

\* The line of a clock value within the frame is one of the frame's lines.
LEMMA VposInFrame ==
    ASSUME NEW t \in 0 .. FrameTicks - 1
    PROVE  VposAt(t) \in 0 .. Lines - 1
<1> DEFINE q == t \div LineTicks
<1>1. LineTicks \in Nat \ {0} /\ Lines \in Nat \ {0} /\ t \in Nat
    BY BeamAssumption DEF FrameTicks
<1>2. q \in Nat /\ LineTicks * q <= t
    BY <1>1
<1>3. t < LineTicks * Lines
    BY <1>1 DEF FrameTicks
<1>4. q < Lines
    <2>1. SUFFICES ASSUME q >= Lines PROVE FALSE
        BY <1>1, <1>2
    <2>2. LineTicks * q >= LineTicks * Lines
        BY <1>1, <1>2, <2>1
    <2> QED BY <1>1, <1>2, <1>3, <2>2
<1> QED BY <1>1, <1>2, <1>4 DEF VposAt

-----------------------------------------------------------------------------
(* Type correctness.                                                       *)

\* The values a reset writes are of the type of their variables.
LEMMA ResetValues ==
    /\ 0 \in 0 .. FrameTicks - 1
    /\ 0 \in 0 .. Lines - 1
    /\ 0 \in 0 .. TimerPeriod - 1
    /\ 1 \in 1 .. Oscs
<1>1. 0 \in 0 .. FrameTicks - 1
    BY FrameWrap, BeamAssumption DEF FrameTicks
<1>2. 0 \in 0 .. Lines - 1 /\ 0 \in 0 .. TimerPeriod - 1 /\ 1 \in 1 .. Oscs
    BY BeamAssumption, TimerAssumption, OscAssumption DEF TimerPeriod
<1> QED BY <1>1, <1>2

LEMMA InitType == Init => TypeOK
    BY ResetValues DEF Init, TypeOK

\* What a tick does to the registers, once its DOC level p, its VBL edge and its
\* scanline hit are known.
TickEffect(p, edge, scan) ==
    LET m0 == MirrorDoc(irqSourceMask, docIrqLast, p)
        m1 == IF edge THEN SetIrqLine(m0, "mega2", Mega2Active(intflag', inten)) ELSE m0
    IN  /\ \E mt \in 1 .. MaxTicks, ends \in DocEnds :
             /\ videoCycles' = (videoCycles + mt) % FrameTicks
             /\ irqPend' = irqPend \cup ends
        /\ lastVpos' = VposAt(videoCycles')
        /\ p = IrqPending(irqPend', oscEnabled)
        /\ docIrqLast' = p
        /\ intflag' = IF edge THEN intflag \cup {"vbl"} ELSE intflag
        /\ vgcStat' = IF scan THEN vgcStat \cup {"scan"} ELSE vgcStat
        /\ vgcIrq' = IF scan THEN VgcActive(vgcStat', vgcEn) ELSE vgcIrq
        /\ irqSourceMask' =
             IF scan THEN SetIrqLine(m1, "vgc", VgcActive(vgcStat', vgcEn)) ELSE m1

\* Every tick has such an effect: its three conditions are Booleans.
LEMMA TickForm ==
    ASSUME Tick
    PROVE  \E p \in BOOLEAN, edge \in BOOLEAN, scan \in BOOLEAN : TickEffect(p, edge, scan)
<1>1. PICK mt \in 1 .. MaxTicks, ends \in DocEnds :
        LET now  == (videoCycles + mt) % FrameTicks
            vp   == VposAt(now)
            p    == IrqPending(irqPend \cup ends, oscEnabled)
            edge == VblEntered(lastVpos, vp)
            scan == shr /\ \E l \in Walk(lastVpos, vp) : l < ScbLines /\ l \in scb
            flag == IF edge THEN intflag \cup {"vbl"} ELSE intflag
            stat == IF scan THEN vgcStat \cup {"scan"} ELSE vgcStat
            m0   == MirrorDoc(irqSourceMask, docIrqLast, p)
            m1   == IF edge THEN SetIrqLine(m0, "mega2", Mega2Active(flag, inten)) ELSE m0
            m2   == IF scan THEN SetIrqLine(m1, "vgc", VgcActive(stat, vgcEn)) ELSE m1
        IN  /\ videoCycles' = now
            /\ lastVpos' = vp
            /\ irqPend' = irqPend \cup ends
            /\ docIrqLast' = p
            /\ intflag' = flag
            /\ vgcStat' = stat
            /\ vgcIrq' = IF scan THEN VgcActive(stat, vgcEn) ELSE vgcIrq
            /\ irqSourceMask' = m2
    BY DEF Tick
<1> DEFINE vp == VposAt((videoCycles + mt) % FrameTicks)
           dp == IrqPending(irqPend \cup ends, oscEnabled)
           de == VblEntered(lastVpos, vp)
           ds == shr /\ \E l \in Walk(lastVpos, vp) : l < ScbLines /\ l \in scb
<1>2. dp \in BOOLEAN /\ de \in BOOLEAN /\ ds \in BOOLEAN
    BY DEF IrqPending, VblEntered
<1>3. TickEffect(dp, de, ds)
    BY <1>1 DEF TickEffect
<1> QED BY <1>2, <1>3

\* Every step keeps every variable in its type.
LEMMA StepType == TypeOK /\ [Next]_vars => TypeOK'
<1> SUFFICES ASSUME TypeOK, [Next]_vars PROVE TypeOK'
    OBVIOUS
<1> USE DEF TypeOK
<1>1. CASE Fetch
    BY <1>1 DEF Fetch, ServiceInt, WaiPoll, Begin, beam, screen, mega2, vgc, doc, cpu
<1>2. CASE Access
    <2> USE DEF beam, screen, mega2, vgc, doc, cpu
    <2>1. ASSUME NEW en \in SUBSET Mega2Sources, WriteInten(en), phase = "exec" PROVE TypeOK'
        BY <2>1 DEF WriteInten, UpdateMega2, SetIrqLine, IrqSources
    <2>2. ASSUME ClearVblInt, phase = "exec" PROVE TypeOK'
        BY <2>2 DEF ClearVblInt, UpdateMega2, SetIrqLine, IrqSources
    <2>3. ASSUME NEW en \in SUBSET VgcSources, WriteVgcInt(en), phase = "exec" PROVE TypeOK'
        BY <2>3 DEF WriteVgcInt, UpdateVgc, SetIrqLine, IrqSources, VgcActive
    <2>4. ASSUME NEW keep \in SUBSET VgcSources, WriteVgcIntClear(keep), phase = "exec"
          PROVE  TypeOK'
        BY <2>4 DEF WriteVgcIntClear, UpdateVgc, SetIrqLine, IrqSources, VgcActive
    <2>5. ASSUME ReadBeamCounter, phase = "exec" PROVE TypeOK'
        BY <2>5 DEF ReadBeamCounter, UpdateVgc, SetIrqLine, IrqSources, VgcActive
    <2>6. ASSUME NEW s \in BOOLEAN, NEW lines \in SUBSET ScbWritable, WriteScreen(s, lines),
                 phase = "exec"
          PROVE  TypeOK'
        BY <2>6 DEF WriteScreen
    <2>7. ASSUME NEW ack \in BOOLEAN, DocRead(ack), phase = "exec" PROVE TypeOK'
        BY <2>7 DEF DocRead, AckLowest, MirrorDoc, SetIrqLine, IrqPending, IrqSources
    <2>8. ASSUME NEW n \in 1 .. Oscs, DocWriteEnable(n), phase = "exec" PROVE TypeOK'
        BY <2>8 DEF DocWriteEnable
    <2>9. (~shr) \in BOOLEAN /\ scb \in SUBSET ScbWritable
        OBVIOUS
    <2>10. \A l \in ScbWritable : /\ scb \cup {l} \in SUBSET ScbWritable
                                  /\ scb \ {l} \in SUBSET ScbWritable
        OBVIOUS
    <2> QED BY <2>10, <1>2, <2>1, <2>2, <2>3, <2>4, <2>5, <2>6, <2>7, <2>8, <2>9 DEF Access
<1>3. CASE Retire
    BY <1>3 DEF Retire, beam, screen, mega2, vgc, doc
<1>4. CASE Tick
    <2>1. PICK p \in BOOLEAN, edge \in BOOLEAN, scan \in BOOLEAN : TickEffect(p, edge, scan)
        BY <1>4, TickForm
    <2> PICK mt \in 1 .. MaxTicks, ends \in DocEnds :
            /\ videoCycles' = (videoCycles + mt) % FrameTicks
            /\ irqPend' = irqPend \cup ends
        BY <2>1 DEF TickEffect
    <2>2. videoCycles' \in 0 .. FrameTicks - 1
        BY FrameWrap, BeamAssumption
    <2>3. lastVpos' \in 0 .. Lines - 1
        BY <2>1, <2>2, VposInFrame DEF TickEffect
    <2>4. irqPend' \subseteq Osc /\ docIrqLast' \in BOOLEAN
        BY <2>1 DEF TickEffect, DocEnds
    <2>5. intflag' \subseteq Mega2Sources /\ vgcStat' \subseteq VgcSources
        BY <2>1 DEF TickEffect, Mega2Sources, VgcSources
    <2>6. vgcIrq' \in BOOLEAN /\ irqSourceMask' \subseteq IrqSources
        BY <2>1 DEF TickEffect, VgcActive, MirrorDoc, SetIrqLine, IrqSources
    <2> QED BY <1>4, <2>2, <2>3, <2>4, <2>5, <2>6 DEF Tick, screen, cpu
<1>5. CASE FrameTick
    <2>1. frameCount' \in 0 .. TimerPeriod - 1
        BY <1>5, TimerAssumption DEF FrameTick, TimerPeriod
    <2>2. intflag' \subseteq Mega2Sources /\ vgcStat' \subseteq VgcSources
        BY <1>5 DEF FrameTick, Mega2Sources, VgcSources
    <2>3. vgcIrq' \in BOOLEAN /\ docIrqLast' \in BOOLEAN
        BY <1>5 DEF FrameTick, VgcActive, IrqPending
    <2>4. irqSourceMask' \subseteq IrqSources
        BY <1>5 DEF FrameTick, MirrorDoc, SetIrqLine, IrqSources
    <2> QED BY <1>5, <2>1, <2>2, <2>3, <2>4 DEF FrameTick, beam, screen, cpu
<1>6. ASSUME ResetRegisters, videoCycles' \in 0 .. FrameTicks - 1, scb' \subseteq ScbWritable,
             phase' = phase
      PROVE  TypeOK'
    BY <1>6, ResetValues DEF ResetRegisters
<1>7. CASE CtrlReset
    BY <1>6, <1>7 DEF CtrlReset
<1>8. CASE PowerCycle
    BY <1>6, <1>8, ResetValues DEF PowerCycle
<1>9. CASE \E s \in Snapshots : LoadSnapshot(s)
    <2>1. PICK s \in Snapshots : LoadSnapshot(s)
        BY <1>9
    <2>2. s \in SnapshotType
        BY SnapshotAssumption
    <2> QED BY <2>1, <2>2
        DEF LoadSnapshot, SnapshotType, VgcActive, IrqPending, MirrorDoc, SetIrqLine, IrqSources
<1>10. CASE UNCHANGED vars
    BY <1>10 DEF vars, beam, screen, mega2, vgc, doc, cpu
<1> QED BY <1>1, <1>2, <1>3, <1>4, <1>5, <1>7, <1>8, <1>9, <1>10 DEF Next

\* Type correctness of the interrupt system under every program, reset and load.
THEOREM TypeCorrect == Spec => []TypeOK
<1> QED BY InitType, StepType, PTL DEF Spec

-----------------------------------------------------------------------------
(* The two level lines follow their registers.                             *)

\* Setting one source's bit says so of that source and nothing of the others.
LEMMA SetIrqLineBits ==
    ASSUME NEW mask, NEW source, NEW other, other # source, NEW asserted \in BOOLEAN
    PROVE  /\ source \in SetIrqLine(mask, source, asserted) <=> asserted
           /\ other \in SetIrqLine(mask, source, asserted) <=> other \in mask
BY DEF SetIrqLine

\* An update of the Mega II registers leaves their line at their level.
LEMMA UpdateMega2Level ==
    ASSUME NEW flag, NEW en, UpdateMega2(flag, en, irqSourceMask)
    PROVE  /\ ("mega2" \in irqSourceMask)' <=> Mega2Active(intflag', inten')
           /\ ("vgc" \in irqSourceMask)' <=> "vgc" \in irqSourceMask
           /\ ("doc" \in irqSourceMask)' <=> "doc" \in irqSourceMask
BY DEF UpdateMega2, SetIrqLine, Mega2Active

\* An update of the VGC registers leaves their line and summary at their level.
LEMMA UpdateVgcLevel ==
    ASSUME NEW stat, NEW en, UpdateVgc(stat, en, irqSourceMask)
    PROVE  /\ ("vgc" \in irqSourceMask)' <=> VgcActive(vgcStat', vgcEn')
           /\ vgcIrq' <=> VgcActive(vgcStat', vgcEn')
           /\ ("mega2" \in irqSourceMask)' <=> "mega2" \in irqSourceMask
           /\ ("doc" \in irqSourceMask)' <=> "doc" \in irqSourceMask
BY DEF UpdateVgc, SetIrqLine, VgcActive

\* Mirroring the DOC moves the DOC bit only, and moves it to the level seen
\* provided the mirror agreed with the line before.
LEMMA MirrorDocBits ==
    ASSUME NEW mask, NEW last \in BOOLEAN, NEW p \in BOOLEAN
    PROVE  /\ "mega2" \in MirrorDoc(mask, last, p) <=> "mega2" \in mask
           /\ "vgc" \in MirrorDoc(mask, last, p) <=> "vgc" \in mask
           /\ (last <=> "doc" \in mask) => ("doc" \in MirrorDoc(mask, last, p) <=> p)
BY DEF MirrorDoc, SetIrqLine

\* Every register access keeps the lines at their levels.
LEMMA AccessLevels == TypeOK /\ LineLevels /\ Access => LineLevels'
<1> SUFFICES ASSUME TypeOK, LineLevels, Access PROVE LineLevels'
    OBVIOUS
<1>1. ASSUME NEW en \in SUBSET Mega2Sources, WriteInten(en) PROVE LineLevels'
    BY <1>1, UpdateMega2Level DEF LineLevels, WriteInten, vgc
<1>2. ASSUME ClearVblInt PROVE LineLevels'
    BY <1>2, UpdateMega2Level DEF LineLevels, ClearVblInt, vgc
<1>3. ASSUME NEW en \in SUBSET VgcSources, WriteVgcInt(en) PROVE LineLevels'
    BY <1>3, UpdateVgcLevel DEF LineLevels, WriteVgcInt, mega2
<1>4. ASSUME NEW keep \in SUBSET VgcSources, WriteVgcIntClear(keep) PROVE LineLevels'
    BY <1>4, UpdateVgcLevel DEF LineLevels, WriteVgcIntClear, mega2
<1>5. ASSUME ReadBeamCounter PROVE LineLevels'
    BY <1>5, UpdateVgcLevel DEF LineLevels, ReadBeamCounter, mega2
<1>6. ASSUME NEW s, NEW lines, WriteScreen(s, lines) PROVE LineLevels'
    BY <1>6 DEF LineLevels, WriteScreen, mega2, vgc
<1>7. ASSUME NEW ack \in BOOLEAN, DocRead(ack) PROVE LineLevels'
    <2>1. PICK p \in BOOLEAN : irqSourceMask' = MirrorDoc(irqSourceMask, docIrqLast, p)
        BY <1>7 DEF DocRead, IrqPending
    <2> QED BY <1>7, <2>1, MirrorDocBits DEF LineLevels, DocRead, mega2, vgc, TypeOK
<1>8. ASSUME NEW n \in 1 .. Oscs, DocWriteEnable(n) PROVE LineLevels'
    BY <1>8 DEF LineLevels, DocWriteEnable, mega2, vgc
<1> QED BY <1>1, <1>2, <1>3, <1>4, <1>5, <1>6, <1>7, <1>8 DEF Access

\* The tick keeps the lines at their levels: each latch it sets updates its line.
LEMMA TickLevels == TypeOK /\ LineLevels /\ Tick => LineLevels'
<1> SUFFICES ASSUME TypeOK, LineLevels, Tick PROVE LineLevels'
    OBVIOUS
<1>1. PICK p \in BOOLEAN, edge \in BOOLEAN, scan \in BOOLEAN : TickEffect(p, edge, scan)
    BY TickForm
<1>2. inten' = inten /\ vgcEn' = vgcEn
    BY DEF Tick
<1> DEFINE m0 == MirrorDoc(irqSourceMask, docIrqLast, p)
<1>3. /\ "mega2" \in m0 <=> Mega2Active(intflag, inten)
      /\ "vgc" \in m0 <=> VgcActive(vgcStat, vgcEn)
    BY MirrorDocBits DEF LineLevels, TypeOK
<1> HIDE DEF m0
<1> DEFINE m1 == IF edge THEN SetIrqLine(m0, "mega2", Mega2Active(intflag', inten)) ELSE m0
<1>5. /\ "mega2" \in m1 <=> Mega2Active(intflag', inten')
      /\ "vgc" \in m1 <=> VgcActive(vgcStat, vgcEn)
    BY <1>1, <1>2, <1>3 DEF TickEffect, SetIrqLine, Mega2Active
<1>6. irqSourceMask' =
        IF scan THEN SetIrqLine(m1, "vgc", VgcActive(vgcStat', vgcEn)) ELSE m1
    BY <1>1 DEF m0, TickEffect
<1> HIDE DEF m1
<1>7. /\ "mega2" \in irqSourceMask' <=> Mega2Active(intflag', inten')
      /\ "vgc" \in irqSourceMask' <=> VgcActive(vgcStat', vgcEn')
    BY <1>1, <1>2, <1>5, <1>6 DEF TickEffect, SetIrqLine, VgcActive
<1>8. vgcIrq' <=> VgcActive(vgcStat', vgcEn')
    BY <1>1, <1>2 DEF TickEffect, LineLevels, VgcActive
<1> QED BY <1>7, <1>8 DEF LineLevels

\* The end of a host frame keeps the lines at their levels.
LEMMA FrameTickLevels == TypeOK /\ LineLevels /\ FrameTick => LineLevels'
<1> SUFFICES ASSUME TypeOK, LineLevels, FrameTick PROVE LineLevels'
    OBVIOUS
<1>1. PICK p \in BOOLEAN, q \in BOOLEAN, s \in BOOLEAN :
        LET flag == IF q THEN intflag \cup {"quarter"} ELSE intflag
            stat == IF s THEN vgcStat \cup {"second"} ELSE vgcStat
            m0   == IF q THEN SetIrqLine(irqSourceMask, "mega2", Mega2Active(flag, inten))
                         ELSE irqSourceMask
            m1   == IF s THEN SetIrqLine(m0, "vgc", VgcActive(stat, vgcEn)) ELSE m0
        IN  /\ intflag' = flag
            /\ vgcStat' = stat
            /\ vgcIrq' = IF s THEN VgcActive(stat, vgcEn) ELSE vgcIrq
            /\ irqSourceMask' = MirrorDoc(m1, docIrqLast, p)
    BY DEF FrameTick, IrqPending
<1>2. inten' = inten /\ vgcEn' = vgcEn
    BY DEF FrameTick
<1> DEFINE m0 == IF q THEN SetIrqLine(irqSourceMask, "mega2", Mega2Active(intflag', inten))
                      ELSE irqSourceMask
           m1 == IF s THEN SetIrqLine(m0, "vgc", VgcActive(vgcStat', vgcEn)) ELSE m0
<1>3. /\ "mega2" \in m1 <=> Mega2Active(intflag', inten')
      /\ "vgc" \in m1 <=> VgcActive(vgcStat', vgcEn')
    BY <1>1, <1>2 DEF LineLevels, SetIrqLine, Mega2Active, VgcActive
<1>4. irqSourceMask' = MirrorDoc(m1, docIrqLast, p)
    BY <1>1
<1> HIDE DEF m1
<1>5. /\ "mega2" \in irqSourceMask' <=> Mega2Active(intflag', inten')
      /\ "vgc" \in irqSourceMask' <=> VgcActive(vgcStat', vgcEn')
    BY <1>3, <1>4, MirrorDocBits DEF TypeOK
<1>6. vgcIrq' <=> VgcActive(vgcStat', vgcEn')
    BY <1>1, <1>2 DEF LineLevels, VgcActive
<1> QED BY <1>5, <1>6 DEF LineLevels

\* Every step keeps the lines at their levels.
LEMMA StepLevels == TypeOK /\ LineLevels /\ [Next]_vars => LineLevels'
<1> SUFFICES ASSUME TypeOK, LineLevels, [Next]_vars PROVE LineLevels'
    OBVIOUS
<1>1. CASE Fetch
    BY <1>1 DEF Fetch, ServiceInt, WaiPoll, Begin, LineLevels, mega2, vgc
<1>2. CASE Access
    BY <1>2, AccessLevels
<1>3. CASE Retire
    BY <1>3 DEF Retire, LineLevels, mega2, vgc
<1>4. CASE Tick
    BY <1>4, TickLevels
<1>5. CASE FrameTick
    BY <1>5, FrameTickLevels
<1>6. CASE CtrlReset \/ PowerCycle
    BY <1>6 DEF CtrlReset, PowerCycle, ResetRegisters, LineLevels, Mega2Active, VgcActive
<1>7. CASE \E s \in Snapshots : LoadSnapshot(s)
    <2>1. PICK s \in Snapshots : LoadSnapshot(s)
        BY <1>7
    <2> DEFINE m1 == SetIrqLine(SetIrqLine(irqSourceMask, "mega2",
                                           Mega2Active(s.intflag, s.inten)),
                                "vgc", VgcActive(s.vgcStat, s.vgcEn))
    <2>2. PICK p \in BOOLEAN : irqSourceMask' = MirrorDoc(m1, FALSE, p)
        BY <2>1 DEF LoadSnapshot, IrqPending
    <2>3. /\ intflag' = s.intflag /\ inten' = s.inten
          /\ vgcStat' = s.vgcStat /\ vgcEn' = s.vgcEn
          /\ vgcIrq' = VgcActive(s.vgcStat, s.vgcEn)
        BY <2>1 DEF LoadSnapshot
    <2>4. /\ "mega2" \in m1 <=> Mega2Active(intflag', inten')
          /\ "vgc" \in m1 <=> VgcActive(vgcStat', vgcEn')
        BY <2>3 DEF SetIrqLine, Mega2Active, VgcActive
    <2> HIDE DEF m1
    <2> QED BY <2>2, <2>3, <2>4, MirrorDocBits DEF LineLevels
<1>8. CASE UNCHANGED vars
    BY <1>8 DEF vars, mega2, vgc, LineLevels
<1> QED BY <1>1, <1>2, <1>3, <1>4, <1>5, <1>6, <1>7, <1>8 DEF Next

\* The Mega II and VGC lines carry their registers' level at every step.
THEOREM LineLevelsHold == Spec => []LineLevels
<1>1. Init => LineLevels
    BY DEF Init, LineLevels, Mega2Active, VgcActive
<1> QED BY <1>1, StepLevels, TypeCorrect, PTL DEF Spec

-----------------------------------------------------------------------------
(* The edge-tracked DOC line, on a machine that loads no snapshot.         *)

LEMMA StepDocLine ==
    TypeOK /\ DocLine /\ Snapshots = {} /\ [Next]_vars => DocLine'
<1> SUFFICES ASSUME TypeOK, DocLine, Snapshots = {}, [Next]_vars PROVE DocLine'
    OBVIOUS
<1> USE DEF DocLine
<1>1. CASE Fetch
    BY <1>1 DEF Fetch, ServiceInt, WaiPoll, Begin, doc
<1>2. CASE Access
    <2>1. ASSUME NEW en \in SUBSET Mega2Sources, WriteInten(en), phase = "exec" PROVE DocLine'
        BY <2>1, UpdateMega2Level DEF WriteInten, doc
    <2>2. ASSUME ClearVblInt, phase = "exec" PROVE DocLine'
        BY <2>2, UpdateMega2Level DEF ClearVblInt, doc
    <2>3. ASSUME NEW en \in SUBSET VgcSources, WriteVgcInt(en), phase = "exec" PROVE DocLine'
        BY <2>3, UpdateVgcLevel DEF WriteVgcInt, doc
    <2>4. ASSUME NEW keep \in SUBSET VgcSources, WriteVgcIntClear(keep), phase = "exec"
          PROVE  DocLine'
        BY <2>4, UpdateVgcLevel DEF WriteVgcIntClear, doc
    <2>5. ASSUME ReadBeamCounter, phase = "exec" PROVE DocLine'
        BY <2>5, UpdateVgcLevel DEF ReadBeamCounter, doc
    <2>6. ASSUME NEW s, NEW lines, WriteScreen(s, lines), phase = "exec" PROVE DocLine'
        BY <2>6 DEF WriteScreen, doc
    <2>7. ASSUME NEW ack \in BOOLEAN, DocRead(ack), phase = "exec" PROVE DocLine'
        <3>1. PICK p \in BOOLEAN : /\ irqSourceMask' = MirrorDoc(irqSourceMask, docIrqLast, p)
                                   /\ docIrqLast' = p
            BY <2>7 DEF DocRead, IrqPending
        <3>2. phase' = "exec"
            BY <2>7 DEF DocRead
        <3>3. docIrqLast \in BOOLEAN /\ (docIrqLast <=> "doc" \in irqSourceMask)
            BY DEF TypeOK
        <3>4. "doc" \in irqSourceMask' <=> p
            BY <3>1, <3>3, MirrorDocBits
        <3> QED BY <3>1, <3>2, <3>4
    <2>8. ASSUME NEW n \in 1 .. Oscs, DocWriteEnable(n), phase = "exec" PROVE DocLine'
        BY <2>8 DEF DocWriteEnable
    <2> QED BY <1>2, <2>1, <2>2, <2>3, <2>4, <2>5, <2>6, <2>7, <2>8 DEF Access
<1>3. CASE Retire
    BY <1>3 DEF Retire, doc
<1>4. CASE Tick
    <2>1. PICK p \in BOOLEAN, edge \in BOOLEAN, scan \in BOOLEAN : TickEffect(p, edge, scan)
        BY <1>4, TickForm
    <2>2. "doc" \in irqSourceMask' <=> "doc" \in MirrorDoc(irqSourceMask, docIrqLast, p)
        BY <2>1 DEF TickEffect, SetIrqLine
    <2> QED BY <1>4, <2>1, <2>2, MirrorDocBits DEF TickEffect, Tick, TypeOK
<1>5. CASE FrameTick
    <2>1. PICK p \in BOOLEAN, m \in SUBSET IrqSources :
            /\ docIrqLast' = p
            /\ p = IrqPending(irqPend, oscEnabled)
            /\ "doc" \in m <=> "doc" \in irqSourceMask
            /\ irqSourceMask' = MirrorDoc(m, docIrqLast, p)
        BY <1>5 DEF FrameTick, IrqPending, SetIrqLine, TypeOK, IrqSources
    <2> QED BY <1>5, <2>1, MirrorDocBits DEF FrameTick, TypeOK
<1>6. CASE CtrlReset \/ PowerCycle
    BY <1>6 DEF CtrlReset, PowerCycle, ResetRegisters, IrqPending
<1>7. CASE UNCHANGED vars
    BY <1>7 DEF vars, doc
<1> QED BY <1>1, <1>2, <1>3, <1>4, <1>5, <1>6, <1>7 DEF Next

\* Without snapshot loads the DOC mirror is the line and, whenever the CPU
\* samples it, the chip's pending level.
THEOREM DocLineHolds == Snapshots = {} => (Spec => []DocLine)
<1>1. Init => DocLine
    BY DEF Init, DocLine, IrqPending
<1> SUFFICES ASSUME Snapshots = {} PROVE Spec => []DocLine
    OBVIOUS
<1>2. TypeOK /\ DocLine /\ [Next]_vars => DocLine'
    BY StepDocLine
<1> QED BY <1>1, <1>2, TypeCorrect, PTL DEF Spec


-----------------------------------------------------------------------------
(* The beam and the raster interrupts.                                     *)

LEMMA StepBeam == TypeOK /\ BeamSync /\ [Next]_vars => BeamSync'
<1> SUFFICES ASSUME TypeOK, BeamSync, [Next]_vars PROVE BeamSync'
    OBVIOUS
<1> USE DEF BeamSync, Vpos
<1>1. CASE UNCHANGED beam
    BY <1>1 DEF beam
<1>2. CASE Fetch
    BY <1>1, <1>2 DEF Fetch, ServiceInt, WaiPoll, Begin
<1>3. CASE Access
    BY <1>1, <1>3 DEF Access, WriteInten, ClearVblInt, WriteVgcInt, WriteVgcIntClear,
                      ReadBeamCounter, WriteScreen, DocRead, DocWriteEnable
<1>4. CASE Retire \/ FrameTick
    BY <1>1, <1>4 DEF Retire, FrameTick
<1>5. CASE Tick
    <2>1. lastVpos' = VposAt(videoCycles')
        BY <1>5, TickForm DEF TickEffect
    <2> QED BY <2>1
<1>6. CASE CtrlReset \/ PowerCycle
    BY <1>6 DEF CtrlReset, PowerCycle, ResetRegisters
<1>7. ASSUME NEW s \in Snapshots, LoadSnapshot(s) PROVE BeamSync'
    BY <1>7, SnapshotAssumption DEF LoadSnapshot
<1> QED BY <1>1, <1>2, <1>3, <1>4, <1>5, <1>6, <1>7 DEF Next, vars

\* The remembered line is the beam's or line 0, through every reset and load.
THEOREM BeamSyncHolds == Spec => []BeamSync
<1>1. Init => BeamSync
    <2>1. 0 \div LineTicks = 0
        BY BeamAssumption
    <2> QED BY <2>1 DEF Init, BeamSync
<1> QED BY <1>1, StepBeam, TypeCorrect, PTL DEF Spec

\* A number below n more than a multiple of n has that quotient.
LEMMA Quotient ==
    ASSUME NEW n \in Nat \ {0}, NEW q \in Nat, NEW r \in 0 .. n - 1
    PROVE  (n * q + r) \div n = q
<1> DEFINE t == n * q + r
           p == t \div n
<1>1. t \in Nat /\ p \in Nat /\ n * p <= t /\ t < n * p + n
    BY DEF t, p
<1>2. p >= q
    <2> SUFFICES ASSUME p < q PROVE FALSE
        BY <1>1
    <2>1. n * (p + 1) <= n * q
        BY <1>1
    <2> QED BY <1>1, <2>1
<1>3. p <= q
    <2> SUFFICES ASSUME p > q PROVE FALSE
        BY <1>1
    <2>1. n * (q + 1) <= n * p
        BY <1>1
    <2> QED BY <1>1, <2>1
<1> QED BY <1>1, <1>2, <1>3

LEMMA SmallMod ==
    ASSUME NEW n \in Nat \ {0}, NEW t \in Nat, t < n
    PROVE  t % n = t
OBVIOUS

\* No ticks, no motion.
LEMMA FrameStill ==
    ASSUME NEW t \in 0 .. FrameTicks - 1
    PROVE  (t + 0) % FrameTicks = t
<1>1. FrameTicks \in Nat \ {0} /\ t \in Nat /\ t < FrameTicks /\ t + 0 = t
    BY BeamAssumption DEF FrameTicks
<1> QED BY <1>1, SmallMod

\* What BeamAssumption says of the longest instruction, with the frame's lines.
LEMMA TickSpan ==
    /\ LineTicks \in Nat \ {0} /\ Lines \in Nat /\ Lines > 1 /\ VblLine \in 1 .. Lines - 1
    /\ FrameTicks = LineTicks * Lines /\ FrameTicks \in Nat \ {0}
    /\ MaxTicks \in Nat \ {0}
    /\ MaxTicks <= LineTicks * VblLine
    /\ MaxTicks <= LineTicks * Lines - LineTicks * VblLine
    /\ MaxTicks <= LineTicks * Lines - LineTicks
    /\ MaxTicks < FrameTicks
<1>1. /\ LineTicks \in Nat \ {0} /\ Lines \in Nat /\ Lines > 1 /\ VblLine \in 1 .. Lines - 1
      /\ FrameTicks = LineTicks * Lines
      /\ MaxTicks \in Nat \ {0} /\ MaxTicks <= LineTicks * VblLine
      /\ MaxTicks <= LineTicks * (Lines - VblLine)
    BY BeamAssumption DEF FrameTicks
<1>2. LineTicks * (Lines - VblLine) = LineTicks * Lines - LineTicks * VblLine
    BY <1>1
<1>3. LineTicks * 1 <= LineTicks * VblLine
    BY <1>1
<1>4. LineTicks * Lines \in Nat \ {0} /\ LineTicks * VblLine \in Nat
    BY <1>1
<1> QED BY <1>1, <1>2, <1>3, <1>4

\* Line n, lines counted on past the end of the frame.
LineOf(n) == IF n < Lines THEN n ELSE n - Lines

\* Where the beam is k ticks on, k at most an instruction.
LEMMA BeamMoves ==
    ASSUME NEW t \in 0 .. FrameTicks - 1, NEW k \in 0 .. MaxTicks
    PROVE  /\ VposAt((t + k) % FrameTicks) = LineOf((t + k) \div LineTicks)
           /\ (t + k) \div LineTicks \in VposAt(t) .. VposAt(t) + Lines - 1
<1> DEFINE n == (t + k) \div LineTicks
           r == (t + k) % LineTicks
           v == VposAt(t)
<1>1. /\ LineTicks \in Nat \ {0} /\ Lines \in Nat /\ Lines > 1
      /\ FrameTicks = LineTicks * Lines /\ FrameTicks \in Nat \ {0}
      /\ k \in Nat /\ k <= LineTicks * Lines - LineTicks /\ k < FrameTicks
      /\ t \in Nat /\ t < FrameTicks
    BY TickSpan
<1>2. v \in 0 .. Lines - 1 /\ LineTicks * v <= t /\ t < LineTicks * v + LineTicks
    <2>1. v \in 0 .. Lines - 1
        BY VposInFrame
    <2> QED BY <1>1, <2>1 DEF VposAt
<1>3. n \in Nat /\ r \in 0 .. LineTicks - 1 /\ t + k = LineTicks * n + r
    BY <1>1
<1> HIDE DEF n, r, v
<1>4. n >= v
    <2> SUFFICES ASSUME n < v PROVE FALSE
        BY <1>2, <1>3
    <2>1. LineTicks * (n + 1) <= LineTicks * v
        BY <1>1, <1>2, <1>3
    <2> QED BY <1>1, <1>2, <1>3, <2>1
<1>5. n <= v + Lines - 1
    <2> SUFFICES ASSUME n >= v + Lines PROVE FALSE
        BY <1>1, <1>2, <1>3
    <2>1. LineTicks * (v + Lines) <= LineTicks * n
        BY <1>1, <1>2, <1>3
    <2>2. LineTicks * (v + Lines) = LineTicks * v + LineTicks * Lines
        BY <1>1, <1>2
    <2>3. LineTicks * v \in Nat /\ LineTicks * Lines \in Nat /\ LineTicks * n \in Nat
        BY <1>1, <1>2, <1>3
    <2> QED BY <1>1, <1>2, <1>3, <2>1, <2>2, <2>3
<1>6. CASE n < Lines
    <2>1. LineTicks * (n + 1) <= LineTicks * Lines
        BY <1>1, <1>3, <1>6
    <2>2. t + k < FrameTicks
        BY <1>1, <1>3, <2>1
    <2>3. (t + k) % FrameTicks = t + k
        BY <1>1, <2>2, SmallMod
    <2>4. LineOf(n) = n
        BY <1>6 DEF LineOf
    <2> QED BY <1>1, <1>2, <1>3, <1>4, <1>5, <2>3, <2>4 DEF VposAt, n, v
<1>7. CASE n >= Lines
    <2> DEFINE m == n - Lines
               s == LineTicks * m + r
    <2>1. m \in Nat /\ n = m + Lines
        BY <1>1, <1>3, <1>7
    <2>2. LineTicks * n = LineTicks * m + LineTicks * Lines
        BY <1>1, <2>1
    <2>3. LineTicks * m \in Nat /\ LineTicks * Lines \in Nat
        BY <1>1, <2>1
    <2> HIDE DEF m
    <2>4. s \in Nat /\ t + k = FrameTicks + s
        BY <1>1, <1>3, <2>2, <2>3
    <2> HIDE DEF s
    <2>5. s < FrameTicks
        BY <1>1, <2>4
    <2>6. (t + k) % FrameTicks = s
        BY <1>1, <2>4, <2>5
    <2>7. s \div LineTicks = m
        BY <1>1, <1>3, <2>1, Quotient DEF s
    <2>8. LineOf(n) = m
        BY <1>1, <1>3, <1>7, <2>1 DEF LineOf
    <2> QED BY <1>1, <1>2, <1>3, <1>4, <1>5, <2>6, <2>7, <2>8 DEF VposAt, n, v
<1> QED BY <1>1, <1>3, <1>6, <1>7

\* The clock of a step that takes mt ticks says so, mt being less than a frame.
LEMMA TicksTaken ==
    ASSUME NEW t \in 0 .. FrameTicks - 1, NEW mt \in 0 .. MaxTicks
    PROVE  (((t + mt) % FrameTicks) - t) % FrameTicks = mt
<1>3. FrameTicks \in Nat \ {0} /\ mt < FrameTicks /\ mt \in Nat /\ t \in Nat /\ t < FrameTicks
    BY TickSpan
<1>4. CASE t + mt < FrameTicks
    <2>1. (t + mt) % FrameTicks = t + mt
        BY <1>3, <1>4
    <2> QED BY <1>3, <2>1
<1>5. CASE t + mt >= FrameTicks
    <2>1. (t + mt) % FrameTicks = t + mt - FrameTicks
        BY <1>3, <1>5
    <2>2. (mt - FrameTicks) % FrameTicks = mt
        BY <1>3
    <2> QED BY <1>3, <2>1, <2>2
<1> QED BY <1>3, <1>4, <1>5

\* The lines a tick enters: those after the beam's, up to where it stops, each
\* reached at the tick its line begins.
LEMMA EnteredLines ==
    ASSUME TypeOK, NEW mt \in 0 .. MaxTicks, videoCycles' = (videoCycles + mt) % FrameTicks,
           NEW n, n = (videoCycles + mt) \div LineTicks
    PROVE  /\ Vpos \in 0 .. Lines - 1
           /\ n \in Vpos .. Vpos + Lines - 1
           /\ VposAt(videoCycles') = LineOf(n)
           /\ LinesEntered = {LineOf(m) : m \in Vpos + 1 .. n}
<1> DEFINE t == videoCycles
           v == Vpos
           At(k) == (t + k) \div LineTicks
<1>1. t \in 0 .. FrameTicks - 1 /\ t \in Nat /\ LineTicks \in Nat \ {0} /\ Lines \in Nat
    BY TickSpan DEF TypeOK
<1>2. v \in 0 .. Lines - 1 /\ LineTicks * v <= t /\ t < LineTicks * v + LineTicks
    <2>1. v \in 0 .. Lines - 1
        BY <1>1, VposInFrame DEF Vpos
    <2> QED BY <1>1, <2>1 DEF Vpos, VposAt
<1>3. mt \in Nat /\ mt <= MaxTicks /\ MaxTicks \in Nat
    BY TickSpan
<1>4. \A k \in 0 .. MaxTicks : /\ VposAt((t + k) % FrameTicks) = LineOf(At(k))
                               /\ At(k) \in v .. v + Lines - 1
    BY <1>1, BeamMoves DEF Vpos
<1>5. n \in v .. v + Lines - 1 /\ VposAt(videoCycles') = LineOf(n)
    BY <1>4
<1>6. LinesEntered = {VposAt((t + k) % FrameTicks) : k \in 1 .. mt} \ {v}
    BY <1>1, TicksTaken DEF LinesEntered
<1>7. LineOf(v) = v
    <2>1. v < Lines
        BY <1>1, <1>2
    <2> QED BY <2>1 DEF LineOf
<1>8. \A k \in 1 .. mt : At(k) \in v .. n
    <2> SUFFICES ASSUME NEW k \in 1 .. mt PROVE At(k) \in v .. n
        OBVIOUS
    <2>1. k \in 0 .. MaxTicks /\ k \in Nat /\ k <= mt
        BY <1>3
    <2>2. At(k) \in v .. v + Lines - 1
        BY <1>4, <2>1
    <2>3. At(k) \in Nat /\ LineTicks * At(k) <= t + k
        BY <1>1, <2>1
    <2>4. n \in Nat /\ t + mt < LineTicks * n + LineTicks
        BY <1>1, <1>3
    <2> HIDE DEF At
    <2>5. At(k) <= n
        <3> SUFFICES ASSUME At(k) > n PROVE FALSE
            BY <2>3, <2>4
        <3>1. LineTicks * (n + 1) <= LineTicks * At(k)
            BY <1>1, <2>3, <2>4
        <3>2. LineTicks * (n + 1) = LineTicks * n + LineTicks
            BY <1>1, <2>4
        <3>3. LineTicks * n \in Nat /\ LineTicks * At(k) \in Nat
            BY <1>1, <2>3, <2>4
        <3> QED BY <1>1, <1>3, <2>1, <2>3, <2>4, <3>1, <3>2, <3>3
    <2> QED BY <2>2, <2>3, <2>4, <2>5
<1>9. \A m \in v + 1 .. n : \E k \in 1 .. mt : At(k) = m
    <2> SUFFICES ASSUME NEW m \in v + 1 .. n PROVE \E k \in 1 .. mt : At(k) = m
        OBVIOUS
    <2> DEFINE k == LineTicks * m - t
    <2>1. m \in Nat /\ n \in Nat /\ m <= n /\ v + 1 <= m /\ v \in Nat
        BY <1>1, <1>2, <1>5
    <2>2. LineTicks * (v + 1) <= LineTicks * m /\ LineTicks * m <= LineTicks * n
        BY <1>1, <2>1
    <2>3. LineTicks * (v + 1) = LineTicks * v + LineTicks
        BY <1>1, <2>1
    <2>4. LineTicks * n <= t + mt
        BY <1>1, <1>3
    <2>5. LineTicks * m \in Nat /\ LineTicks * n \in Nat /\ LineTicks * v \in Nat
        BY <1>1, <2>1
    <2>6. k \in 1 .. mt /\ t + k = LineTicks * m + 0
        BY <1>1, <1>2, <1>3, <2>2, <2>3, <2>4, <2>5
    <2>7. (LineTicks * m + 0) \div LineTicks = m
        <3>1. 0 \in 0 .. LineTicks - 1
            BY <1>1
        <3> QED BY <1>1, <2>1, <3>1, Quotient
    <2> QED BY <2>6, <2>7
<1> HIDE DEF At, v
<1>10. \A m \in v + 1 .. n : LineOf(m) # v
    BY <1>1, <1>2, <1>5 DEF LineOf
<1>11. \A k \in 1 .. mt : VposAt((t + k) % FrameTicks) = LineOf(At(k))
    BY <1>3, <1>4
<1>12. {VposAt((t + k) % FrameTicks) : k \in 1 .. mt} = {LineOf(At(k)) : k \in 1 .. mt}
    BY <1>11
<1>13. \A m \in v .. n : m = v \/ m \in v + 1 .. n
    BY <1>1, <1>2, <1>5
<1>14. LinesEntered \subseteq {LineOf(m) : m \in v + 1 .. n}
    BY <1>6, <1>7, <1>8, <1>12, <1>13
<1>15. {LineOf(m) : m \in v + 1 .. n} \subseteq LinesEntered
    BY <1>6, <1>9, <1>10, <1>12
<1> QED BY <1>2, <1>5, <1>14, <1>15 DEF v

\* The walk of the tick visits the lines the beam entered, each once.
LEMMA WalkIsEntered ==
    ASSUME NEW v \in 0 .. Lines - 1, NEW n \in v .. v + Lines - 1
    PROVE  Walk(v, LineOf(n)) = {LineOf(m) : m \in v + 1 .. n}
<1>1. Lines \in Nat /\ Lines > 1 /\ v \in Nat /\ n \in Nat
    BY BeamAssumption
<1>2. CASE n < Lines
    <2>1. LineOf(n) = n /\ v <= n
        BY <1>1, <1>2 DEF LineOf
    <2>2. \A m \in v + 1 .. n : LineOf(m) = m
        BY <1>1, <1>2 DEF LineOf
    <2> QED BY <2>1, <2>2 DEF Walk
<1>3. CASE n >= Lines
    <2>1. LineOf(n) = n - Lines /\ ~(v <= n - Lines)
        BY <1>1, <1>3 DEF LineOf
    <2>2. \A m \in v + 1 .. n : LineOf(m) \in (v + 1 .. Lines - 1) \cup (0 .. n - Lines)
        BY <1>1, <1>3 DEF LineOf
    <2>3. \A l \in v + 1 .. Lines - 1 : l \in v + 1 .. n /\ LineOf(l) = l
        BY <1>1, <1>3 DEF LineOf
    <2>4. \A l \in 0 .. n - Lines : l + Lines \in v + 1 .. n /\ LineOf(l + Lines) = l
        BY <1>1, <1>3 DEF LineOf
    <2> QED BY <2>1, <2>2, <2>3, <2>4 DEF Walk
<1> QED BY <1>1, <1>2, <1>3

\* An instruction too short to run over the whole blank, or over the whole
\* display above it, enters the blank when it enters its first line.
LEMMA BlankIsEntered ==
    ASSUME NEW t \in 0 .. FrameTicks - 1, NEW k \in 0 .. MaxTicks,
           NEW v, v = VposAt(t), NEW n, n = (t + k) \div LineTicks
    PROVE  VblEntered(v, LineOf(n)) <=> \E m \in v + 1 .. n : LineOf(m) = VblLine
<1> DEFINE top == LineTicks * VblLine
           frame == LineTicks * Lines
<1>1. /\ LineTicks \in Nat \ {0} /\ Lines \in Nat /\ Lines > 1 /\ VblLine \in 1 .. Lines - 1
      /\ FrameTicks = frame /\ k \in Nat /\ k <= top /\ k <= frame - top
      /\ t \in Nat /\ t < frame
    BY TickSpan
<1>2. v \in 0 .. Lines - 1 /\ n \in v .. v + Lines - 1
    BY BeamMoves, VposInFrame
<1>3. LineTicks * v <= t /\ t < LineTicks * v + LineTicks
    BY <1>1, <1>2 DEF VposAt
<1>4. LineTicks * n <= t + k /\ t + k < LineTicks * n + LineTicks
    BY <1>1
<1>5. top \in Nat /\ frame \in Nat
    BY <1>1
<1>6. CASE v < VblLine
    <2>1. LineTicks * (v + 1) <= top
        BY <1>1, <1>2, <1>6
    <2>2. t + k < frame
        BY <1>1, <1>2, <1>3, <1>5, <2>1
    <2>3. n < Lines
        <3> SUFFICES ASSUME n >= Lines PROVE FALSE
            BY <1>1, <1>2
        <3>1. frame <= LineTicks * n
            BY <1>1, <1>2
        <3> QED BY <1>1, <1>2, <1>4, <1>5, <2>2, <3>1
    <2>4. LineOf(n) = n /\ \A m \in v + 1 .. n : LineOf(m) = m
        BY <1>1, <1>2, <2>3 DEF LineOf
    <2> QED BY <1>1, <1>2, <1>6, <2>4 DEF VblEntered
<1>7. CASE v >= VblLine
    <2>1. n < Lines + VblLine
        <3> SUFFICES ASSUME n >= Lines + VblLine PROVE FALSE
            BY <1>1, <1>2
        <3>1. LineTicks * (Lines + VblLine) <= LineTicks * n
            BY <1>1, <1>2
        <3>2. LineTicks * (Lines + VblLine) = frame + top
            BY <1>1
        <3> QED BY <1>1, <1>2, <1>4, <1>5, <3>1, <3>2
    <2>2. \A m \in v + 1 .. n : LineOf(m) # VblLine
        BY <1>1, <1>2, <1>7, <2>1 DEF LineOf
    <2> QED BY <1>1, <1>2, <1>7, <2>2 DEF VblEntered
<1> QED BY <1>1, <1>2, <1>6, <1>7

\* What a tick latches of the raster.
LEMMA TickLatches ==
    ASSUME Tick, TypeOK, lastVpos = Vpos
    PROVE  /\ intflag' = intflag \cup
                (IF \E l \in LinesEntered : l = VblLine THEN {"vbl"} ELSE {})
           /\ vgcStat' = vgcStat \cup
                (IF shr /\ LinesEntered \cap scb # {} THEN {"scan"} ELSE {})
<1>1. PICK mt \in 1 .. MaxTicks :
        LET vp   == VposAt((videoCycles + mt) % FrameTicks)
            edge == VblEntered(lastVpos, vp)
            scan == shr /\ \E l \in Walk(lastVpos, vp) : l < ScbLines /\ l \in scb
        IN  /\ videoCycles' = (videoCycles + mt) % FrameTicks
            /\ intflag' = IF edge THEN intflag \cup {"vbl"} ELSE intflag
            /\ vgcStat' = IF scan THEN vgcStat \cup {"scan"} ELSE vgcStat
    BY DEF Tick
<1>2. mt \in 0 .. MaxTicks
    BY BeamAssumption
<1> DEFINE n == (videoCycles + mt) \div LineTicks
           w == VposAt(videoCycles')
<1>3. /\ Vpos \in 0 .. Lines - 1 /\ n \in Vpos .. Vpos + Lines - 1 /\ w = LineOf(n)
      /\ LinesEntered = {LineOf(m) : m \in Vpos + 1 .. n}
    BY <1>1, <1>2, EnteredLines
<1>4. \A l \in scb : l < ScbLines
    BY ScbAssumption, BeamAssumption DEF TypeOK
<1>5. /\ intflag' = IF VblEntered(Vpos, w) THEN intflag \cup {"vbl"} ELSE intflag
      /\ vgcStat' = IF shr /\ \E l \in Walk(Vpos, w) : l < ScbLines /\ l \in scb
                    THEN vgcStat \cup {"scan"} ELSE vgcStat
    BY <1>1
<1>6. VblEntered(Vpos, LineOf(n)) <=> \E m \in Vpos + 1 .. n : LineOf(m) = VblLine
    <2>1. videoCycles \in 0 .. FrameTicks - 1
        BY DEF TypeOK
    <2> QED BY <1>2, <2>1, BlankIsEntered DEF Vpos
<1>7. Walk(Vpos, w) = LinesEntered
    BY <1>3, WalkIsEntered
<1> HIDE DEF n, w
<1>8. VblEntered(Vpos, w) <=> \E l \in LinesEntered : l = VblLine
    BY <1>3, <1>6
<1>9. (\E l \in Walk(Vpos, w) : l < ScbLines /\ l \in scb) <=> LinesEntered \cap scb # {}
    BY <1>4, <1>7
<1> QED BY <1>5, <1>8, <1>9

\* Only the tick moves the state of a tick phase.
LEMMA StepRaster == TypeOK /\ [Next]_vars => VblStep /\ ScanStep
<1> SUFFICES ASSUME TypeOK, [Next]_vars, phase = "tick", lastVpos = Vpos
             PROVE  /\ intflag' = intflag \cup
                         (IF \E l \in LinesEntered : l = VblLine THEN {"vbl"} ELSE {})
                    /\ vgcStat' = vgcStat \cup
                         (IF shr /\ LinesEntered \cap scb # {} THEN {"scan"} ELSE {})
    BY DEF VblStep, ScanStep
<1>1. CASE Tick
    BY <1>1, TickLatches
<1>2. CASE UNCHANGED vars
    <2>1. videoCycles' = videoCycles /\ intflag' = intflag /\ vgcStat' = vgcStat
        BY <1>2 DEF vars, beam, mega2, vgc
    <2>2. videoCycles' = (videoCycles + 0) % FrameTicks
        BY <2>1, FrameStill DEF TypeOK
    <2>3. 0 \in 0 .. MaxTicks
        BY BeamAssumption
    <2>4. LinesEntered = {}
        <3> DEFINE n == (videoCycles + 0) \div LineTicks
        <3>1. LinesEntered = {LineOf(m) : m \in Vpos + 1 .. n}
            BY <2>2, <2>3, EnteredLines
        <3>2. Vpos \in Int /\ n = Vpos
            BY TickSpan DEF TypeOK, Vpos, VposAt
        <3> QED BY <3>1, <3>2
    <2> QED BY <2>1, <2>4
<1>3. ~(Fetch \/ Access \/ Retire \/ FrameTick \/ CtrlReset \/ PowerCycle
        \/ \E s \in Snapshots : LoadSnapshot(s))
    BY DEF Fetch, ServiceInt, WaiPoll, Begin, Access, Retire, FrameTick, CtrlReset, PowerCycle,
           LoadSnapshot
<1> QED BY <1>1, <1>2, <1>3 DEF Next

\* The blank latches exactly when the beam enters it, for every geometry and
\* instructions over any number of lines, short of the whole blank or display.
THEOREM VblExactHolds == Spec => VblExact
<1>1. TypeOK /\ [Next]_vars => [VblStep]_vars
    BY StepRaster
<1> QED BY <1>1, TypeCorrect, PTL DEF Spec, VblExact

\* The scan-line source latches exactly when the beam enters a marked line.
THEOREM ScanExactHolds == Spec => ScanExact
<1>1. TypeOK /\ [Next]_vars => [ScanStep]_vars
    BY StepRaster
<1> QED BY <1>1, TypeCorrect, PTL DEF Spec, ScanExact
=============================================================================

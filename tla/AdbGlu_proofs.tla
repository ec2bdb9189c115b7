---------------------------- MODULE AdbGlu_proofs ----------------------------
(***************************************************************************)
(* Proofs about AdbGlu, for every response delay, valve, queue capacity,   *)
(* set of commands and set of snapshot files: the type of the state, the   *)
(* shared line, the pending key's ASCII, the two-frame valves, and, until   *)
(* the first reset or load, the announcement of every response.            *)
(***************************************************************************)
EXTENDS AdbGlu, TLAPS

-----------------------------------------------------------------------------
(* Types.                                                                  *)

\* Queueing keeps the queue within its capacity.
LEMMA QueueType ==
    ASSUME TypeOK, NEW n \in Nat, AdbQueue(n)
    PROVE  /\ adbRespN' \in 0 .. RespCap /\ adbRespN <= adbRespN'
           /\ adbReadyAt' \in 0 .. MaxCycles + ResponseTicks
<1>1. /\ RespCap \in Nat /\ adbRespN \in Nat /\ adbRespN <= RespCap
      /\ videoCycles \in Nat /\ videoCycles <= MaxCycles /\ MaxCycles \in Nat
      /\ ResponseTicks \in Nat /\ adbReadyAt \in 0 .. MaxCycles + ResponseTicks
    BY AdbConstants DEF TypeOK
<1>2. adbRespN' \in 0 .. RespCap /\ adbRespN <= adbRespN'
    BY <1>1 DEF AdbQueue
<1>3. adbReadyAt' = adbReadyAt \/ adbReadyAt' = videoCycles + ResponseTicks
    BY DEF AdbQueue
<1>. QED
    BY <1>1, <1>2, <1>3

LEMMA Zero == 0 \in 0 .. MaxCycles /\ 0 \in 0 .. MaxCycles + ResponseTicks /\ 0 \in 0 .. RespCap
              /\ 0 \in 0 .. 0 /\ 0 \in 0 .. 8 /\ ~(0 > 0)
BY AdbConstants

LEMMA InitType == Init => TypeOK
BY Zero, Zenon DEF Init, TypeOK

\* An access of a register or of the gate keeps every variable in its type.
LEMMA AccessType == TypeOK /\ Access => TypeOK'
<1> SUFFICES ASSUME TypeOK, Access PROVE TypeOK'
    OBVIOUS
<1> USE DEF gate, mouse, kbd, UpdateAdbIrq, Deliver
<1>0. phase' = "exec" /\ undisturbed' = undisturbed
    BY DEF Access
<1>1. ASSUME NEW c \in Commands, CommandByte(c) PROVE TypeOK'
    <2>1. c.params \in 0 .. 8 /\ c.reply \in Nat /\ c.status \in BOOLEAN
        BY AdbConstants DEF CommandType
    <2>2. PICK n \in Nat : AdbQueue(n)
        BY <1>1, <2>1 DEF CommandByte
    <2>3. /\ adbRespN' \in 0 .. RespCap /\ adbRespN <= adbRespN'
          /\ adbReadyAt' \in 0 .. MaxCycles + ResponseTicks
        BY <2>2, QueueType
    <2>4. adbRespI' \in 0 .. adbRespN'
        BY <1>1, <2>3 DEF CommandByte, TypeOK
    <2>. QED
        BY <1>0, <1>1, <2>1, <2>3, <2>4 DEF CommandByte, TypeOK
<1>2. ASSUME ParamByte PROVE TypeOK'
    <2>1. adbCmd.reply \in Nat
        BY <1>2, AdbConstants DEF ParamByte, TypeOK, CommandType
    <2>2. PICK n \in Nat : AdbQueue(n)
        BY <1>2, <2>1 DEF ParamByte
    <2>3. /\ adbRespN' \in 0 .. RespCap /\ adbRespN <= adbRespN'
          /\ adbReadyAt' \in 0 .. MaxCycles + ResponseTicks
        BY <2>2, QueueType
    <2>4. adbRespI' \in 0 .. adbRespN' /\ adbParamsLeft' \in 0 .. 8
        BY <1>2, <2>3 DEF ParamByte, TypeOK
    <2>5. adbParamsLeft' > 0 => adbCmd' \in Commands
        BY <1>2 DEF ParamByte, TypeOK
    <2>. QED
        BY <1>0, <1>2, <2>3, <2>4, <2>5 DEF ParamByte, TypeOK
<1>3. ASSUME ReadDataReg PROVE TypeOK'
    <2>1. /\ adbRespN \in Nat /\ adbRespN <= RespCap /\ RespCap \in Nat
          /\ adbRespI \in Nat /\ adbRespI <= adbRespN
        BY AdbConstants DEF TypeOK
    <2>2. adbRespN' \in 0 .. RespCap /\ adbRespI' \in 0 .. adbRespN'
        BY <1>3, <2>1 DEF ReadDataReg
    <2>3. adbDataReady' \in BOOLEAN /\ adbLine' \in BOOLEAN
        BY <1>3 DEF ReadDataReg
    <2>4. UNCHANGED <<videoCycles, gate, adbIntEn, adbReadyAt, adbStatus, adbCmd,
                      adbParamsLeft, mouse, kbd>>
        BY <1>3 DEF ReadDataReg
    <2>. QED
        BY <1>0, <2>2, <2>3, <2>4 DEF TypeOK
<1>4. ASSUME ReadStatus \/ KeyStatus PROVE TypeOK'
    <2>1. CASE ReadStatus
        BY <1>0, <2>1 DEF ReadStatus, TypeOK
    <2>2. CASE KeyStatus
        BY <1>0, <2>2 DEF KeyStatus, queue, TypeOK
    <2>. QED
        BY <1>4, <2>1, <2>2
<1>5. ASSUME NEW en \in SUBSET Enables, WriteEnables(en) PROVE TypeOK'
    <2>1. adbIntEn' \subseteq Enables /\ adbLine' \in BOOLEAN
        BY <1>5 DEF WriteEnables
    <2>2. UNCHANGED <<videoCycles, gate, adbDataReady, queue, mouse, kbd>>
        BY <1>5 DEF WriteEnables
    <2>. QED
        BY <1>0, <2>1, <2>2 DEF queue, TypeOK
<1>6. ASSUME ReadMouseX \/ ReadMouseY PROVE TypeOK'
    <2>1. /\ mouseDataFull' \in BOOLEAN /\ mouseReadY' \in BOOLEAN
          /\ mouseUntold' \subseteq MouseAxes /\ adbLine' \in BOOLEAN
        BY <1>6 DEF ReadMouseX, ReadMouseY, TypeOK
    <2>2. UNCHANGED <<videoCycles, gate, adbIntEn, adbDataReady, queue, mouseSetCycle, kbd>>
        BY <1>6 DEF ReadMouseX, ReadMouseY
    <2>. QED
        BY <1>0, <2>1, <2>2 DEF queue, TypeOK
<1>7. ASSUME ClearStrobe PROVE TypeOK'
    <2>1. kbdIntPending' \in BOOLEAN /\ kbdStrobe' \in BOOLEAN /\ adbLine' \in BOOLEAN
        BY <1>7 DEF ClearStrobe, TypeOK
    <2>2. UNCHANGED <<videoCycles, gate, adbIntEn, adbDataReady, queue, mouse, kbdSetCycle>>
        BY <1>7 DEF ClearStrobe
    <2>. QED
        BY <1>0, <2>1, <2>2 DEF queue, TypeOK
<1>8. ASSUME NEW e \in BOOLEAN, NEW vbl \in BOOLEAN, SetGate(e, vbl) PROVE TypeOK'
    BY <1>0, <1>8 DEF SetGate, queue, TypeOK
<1>9. emulation \in BOOLEAN /\ vblEnabled \in BOOLEAN
      /\ (~emulation) \in BOOLEAN /\ (~vblEnabled) \in BOOLEAN
    BY DEF TypeOK
<1>. QED
    BY <1>1, <1>2, <1>3, <1>4, <1>5, <1>6, <1>7, <1>8, <1>9 DEF Access

\* What a tick does, once it is known whether the response is due and which
\* valves open.
TickEffect(mt, due, dropMouse, dropKey) ==
    /\ videoCycles' = videoCycles + mt /\ videoCycles' <= MaxCycles
    /\ due <=> Due(adbReadyAt, videoCycles')
    /\ dropMouse <=> Expired(mouseDataFull, mouseSetCycle, videoCycles')
    /\ dropKey <=> Expired(kbdIntPending, kbdSetCycle, videoCycles')
    /\ adbReadyAt' = IF due THEN 0 ELSE adbReadyAt
    /\ adbDataReady' = (adbDataReady \/ due)
    /\ mouseDataFull' = (mouseDataFull /\ ~dropMouse)
    /\ mouseReadY' = (mouseReadY /\ ~dropMouse)
    /\ mouseUntold' = IF dropMouse THEN {} ELSE mouseUntold
    /\ kbdIntPending' = (kbdIntPending /\ ~dropKey)
    /\ IF due \/ dropMouse \/ dropKey
       THEN adbLine' = Deliver(mouseDataFull', kbdIntPending', adbDataReady', adbIntEn,
                               emulation, vblEnabled)
       ELSE adbLine' = adbLine
    /\ phase' = "fetch"
    /\ UNCHANGED <<gate, adbIntEn, adbStatus, adbRespN, adbRespI, adbCmd,
                   adbParamsLeft, mouseSetCycle, kbdSetCycle, kbdStrobe, undisturbed>>

LEMMA TickForm ==
    ASSUME TypeOK, Tick
    PROVE  \E mt \in 1 .. MaxTicks, due \in BOOLEAN, dropMouse \in BOOLEAN,
              dropKey \in BOOLEAN : TickEffect(mt, due, dropMouse, dropKey)
<1>1. PICK mt \in 1 .. MaxTicks :
        LET now == videoCycles + mt
            due == Due(adbReadyAt, now)
            dropMouse == Expired(mouseDataFull, mouseSetCycle, now)
            dropKey == Expired(kbdIntPending, kbdSetCycle, now)
        IN  /\ now <= MaxCycles
            /\ videoCycles' = now
            /\ adbReadyAt' = IF due THEN 0 ELSE adbReadyAt
            /\ adbDataReady' = (adbDataReady \/ due)
            /\ mouseDataFull' = (mouseDataFull /\ ~dropMouse)
            /\ mouseReadY' = (mouseReadY /\ ~dropMouse)
            /\ mouseUntold' = IF dropMouse THEN {} ELSE mouseUntold
            /\ kbdIntPending' = (kbdIntPending /\ ~dropKey)
            /\ IF due \/ dropMouse \/ dropKey
               THEN UpdateAdbIrq(mouseDataFull /\ ~dropMouse, kbdIntPending /\ ~dropKey,
                                 adbDataReady \/ due, adbIntEn)
               ELSE UNCHANGED adbLine
            /\ phase' = "fetch"
            /\ UNCHANGED <<gate, adbIntEn, adbStatus, adbRespN, adbRespI, adbCmd,
                           adbParamsLeft, mouseSetCycle, kbdSetCycle, kbdStrobe, undisturbed>>
    BY DEF Tick
<1> DEFINE d == Due(adbReadyAt, videoCycles + mt)
           m == Expired(mouseDataFull, mouseSetCycle, videoCycles + mt)
           k == Expired(kbdIntPending, kbdSetCycle, videoCycles + mt)
<1>2. d \in BOOLEAN /\ m \in BOOLEAN /\ k \in BOOLEAN
    BY DEF Due, Expired
<1>3. TickEffect(mt, d, m, k)
    BY <1>1 DEF TickEffect, UpdateAdbIrq
<1>. QED
    BY <1>2, <1>3

LEMMA TickType == TypeOK /\ Tick => TypeOK'
<1> SUFFICES ASSUME TypeOK, Tick PROVE TypeOK'
    OBVIOUS
<1>1. PICK mt \in 1 .. MaxTicks, due \in BOOLEAN, dropMouse \in BOOLEAN, dropKey \in BOOLEAN :
         TickEffect(mt, due, dropMouse, dropKey)
    BY TickForm
<1>2. videoCycles' \in 0 .. MaxCycles /\ adbReadyAt' \in 0 .. MaxCycles + ResponseTicks
    BY <1>1, AdbConstants DEF TypeOK, TickEffect
<1>3. adbLine' \in BOOLEAN
    BY <1>1 DEF TypeOK, TickEffect, Deliver
<1>4. /\ adbDataReady' \in BOOLEAN /\ mouseDataFull' \in BOOLEAN
      /\ mouseReadY' \in BOOLEAN /\ kbdIntPending' \in BOOLEAN
    BY <1>1 DEF TickEffect
<1>5. mouseUntold' \subseteq MouseAxes
    BY <1>1 DEF TypeOK, TickEffect
<1>6. /\ phase' = "fetch"
      /\ UNCHANGED <<gate, adbIntEn, adbStatus, adbRespN, adbRespI, adbCmd,
                     adbParamsLeft, mouseSetCycle, kbdSetCycle, kbdStrobe, undisturbed>>
    BY <1>1 DEF TickEffect
<1>. QED
    BY <1>2, <1>3, <1>4, <1>5, <1>6 DEF TypeOK, gate

LEMMA NextType == TypeOK /\ [Next]_vars => TypeOK'
<1> SUFFICES ASSUME TypeOK, [Next]_vars PROVE TypeOK'
    OBVIOUS
<1> USE DEF gate, mouse, kbd, queue, UpdateAdbIrq, Deliver
<1>1. ASSUME NEW axes \in SUBSET MouseAxes, MousePost(axes) PROVE TypeOK'
    BY <1>1 DEF MousePost, TypeOK
<1>2. ASSUME KeyDown PROVE TypeOK'
    BY <1>2 DEF KeyDown, TypeOK
<1>3. ASSUME CtrlReset \/ PowerCycle PROVE TypeOK'
    <2>1. ResetGlu /\ phase' = phase /\ (videoCycles' = videoCycles \/ videoCycles' = 0)
        BY <1>3 DEF CtrlReset, PowerCycle
    <2>2. /\ videoCycles' \in 0 .. MaxCycles /\ adbRespN' \in 0 .. RespCap
          /\ adbRespI' \in 0 .. adbRespN' /\ adbParamsLeft' \in 0 .. 8 /\ ~(adbParamsLeft' > 0)
        BY <2>1, Zero DEF ResetGlu, TypeOK
    <2>. QED
        BY <2>1, <2>2 DEF ResetGlu, TypeOK
<1>4. ASSUME NEW s \in Snapshots, LoadSnapshot(s) PROVE TypeOK'
    <2>1. s \in SnapshotType
        BY AdbSnapshots
    <2>2. /\ videoCycles' \in 0 .. MaxCycles /\ mouseSetCycle' \in 0 .. MaxCycles
          /\ kbdSetCycle' \in 0 .. MaxCycles /\ adbIntEn' \subseteq Enables
          /\ mouseUntold' \subseteq MouseAxes
        BY <1>4, <2>1 DEF LoadSnapshot, SnapshotType
    <2>3. /\ emulation' \in BOOLEAN /\ vblEnabled' \in BOOLEAN /\ adbDataReady' \in BOOLEAN
          /\ mouseDataFull' \in BOOLEAN /\ mouseReadY' \in BOOLEAN
          /\ kbdIntPending' \in BOOLEAN /\ kbdStrobe' \in BOOLEAN
        BY <1>4, <2>1 DEF LoadSnapshot, SnapshotType
    <2>4. /\ adbLine' \in BOOLEAN /\ undisturbed' \in BOOLEAN
          /\ UNCHANGED <<adbReadyAt, adbStatus, phase>>
        BY <1>4 DEF LoadSnapshot
    <2>5. /\ adbRespN' \in 0 .. RespCap /\ adbRespI' \in 0 .. adbRespN'
          /\ adbCmd' = NoCommand /\ adbParamsLeft' \in 0 .. 8 /\ ~(adbParamsLeft' > 0)
        BY <1>4, Zero DEF LoadSnapshot
    <2>. QED
        BY <2>2, <2>3, <2>4, <2>5 DEF TypeOK
<1>5. CASE UNCHANGED vars
    BY <1>5 DEF vars, TypeOK
<1>. QED
    BY <1>1, <1>2, <1>3, <1>4, <1>5, AccessType, TickType DEF Next

\* Every variable of the GLU keeps its type, the queue its capacity.
THEOREM TypeCorrect == Spec => []TypeOK
<1>. QED
    BY InitType, NextType, PTL DEF Spec

-----------------------------------------------------------------------------
(* The shared line, the pending key and the valves.                        *)

\* The valves, without the phase.
ValvesHold ==
    /\ mouseDataFull => videoCycles - mouseSetCycle \in 0 .. TwoFrames
    /\ kbdIntPending => videoCycles - kbdSetCycle \in 0 .. TwoFrames

InputInv == LineFollowsSources /\ KeyHasAscii /\ ValvesHold

\* An update leaves the line following the sources it was given.
LEMMA UpdateFollows ==
    ASSUME TypeOK, TypeOK', UpdateAdbIrq(mouseDataFull', kbdIntPending', adbDataReady', adbIntEn')
    PROVE  LineFollowsSources'
<1>1. /\ mouseDataFull' \in BOOLEAN /\ kbdIntPending' \in BOOLEAN /\ adbDataReady' \in BOOLEAN
      /\ emulation \in BOOLEAN /\ vblEnabled \in BOOLEAN
    BY DEF TypeOK
<1>2. adbLine' = Deliver(mouseDataFull', kbdIntPending', adbDataReady', adbIntEn',
                         emulation, vblEnabled)
    BY DEF UpdateAdbIrq
<1>3. Deliver(mouseDataFull', kbdIntPending', adbDataReady', adbIntEn', TRUE, FALSE) => adbLine'
    BY <1>1, <1>2, Zenon DEF Deliver
<1>4. adbLine' => mouseDataFull' \/ kbdIntPending' \/ adbDataReady'
    BY <1>1, <1>2, Zenon DEF Deliver
<1>. QED
    BY <1>3, <1>4 DEF LineFollowsSources, Deliver

LEMMA SameFollows ==
    ASSUME LineFollowsSources, UNCHANGED <<adbLine, mouseDataFull, kbdIntPending, adbDataReady,
                                           adbIntEn>>
    PROVE  LineFollowsSources'
BY DEF LineFollowsSources

LEMMA NextFollows ==
    ASSUME TypeOK, TypeOK', LineFollowsSources, [Next]_vars
    PROVE  LineFollowsSources'
<1> USE DEF mouse, kbd
<1>1. ASSUME NEW c, CommandByte(c) PROVE LineFollowsSources'
    BY <1>1, UpdateFollows DEF CommandByte
<1>2. ASSUME ParamByte PROVE LineFollowsSources'
    BY <1>2, UpdateFollows DEF ParamByte
<1>3. ASSUME ReadDataReg PROVE LineFollowsSources'
    <2>1. PICK drained \in BOOLEAN :
             /\ adbDataReady' = ~drained
             /\ UpdateAdbIrq(mouseDataFull, kbdIntPending, ~drained, adbIntEn)
        BY <1>3 DEF ReadDataReg, TypeOK
    <2>. QED
        BY <1>3, <2>1, UpdateFollows DEF ReadDataReg
<1>4. ASSUME ReadStatus \/ KeyStatus \/ ReadMouseX PROVE LineFollowsSources'
    BY <1>4, SameFollows DEF ReadStatus, KeyStatus, ReadMouseX
<1>5. ASSUME NEW en, WriteEnables(en) PROVE LineFollowsSources'
    BY <1>5, UpdateFollows DEF WriteEnables
<1>6. ASSUME ReadMouseY PROVE LineFollowsSources'
    BY <1>6, UpdateFollows DEF ReadMouseY
<1>7. ASSUME ClearStrobe PROVE LineFollowsSources'
    <2>1. CASE kbdIntPending
        BY <1>7, <2>1, UpdateFollows DEF ClearStrobe
    <2>2. CASE ~kbdIntPending
        <3>1. kbdIntPending' = kbdIntPending
            BY <1>7, <2>2 DEF ClearStrobe, TypeOK
        <3>. QED
            BY <1>7, <2>2, <3>1, SameFollows DEF ClearStrobe
    <2>. QED
        BY <2>1, <2>2
<1>8. ASSUME NEW e, NEW vbl, SetGate(e, vbl) PROVE LineFollowsSources'
    BY <1>8, SameFollows DEF SetGate
<1>9. ASSUME Tick PROVE LineFollowsSources'
    <2>1. PICK mt \in 1 .. MaxTicks, due \in BOOLEAN, dropMouse \in BOOLEAN, dropKey \in BOOLEAN :
             TickEffect(mt, due, dropMouse, dropKey)
        BY <1>9, TickForm
    <2>2. adbIntEn' = adbIntEn
        BY <2>1 DEF TickEffect
    <2>3. CASE due \/ dropMouse \/ dropKey
        BY <2>1, <2>2, <2>3, UpdateFollows DEF TickEffect, UpdateAdbIrq
    <2>4. CASE ~(due \/ dropMouse \/ dropKey)
        <3>1. /\ adbLine' = adbLine /\ mouseDataFull' = mouseDataFull
              /\ kbdIntPending' = kbdIntPending /\ adbDataReady' = adbDataReady
            <4>1. /\ mouseDataFull' = (mouseDataFull /\ ~dropMouse)
                  /\ kbdIntPending' = (kbdIntPending /\ ~dropKey)
                  /\ adbDataReady' = (adbDataReady \/ due)
                  /\ ~(due \/ dropMouse \/ dropKey) => adbLine' = adbLine
                BY <2>1 DEF TickEffect
            <4>2. /\ mouseDataFull \in BOOLEAN /\ kbdIntPending \in BOOLEAN
                  /\ adbDataReady \in BOOLEAN
                BY DEF TypeOK
            <4>. QED
                BY <2>4, <4>1, <4>2
        <3>. QED
            BY <2>2, <3>1, SameFollows
    <2>. QED
        BY <2>3, <2>4
<1>10. ASSUME NEW axes, MousePost(axes) PROVE LineFollowsSources'
    BY <1>10, UpdateFollows DEF MousePost
<1>11. ASSUME KeyDown PROVE LineFollowsSources'
    BY <1>11, UpdateFollows DEF KeyDown
<1>12. ASSUME CtrlReset \/ PowerCycle PROVE LineFollowsSources'
    BY <1>12 DEF CtrlReset, PowerCycle, ResetGlu, LineFollowsSources, Deliver
<1>13. ASSUME NEW s \in Snapshots, LoadSnapshot(s) PROVE LineFollowsSources'
    <2>1. s \in SnapshotType
        BY AdbSnapshots
    <2>2. /\ s.mouseDataFull \in BOOLEAN /\ s.kbdIntPending \in BOOLEAN
          /\ s.adbDataReady \in BOOLEAN /\ s.vblEnabled \in BOOLEAN /\ emulation \in BOOLEAN
        BY <2>1 DEF SnapshotType, TypeOK
    <2>3. /\ mouseDataFull' = s.mouseDataFull /\ kbdIntPending' = s.kbdIntPending
          /\ adbDataReady' = s.adbDataReady /\ adbIntEn' = s.adbIntEn
          /\ adbLine' = Deliver(s.mouseDataFull, s.kbdIntPending, s.adbDataReady,
                                s.adbIntEn, emulation, s.vblEnabled)
        BY <1>13 DEF LoadSnapshot
    <2>4. Deliver(mouseDataFull', kbdIntPending', adbDataReady', adbIntEn', TRUE, FALSE)
             => adbLine'
        BY <2>2, <2>3, Zenon DEF Deliver
    <2>5. adbLine' => mouseDataFull' \/ kbdIntPending' \/ adbDataReady'
        BY <2>2, <2>3, Zenon DEF Deliver
    <2>. QED
        BY <2>4, <2>5 DEF LineFollowsSources, Deliver
<1>14. CASE UNCHANGED vars
    BY <1>14, SameFollows DEF vars
<1>15. CASE Access
    BY <1>1, <1>2, <1>3, <1>4, <1>5, <1>6, <1>7, <1>8, <1>15 DEF Access
<1>. QED
    BY <1>9, <1>10, <1>11, <1>12, <1>13, <1>14, <1>15 DEF Next

\* The inputs of an access: they only shrink, and the clock stands.
LEMMA AccessInputs ==
    ASSUME TypeOK, Access
    PROVE  /\ UNCHANGED <<videoCycles, mouseSetCycle, kbdSetCycle>>
           /\ mouseDataFull' => mouseDataFull
           /\ kbdIntPending' => kbdIntPending /\ kbdStrobe' = kbdStrobe
<1> USE DEF mouse, kbd
<1>1. ASSUME \E c \in Commands : CommandByte(c)
      PROVE  UNCHANGED <<videoCycles, mouse, kbd>>
    BY <1>1 DEF CommandByte
<1>2. ASSUME ParamByte \/ ReadDataReg \/ ReadStatus \/ KeyStatus
             \/ (\E en \in SUBSET Enables : WriteEnables(en))
             \/ (\E e, vbl : SetGate(e, vbl))
      PROVE  UNCHANGED <<videoCycles, mouse, kbd>>
    BY <1>2 DEF ParamByte, ReadDataReg, ReadStatus, KeyStatus, WriteEnables, SetGate
<1>3. CASE UNCHANGED <<videoCycles, mouse, kbd>>
    BY <1>3
<1>4. CASE ReadMouseX \/ ReadMouseY
    <2>1. UNCHANGED <<videoCycles, mouseSetCycle, kbd>>
        BY <1>4 DEF ReadMouseX, ReadMouseY
    <2>2. mouseDataFull' => mouseDataFull
        BY <1>4 DEF ReadMouseX, ReadMouseY
    <2>. QED
        BY <2>1, <2>2
<1>5. CASE ClearStrobe
    BY <1>5 DEF ClearStrobe
<1>. QED
    BY <1>1, <1>2, <1>3, <1>4, <1>5 DEF Access

LEMMA NextValves ==
    ASSUME TypeOK, KeyHasAscii, ValvesHold, [Next]_vars
    PROVE  KeyHasAscii' /\ ValvesHold'
<1> USE DEF KeyHasAscii, ValvesHold, mouse, kbd
<1>0. /\ videoCycles \in Nat /\ mouseSetCycle \in Nat /\ kbdSetCycle \in Nat /\ TwoFrames \in Nat
    BY AdbConstants DEF TypeOK
<1>1. CASE Access
    BY <1>1, AccessInputs
<1>2. CASE Tick
    <2>1. PICK mt \in 1 .. MaxTicks, due \in BOOLEAN, dropMouse \in BOOLEAN, dropKey \in BOOLEAN :
             TickEffect(mt, due, dropMouse, dropKey)
        BY <1>2, TickForm
    <2>2. /\ videoCycles' = videoCycles + mt /\ mt \in Nat
          /\ mouseSetCycle' = mouseSetCycle /\ kbdSetCycle' = kbdSetCycle
          /\ kbdStrobe' = kbdStrobe
          /\ mouseDataFull' => mouseDataFull /\ ~(videoCycles' - mouseSetCycle > TwoFrames)
          /\ kbdIntPending' => kbdIntPending /\ ~(videoCycles' - kbdSetCycle > TwoFrames)
        <3>1. /\ videoCycles' = videoCycles + mt
              /\ mouseSetCycle' = mouseSetCycle /\ kbdSetCycle' = kbdSetCycle
              /\ kbdStrobe' = kbdStrobe
            BY <2>1 DEF TickEffect
        <3>2. mt \in Nat
            BY AdbConstants
        <3>3. mouseDataFull' => mouseDataFull /\ ~(videoCycles' - mouseSetCycle > TwoFrames)
            BY <2>1 DEF TickEffect, Expired
        <3>4. kbdIntPending' => kbdIntPending /\ ~(videoCycles' - kbdSetCycle > TwoFrames)
            BY <2>1 DEF TickEffect, Expired
        <3>. QED
            BY <3>1, <3>2, <3>3, <3>4
    <2>. QED
        BY <1>0, <2>2
<1>3. ASSUME NEW axes, MousePost(axes) PROVE KeyHasAscii' /\ ValvesHold'
    BY <1>0, <1>3 DEF MousePost
<1>4. CASE KeyDown
    BY <1>0, <1>4 DEF KeyDown
<1>5. CASE CtrlReset \/ PowerCycle
    BY <1>5 DEF CtrlReset, PowerCycle, ResetGlu
<1>6. ASSUME NEW s \in Snapshots, LoadSnapshot(s) PROVE KeyHasAscii' /\ ValvesHold'
    <2>1. s.videoCycles \in Nat /\ (s.kbdIntPending => s.kbdStrobe)
        BY AdbSnapshots, AdbConstants DEF SnapshotType
    <2>. QED
        BY <1>0, <1>6, <2>1 DEF LoadSnapshot
<1>7. CASE UNCHANGED vars
    BY <1>7 DEF vars
<1>. QED
    BY <1>1, <1>2, <1>3, <1>4, <1>5, <1>6, <1>7 DEF Next

LEMMA InputsInvariant == Spec => [](TypeOK /\ InputInv)
<1>1. Init => TypeOK /\ InputInv
    BY InitType DEF Init, InputInv, LineFollowsSources, KeyHasAscii, ValvesHold, Deliver
<1>2. TypeOK /\ InputInv /\ [Next]_vars => (TypeOK /\ InputInv)'
    BY NextType, NextFollows, NextValves DEF InputInv
<1>. QED
    BY <1>1, <1>2, PTL DEF Spec

\* An enabled pending source holds the line, and a held line has a source to
\* acknowledge, whatever the guest enables and whenever it is reset or loaded.
THEOREM LineFollowsSourcesHolds == Spec => []LineFollowsSources
<1>. QED
    BY InputsInvariant, PTL DEF InputInv

\* A pending key event never loses its ASCII.
THEOREM KeyHasAsciiHolds == Spec => []KeyHasAscii
<1>. QED
    BY InputsInvariant, PTL DEF InputInv

\* No sample and no key outlives two frames, power cycles and loads included.
THEOREM ValveBoundsHold == Spec => []ValveBounds
<1>1. InputInv => ValveBounds
    BY DEF InputInv, ValvesHold, ValveBounds
<1>. QED
    BY <1>1, InputsInvariant, PTL

-----------------------------------------------------------------------------
(* The announcement of responses, until the first reset or load.           *)

\* The delay runs exactly while bytes are queued and none is readable.
QueueInv ==
    /\ adbReadyAt # 0 => ~adbDataReady /\ adbRespI = 0 /\ adbRespN > 0
    /\ adbReadyAt = 0 /\ ~adbDataReady => adbRespI = 0 /\ adbRespN = 0
    /\ adbDataReady => adbRespI < adbRespN
    /\ adbReadyAt # 0 =>
         adbReadyAt \in videoCycles + (IF phase = "fetch" THEN 1 ELSE 0)
                        .. videoCycles + ResponseTicks

LEMMA QueueKeeps ==
    ASSUME TypeOK, QueueInv, NEW n \in Nat, AdbQueue(n), phase' = "exec",
           UNCHANGED <<videoCycles, adbDataReady, adbRespI>>
    PROVE  QueueInv'
<1>1. /\ videoCycles \in Nat /\ ResponseTicks \in Nat /\ ResponseTicks > 0
      /\ RespCap \in Nat /\ RespCap > 0 /\ adbRespN \in Nat /\ adbRespI \in Nat
      /\ adbReadyAt \in Nat /\ adbRespN <= RespCap
    BY AdbConstants DEF TypeOK
<1>2. adbRespN' >= adbRespN /\ (n > 0 => adbRespN' > 0) /\ (n = 0 => adbRespN' = adbRespN)
    BY <1>1 DEF AdbQueue
<1>3. CASE n > 0 /\ ~adbDataReady /\ adbReadyAt = 0
    <2>1. adbReadyAt' = videoCycles + ResponseTicks
        BY <1>3 DEF AdbQueue
    <2>. QED
        BY <1>1, <1>2, <1>3, <2>1 DEF QueueInv
<1>4. CASE ~(n > 0 /\ ~adbDataReady /\ adbReadyAt = 0)
    <2>1. adbReadyAt' = adbReadyAt
        BY <1>4 DEF AdbQueue
    <2>2. adbRespN' \in Nat
        BY <1>1 DEF AdbQueue
    <2>. QED
        BY <1>1, <1>2, <1>4, <2>1, <2>2 DEF QueueInv
<1>. QED
    BY <1>3, <1>4

LEMMA NextQueue ==
    ASSUME undisturbed', TypeOK, undisturbed => QueueInv, [Next]_vars
    PROVE  QueueInv'
<1>. QueueInv
    <2>1. undisturbed' => undisturbed
        BY DEF Next, Access, Tick, MousePost, KeyDown, CtrlReset, PowerCycle, ResetGlu,
               LoadSnapshot, vars
    <2>. QED
        BY <2>1
<1> DEFINE Path == <<adbDataReady, adbReadyAt, adbRespN, adbRespI>>
<1>0. /\ videoCycles \in Nat /\ ResponseTicks \in Nat /\ ResponseTicks > 0
      /\ adbRespN \in Nat /\ adbRespI \in Nat /\ adbReadyAt \in Nat
    BY AdbConstants DEF TypeOK
<1>1. ASSUME UNCHANGED <<videoCycles, Path>>, phase' = "exec" \/ phase' = phase
      PROVE  QueueInv'
    BY <1>0, <1>1 DEF QueueInv
<1>2. ASSUME NEW c \in Commands, CommandByte(c), phase' = "exec" PROVE QueueInv'
    <2>1. c.reply \in Nat
        BY AdbConstants DEF CommandType
    <2>. QED
        BY <1>2, <2>1, QueueKeeps DEF CommandByte
<1>3. ASSUME ParamByte, phase' = "exec" PROVE QueueInv'
    <2>1. adbCmd.reply \in Nat
        BY <1>3, AdbConstants DEF ParamByte, TypeOK, CommandType
    <2>. QED
        BY <1>3, <2>1, QueueKeeps DEF ParamByte
<1>4. ASSUME ReadDataReg, phase' = "exec" PROVE QueueInv'
    <2>1. /\ adbDataReady /\ adbReadyAt = 0 /\ adbReadyAt' = 0 /\ adbRespI < adbRespN
        BY <1>4 DEF ReadDataReg, QueueInv
    <2>2. CASE adbRespI + 1 >= adbRespN
        BY <1>0, <1>4, <2>1, <2>2 DEF ReadDataReg, QueueInv
    <2>3. CASE ~(adbRespI + 1 >= adbRespN)
        <3>1. /\ adbRespI' = adbRespI + 1 /\ adbRespN' = adbRespN
              /\ adbDataReady' = ~(adbRespI + 1 >= adbRespN)
            BY <1>4, <2>1, <2>3 DEF ReadDataReg
        <3>2. adbDataReady'
            BY <2>3, <3>1
        <3>. QED
            BY <1>0, <2>1, <2>3, <3>1, <3>2 DEF QueueInv
    <2>. QED
        BY <2>2, <2>3
<1>5. CASE Access
    <2>0. phase' = "exec"
        BY <1>5 DEF Access
    <2>1. ASSUME ReadStatus \/ KeyStatus \/ ReadMouseX \/ ReadMouseY \/ ClearStrobe
                 \/ (\E en : WriteEnables(en)) \/ (\E e, vbl : SetGate(e, vbl))
          PROVE  UNCHANGED <<videoCycles, Path>>
        BY <2>1 DEF ReadStatus, KeyStatus, ReadMouseX, ReadMouseY, ClearStrobe, WriteEnables,
                    SetGate, queue
    <2>. HIDE DEF Path
    <2>. QED
        BY <1>1, <1>2, <1>3, <1>4, <1>5, <2>0, <2>1 DEF Access
<1>6. CASE Tick
    <2>1. PICK mt \in 1 .. MaxTicks, due \in BOOLEAN, dropMouse \in BOOLEAN, dropKey \in BOOLEAN :
             TickEffect(mt, due, dropMouse, dropKey)
        BY <1>6, TickForm
    <2>2. /\ videoCycles' = videoCycles + mt /\ mt \in Nat /\ mt > 0 /\ phase' = "fetch"
          /\ due <=> (adbReadyAt # 0 /\ videoCycles' >= adbReadyAt)
          /\ adbReadyAt' = IF due THEN 0 ELSE adbReadyAt
          /\ adbDataReady' = (adbDataReady \/ due)
          /\ adbRespN' = adbRespN /\ adbRespI' = adbRespI
        BY <2>1, AdbConstants DEF TickEffect, Due
    <2>3. adbDataReady \in BOOLEAN
        BY DEF TypeOK
    <2>4. CASE due
        <3>1. adbReadyAt' = 0 /\ adbDataReady' /\ adbRespI' < adbRespN'
            BY <1>0, <2>2, <2>3, <2>4 DEF QueueInv
        <3>. QED
            BY <3>1 DEF QueueInv
    <2>5. CASE ~due
        <3>1. adbReadyAt' = adbReadyAt /\ adbDataReady' = adbDataReady
            BY <2>2, <2>3, <2>5
        <3>. QED
            BY <1>0, <2>2, <2>5, <3>1 DEF QueueInv
    <2>. QED
        BY <2>4, <2>5
<1>7. ASSUME NEW axes, MousePost(axes) PROVE QueueInv'
    BY <1>1, <1>7 DEF MousePost, queue
<1>8. CASE KeyDown
    BY <1>1, <1>8 DEF KeyDown, queue
<1>9. ~(CtrlReset \/ PowerCycle \/ \E s \in Snapshots : LoadSnapshot(s))
    BY DEF CtrlReset, PowerCycle, ResetGlu, LoadSnapshot
<1>10. CASE UNCHANGED vars
    BY <1>1, <1>10 DEF vars, queue
<1>. QED
    BY <1>5, <1>6, <1>7, <1>8, <1>9, <1>10 DEF Next

\* Until the first reset or load $C026 says data full only with a byte to read,
\* and every queued response is readable within its delay, whatever the order of
\* commands, parameters, reads, keys and motions (a reset breaks it).
THEOREM AnswersHold == Spec => []AnswersAnnounced
<1> DEFINE Inv == undisturbed => QueueInv
<1>1. Init => Inv
    BY DEF Init, QueueInv
<1>2. TypeOK /\ Inv /\ [Next]_vars => Inv'
    BY NextQueue
<1>3. TypeOK /\ Inv => AnswersAnnounced
    BY DEF TypeOK, QueueInv, AnswersAnnounced, FullHasData, ResponseDue
<1>. QED
    BY <1>1, <1>2, <1>3, TypeCorrect, PTL DEF Spec
=============================================================================

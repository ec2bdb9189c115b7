------------------------------- MODULE AdbGlu -------------------------------
(***************************************************************************)
(* The ADB GLU of IIgsMemory.cpp: the $C026 command and parameter machine  *)
(* of the ADB microcontroller, its delayed response queue, the mouse       *)
(* sample and the pending key with their two-frame safety valves, the      *)
(* $C027 interrupt enables, and the CPU line IRQ_SRC_ADB they share.       *)
(*                                                                         *)
(* The CPU makes any number of register accesses ("exec") before tick()    *)
(* closes the instruction; the host posts input, resets and loads          *)
(* snapshots between instructions ("fetch").  Time is absolute, as in the  *)
(* code: a power cycle and a snapshot load move videoCycles backwards.     *)
(***************************************************************************)
EXTENDS Integers, FiniteSets

CONSTANTS
    ResponseTicks,  \* kAdbResponseTicks (2864)
    TwoFrames,      \* the valves' limit (two frames of master ticks)
    MaxTicks,       \* most master ticks one instruction takes
    RespCap,        \* capacity of the response queue (16)
    Commands,       \* microcontroller commands the guest sends
    NoCommand,      \* value of adbCmd before any command
    Enables,        \* bound: $C027 enable bits the guest programs
    MouseAxes,      \* axes the host moves the mouse on; {} = no mouse
    Keys,           \* whether the host types
    HostActions,    \* which of "ctrl", "power" the user performs
    Snapshots,      \* snapshot files the user may load
    MaxCycles       \* bound on videoCycles

\* A command byte: the parameter bytes it takes, the response bytes it queues
\* (after its last parameter), and whether it leaves a bus status byte.
CommandType == [params : 0 .. 8, reply : Nat, status : BOOLEAN]

EnableBits == {"mouse", "data", "kbd"}

ASSUME AdbConstants ==
    /\ ResponseTicks \in Nat \ {0}
    /\ TwoFrames \in Nat
    /\ MaxTicks \in Nat \ {0}
    /\ RespCap \in Nat \ {0}
    /\ MaxCycles \in Nat
    /\ Commands \subseteq CommandType
    /\ NoCommand \notin Commands
    /\ Enables \subseteq EnableBits
    /\ MouseAxes \subseteq {"x", "y"}
    /\ Keys \in BOOLEAN
    /\ HostActions \subseteq {"ctrl", "power"}

VARIABLES
    videoCycles,    \* the master clock
    emulation,      \* the 65816 E flag
    vblEnabled,     \* INTEN bit 3
    adbIntEn,       \* latched $C027 enables
    adbDataReady,   \* DATAREG full
    adbReadyAt,     \* when the queued response becomes readable; 0 = none
    adbStatus,      \* a data-less bus status byte waits at $C026
    adbRespN,       \* bytes queued
    adbRespI,       \* bytes read of them
    adbCmd,         \* the command whose parameters are being taken
    adbParamsLeft,  \* parameter bytes still expected
    mouseDataFull,  \* $C027 bit 7
    mouseReadY,     \* $C027 bit 1: the next $C024 read is Y
    mouseUntold,    \* axes with motion no $C024 read has reported
    mouseSetCycle,  \* when the sample was posted
    kbdIntPending,  \* a key event awaits the handler
    kbdSetCycle,    \* when the key was posted
    kbdStrobe,      \* bit 7 of the $C000 latch
    adbLine,        \* IRQ_SRC_ADB in the CPU's mask
    phase,          \* of the current instruction
    undisturbed     \* history: no reset and no load so far

gate == <<emulation, vblEnabled>>
queue == <<adbReadyAt, adbStatus, adbRespN, adbRespI, adbCmd, adbParamsLeft>>
mouse == <<mouseDataFull, mouseReadY, mouseUntold, mouseSetCycle>>
kbd == <<kbdIntPending, kbdSetCycle, kbdStrobe>>
vars == <<videoCycles, gate, adbIntEn, adbDataReady, queue, mouse, kbd, adbLine, phase,
          undisturbed>>

SnapshotType ==
    [videoCycles : 0 .. MaxCycles, emulation : BOOLEAN, vblEnabled : BOOLEAN,
     adbIntEn : SUBSET Enables, adbDataReady : BOOLEAN,
     mouseDataFull : BOOLEAN, mouseReadY : BOOLEAN, mouseUntold : SUBSET MouseAxes,
     kbdIntPending : BOOLEAN, kbdStrobe : BOOLEAN]

ASSUME AdbSnapshots ==
    /\ Snapshots \subseteq SnapshotType
    /\ \A s \in Snapshots : s.kbdIntPending => s.kbdStrobe

TypeOK ==
    /\ videoCycles \in 0 .. MaxCycles
    /\ emulation \in BOOLEAN /\ vblEnabled \in BOOLEAN
    /\ adbIntEn \subseteq Enables
    /\ adbDataReady \in BOOLEAN /\ adbStatus \in BOOLEAN
    /\ adbReadyAt \in 0 .. MaxCycles + ResponseTicks
    /\ adbRespN \in 0 .. RespCap /\ adbRespI \in 0 .. adbRespN
    /\ adbCmd \in Commands \cup {NoCommand}
    /\ adbParamsLeft \in 0 .. 8
    /\ adbParamsLeft > 0 => adbCmd \in Commands
    /\ mouseDataFull \in BOOLEAN /\ mouseReadY \in BOOLEAN
    /\ mouseUntold \subseteq MouseAxes
    /\ mouseSetCycle \in 0 .. MaxCycles
    /\ kbdIntPending \in BOOLEAN /\ kbdStrobe \in BOOLEAN
    /\ kbdSetCycle \in 0 .. MaxCycles
    /\ adbLine \in BOOLEAN
    /\ phase \in {"fetch", "exec"}
    /\ undisturbed \in BOOLEAN

-----------------------------------------------------------------------------
\* The level updateAdbIrq() gives the line: an enabled source delivers, and the
\* input sources also deliver while the system is up (native, VBL enabled).
Deliver(full, key, ready, en, e, vbl) ==
    \/ full /\ ("mouse" \in en \/ (~e /\ vbl))
    \/ key /\ ("kbd" \in en \/ (~e /\ vbl))
    \/ ready /\ "data" \in en

\* updateAdbIrq() once the sources are full, key and ready and the enables en.
UpdateAdbIrq(full, key, ready, en) ==
    adbLine' = Deliver(full, key, ready, en, emulation, vblEnabled)

Init ==
    /\ videoCycles = 0
    /\ emulation = TRUE /\ vblEnabled = FALSE
    /\ adbIntEn = {} /\ adbDataReady = FALSE
    /\ adbReadyAt = 0 /\ adbStatus = FALSE
    /\ adbRespN = 0 /\ adbRespI = 0
    /\ adbCmd = NoCommand /\ adbParamsLeft = 0
    /\ mouseDataFull = FALSE /\ mouseReadY = FALSE
    /\ mouseUntold = {} /\ mouseSetCycle = 0
    /\ kbdIntPending = FALSE /\ kbdSetCycle = 0 /\ kbdStrobe = FALSE
    /\ adbLine = FALSE
    /\ phase = "fetch" /\ undisturbed = TRUE

-----------------------------------------------------------------------------
(* The microcontroller: $C026 and its queue.                               *)

\* Mutant of AdbQueue: no capacity check.
AdbQueueUnbounded(n) ==
    /\ adbRespN' = adbRespN + n
    /\ adbReadyAt' = IF n > 0 /\ ~adbDataReady /\ adbReadyAt = 0
                     THEN videoCycles + ResponseTicks ELSE adbReadyAt

\* adbQueue() called n times: bytes beyond the capacity are dropped, the first
\* byte of an idle queue starts the response delay.
AdbQueue(n) ==
    /\ adbRespN' = IF adbRespN + n > RespCap THEN RespCap ELSE adbRespN + n
    /\ adbReadyAt' = IF n > 0 /\ ~adbDataReady /\ adbReadyAt = 0
                     THEN videoCycles + ResponseTicks ELSE adbReadyAt

\* A $C026 write while no parameter is expected: a new command byte.
CommandByte(c) ==
    /\ adbParamsLeft = 0
    /\ adbCmd' = c
    /\ adbParamsLeft' = c.params
    /\ AdbQueue(IF c.params = 0 THEN c.reply ELSE 0)
    /\ adbStatus' = (adbStatus \/ c.status)
    /\ UpdateAdbIrq(mouseDataFull, kbdIntPending, adbDataReady, adbIntEn)
    /\ UNCHANGED <<videoCycles, gate, adbIntEn, adbDataReady, adbRespI, mouse, kbd>>

\* A $C026 write while parameters are expected; the last one completes.
ParamByte ==
    /\ adbParamsLeft > 0
    /\ adbParamsLeft' = adbParamsLeft - 1
    /\ AdbQueue(IF adbParamsLeft = 1 THEN adbCmd.reply ELSE 0)
    /\ UpdateAdbIrq(mouseDataFull, kbdIntPending, adbDataReady, adbIntEn)
    /\ UNCHANGED <<videoCycles, gate, adbIntEn, adbDataReady, adbStatus, adbRespI,
                   adbCmd, mouse, kbd>>

\* A $C026 read with DATAREG full takes one byte; the last one empties it.
\* A pending key hides the queue (KeyStatus below).
ReadDataReg ==
    LET i == IF adbRespI < adbRespN THEN adbRespI + 1 ELSE adbRespI
        drained == i >= adbRespN
    IN  /\ ~kbdIntPending /\ adbDataReady
        /\ adbRespI' = IF drained THEN 0 ELSE i
        /\ adbRespN' = IF drained THEN 0 ELSE adbRespN
        /\ adbDataReady' = ~drained
        /\ UpdateAdbIrq(mouseDataFull, kbdIntPending, ~drained, adbIntEn)
        /\ UNCHANGED <<videoCycles, gate, adbIntEn, adbReadyAt, adbStatus, adbCmd,
                       adbParamsLeft, mouse, kbd>>

\* A $C026 read with no data returns the bus status once.
ReadStatus ==
    /\ ~kbdIntPending /\ ~adbDataReady
    /\ adbStatus' = FALSE
    /\ UNCHANGED <<videoCycles, gate, adbIntEn, adbDataReady, adbReadyAt, adbRespN,
                   adbRespI, adbCmd, adbParamsLeft, mouse, kbd, adbLine>>

\* A $C026 read while a key is pending returns the key status, changes nothing.
KeyStatus ==
    /\ kbdIntPending
    /\ UNCHANGED <<videoCycles, gate, adbIntEn, adbDataReady, queue, mouse, kbd, adbLine>>

-----------------------------------------------------------------------------
(* Mouse, keyboard, enables and the system-up gate.                        *)

\* $C027 write: latch the enables.
WriteEnables(en) ==
    /\ adbIntEn' = en
    /\ UpdateAdbIrq(mouseDataFull, kbdIntPending, adbDataReady, en)
    /\ UNCHANGED <<videoCycles, gate, adbDataReady, queue, mouse, kbd>>

\* First $C024 read: X.
ReadMouseX ==
    /\ ~mouseReadY
    /\ mouseReadY' = TRUE
    /\ mouseUntold' = mouseUntold \ {"x"}
    /\ UNCHANGED <<videoCycles, gate, adbIntEn, adbDataReady, queue, mouseDataFull,
                   mouseSetCycle, kbd, adbLine>>

\* Second $C024 read: Y.  Both deltas are zeroed and the sample is consumed.
ReadMouseY ==
    /\ mouseReadY
    /\ mouseReadY' = FALSE
    /\ mouseUntold' = {}
    /\ mouseDataFull' = FALSE
    /\ UpdateAdbIrq(FALSE, kbdIntPending, adbDataReady, adbIntEn)
    /\ UNCHANGED <<videoCycles, gate, adbIntEn, adbDataReady, queue, mouseSetCycle, kbd>>

\* Mutant of ClearStrobe: the key is consumed, the line is not recomputed.
ClearStrobeQuiet ==
    /\ kbdStrobe' = FALSE
    /\ kbdIntPending' = FALSE
    /\ UNCHANGED <<videoCycles, gate, adbIntEn, adbDataReady, queue, mouse, kbdSetCycle,
                   adbLine>>

\* Mutant of ClearStrobe: the key event stays pending.
ClearStrobeOnly ==
    /\ kbdStrobe' = FALSE
    /\ UNCHANGED <<videoCycles, gate, adbIntEn, adbDataReady, queue, mouse, kbdIntPending,
                   kbdSetCycle, adbLine>>

\* $C010, read or write: clears the strobe, consumes a pending key.
ClearStrobe ==
    /\ kbdStrobe' = FALSE
    /\ kbdIntPending' = FALSE
    /\ IF kbdIntPending
       THEN UpdateAdbIrq(mouseDataFull, FALSE, adbDataReady, adbIntEn)
       ELSE UNCHANGED adbLine
    /\ UNCHANGED <<videoCycles, gate, adbIntEn, adbDataReady, queue, mouse, kbdSetCycle>>

\* XCE and $C041: they move the system-up gate and recompute nothing.
SetGate(e, vbl) ==
    /\ emulation' = e
    /\ vblEnabled' = vbl
    /\ UNCHANGED <<videoCycles, adbIntEn, adbDataReady, queue, mouse, kbd, adbLine>>

Access ==
    /\ phase' = "exec" /\ UNCHANGED undisturbed
    /\ \/ \E c \in Commands : CommandByte(c)
       \/ ParamByte
       \/ ReadDataReg
       \/ ReadStatus
       \/ KeyStatus
       \/ \E en \in SUBSET Enables : WriteEnables(en)
       \/ ReadMouseX
       \/ ReadMouseY
       \/ ClearStrobe
       \/ SetGate(~emulation, vblEnabled)
       \/ SetGate(emulation, ~vblEnabled)

-----------------------------------------------------------------------------
(* IIgsMemory::tick: the response delay and the two valves.                *)

\* Mutant of Expired: the valve opens one tick late.
ExpiredLate(pending, set, now) == pending /\ now - set > TwoFrames + 1

\* The valve of a sample posted at `set` opens.
Expired(pending, set, now) == pending /\ now - set > TwoFrames

\* Mutant of Due: the clock must have passed the due time.
DueLate(at, now) == at # 0 /\ now > at

\* adbPromoteResponse(): the scheduled response becomes readable.
Due(at, now) == at # 0 /\ now >= at

Tick ==
    \E mt \in 1 .. MaxTicks :
        LET now == videoCycles + mt
            due == Due(adbReadyAt, now)
            dropMouse == Expired(mouseDataFull, mouseSetCycle, now)
            dropKey == Expired(kbdIntPending, kbdSetCycle, now)
        IN  /\ now <= MaxCycles
            /\ videoCycles' = now
            /\ adbReadyAt' = IF due THEN 0 ELSE adbReadyAt
            /\ adbDataReady' = (adbDataReady \/ due)
            /\ mouseDataFull' = (mouseDataFull /\ ~dropMouse)
            /\ mouseReadY' = (mouseReadY /\ ~dropMouse)
            /\ mouseUntold' = IF dropMouse THEN {} ELSE mouseUntold
            /\ kbdIntPending' = (kbdIntPending /\ ~dropKey)
            /\ IF due \/ dropMouse \/ dropKey
               THEN UpdateAdbIrq(mouseDataFull /\ ~dropMouse, kbdIntPending /\ ~dropKey,
                                 adbDataReady \/ due, adbIntEn)
               ELSE UNCHANGED adbLine
            /\ phase' = "fetch"
            /\ UNCHANGED <<gate, adbIntEn, adbStatus, adbRespN, adbRespI, adbCmd,
                           adbParamsLeft, mouseSetCycle, kbdSetCycle, kbdStrobe, undisturbed>>

-----------------------------------------------------------------------------
(* Host actions, between two instructions.                                 *)

\* mouseMove() on some axes, or mouseButton() changing (no axis).
MousePost(axes) ==
    /\ phase = "fetch"
    /\ mouseUntold' = mouseUntold \cup axes
    /\ mouseSetCycle' = IF mouseDataFull THEN mouseSetCycle ELSE videoCycles
    /\ mouseDataFull' = TRUE
    /\ UpdateAdbIrq(TRUE, kbdIntPending, adbDataReady, adbIntEn)
    /\ UNCHANGED <<videoCycles, gate, adbIntEn, adbDataReady, queue, mouseReadY, kbd, phase,
                   undisturbed>>

\* keyDown(): latch the ASCII with its strobe, post the key event.
KeyDown ==
    /\ phase = "fetch" /\ Keys
    /\ kbdStrobe' = TRUE
    /\ kbdSetCycle' = IF kbdIntPending THEN kbdSetCycle ELSE videoCycles
    /\ kbdIntPending' = TRUE
    /\ UpdateAdbIrq(mouseDataFull, TRUE, adbDataReady, adbIntEn)
    /\ UNCHANGED <<videoCycles, gate, adbIntEn, adbDataReady, queue, mouse, phase,
                   undisturbed>>

\* softReset() of memory and CPU: the response delay and the bus status are not
\* in its list, nor is the time the last sample was posted.
ResetGlu ==
    /\ emulation' = TRUE /\ vblEnabled' = FALSE
    /\ adbIntEn' = {} /\ adbDataReady' = FALSE
    /\ adbRespN' = 0 /\ adbRespI' = 0
    /\ adbCmd' = NoCommand /\ adbParamsLeft' = 0
    /\ mouseDataFull' = FALSE /\ mouseReadY' = FALSE /\ mouseUntold' = {}
    /\ kbdIntPending' = FALSE /\ kbdStrobe' = FALSE
    /\ adbLine' = FALSE /\ undisturbed' = FALSE
    /\ UNCHANGED <<adbReadyAt, adbStatus, mouseSetCycle, kbdSetCycle>>

CtrlReset ==
    /\ phase = "fetch" /\ "ctrl" \in HostActions
    /\ ResetGlu
    /\ UNCHANGED <<videoCycles, phase>>

PowerCycle ==
    /\ phase = "fetch" /\ "power" \in HostActions
    /\ ResetGlu
    /\ videoCycles' = 0
    /\ UNCHANGED phase

\* loadSnapshot(): loadState() recomputes the line before the CPU's E flag is
\* restored; the queue is emptied, its delay and status are left alone.
LoadSnapshot(s) ==
    /\ phase = "fetch"
    /\ videoCycles' = s.videoCycles
    /\ emulation' = s.emulation /\ vblEnabled' = s.vblEnabled
    /\ adbIntEn' = s.adbIntEn /\ adbDataReady' = s.adbDataReady
    /\ adbRespN' = 0 /\ adbRespI' = 0
    /\ adbCmd' = NoCommand /\ adbParamsLeft' = 0
    /\ mouseDataFull' = s.mouseDataFull /\ mouseReadY' = s.mouseReadY
    /\ mouseUntold' = s.mouseUntold
    /\ kbdIntPending' = s.kbdIntPending /\ kbdStrobe' = s.kbdStrobe
    /\ mouseSetCycle' = s.videoCycles /\ kbdSetCycle' = s.videoCycles
    /\ adbLine' = Deliver(s.mouseDataFull, s.kbdIntPending, s.adbDataReady,
                          s.adbIntEn, emulation, s.vblEnabled)
    /\ undisturbed' = FALSE
    /\ UNCHANGED <<adbReadyAt, adbStatus, phase>>

Next ==
    \/ Access \/ Tick
    \/ (\E axes \in SUBSET MouseAxes : MouseAxes # {} /\ MousePost(axes))
    \/ KeyDown \/ CtrlReset \/ PowerCycle
    \/ \E s \in Snapshots : LoadSnapshot(s)

Spec == Init /\ [][Next]_vars

-----------------------------------------------------------------------------
(* Properties.                                                             *)

\* A pending source whose own $C027 enable is set always holds the line
\* ("a source whose $C027 interrupt-ENABLE bit is set always delivers",
\* IIgsMemory.cpp:405-406), and the line is never held with nothing pending,
\* which no handler could acknowledge: through resets, loads, valves and reads.
LineFollowsSources ==
    /\ Deliver(mouseDataFull, kbdIntPending, adbDataReady, adbIntEn, TRUE, FALSE) => adbLine
    /\ adbLine => mouseDataFull \/ kbdIntPending \/ adbDataReady

\* A pending key event always finds its ASCII strobed at $C000.
KeyHasAscii == kbdIntPending => kbdStrobe

\* Between instructions no sample and no key is older than two frames, so a
\* source nobody services cannot hold the line for longer; also when the
\* clock has been moved back by a power cycle or a load.
ValveBounds ==
    phase = "fetch" =>
        /\ mouseDataFull => videoCycles - mouseSetCycle \in 0 .. TwoFrames
        /\ kbdIntPending => videoCycles - kbdSetCycle \in 0 .. TwoFrames

\* DATAREG is full only with a response byte to read
\* (IIgsMemory.cpp:466-467).
FullHasData == adbDataReady => adbRespI < adbRespN

\* A queued response is readable, or becomes so within kAdbResponseTicks
\* (IIgsMemory.h:434-436).
ResponseDue ==
    adbRespI < adbRespN /\ ~adbDataReady =>
        adbReadyAt \in videoCycles + (IF phase = "fetch" THEN 1 ELSE 0)
                       .. videoCycles + ResponseTicks

\* On a machine never reset or loaded, $C026 says data full only with a byte to
\* read, and a queued byte is announced within its delay, whatever the guest
\* sends or leaves unread meanwhile (a reset breaks it).
AnswersAnnounced == undisturbed => FullHasData /\ ResponseDue

=============================================================================

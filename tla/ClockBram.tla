----------------------------- MODULE ClockBram -----------------------------
(***************************************************************************)
(* The clock chip and its battery: the serial transaction behind $C033 and *)
(* $C034, the settable seconds counter, the battery RAM, and the file that *)
(* carries both across runs of the program (states/bram.bin), saved by the *)
(* main loop some frames after a change and at exit, across quick loads,   *)
(* resets and a killed process.  A byte has Radix values, the counter      *)
(* ClockBytes of them.                                                     *)
(***************************************************************************)
EXTENDS Integers, Sequences

CONSTANTS
    Addresses,  \* cells of the battery RAM that the guest's bytes reach
    Radix,      \* values of a byte (256)
    ClockBytes, \* bytes of the seconds counter (4)
    SavePeriod, \* frames with unsaved changes before a save (300)
    Bytes,      \* bound: bytes the guest stores in $C033
    HostTimes,  \* bound: host times, in seconds, the program lives to see
    Snapshots   \* bound: quick saves made earlier: [state, src, data, addr, reg,
                \* internal, bram, sent]

\* A command byte's register and group.
Reg(cmd) == (cmd \div 4) % 4
Op(cmd) == (cmd \div 16) % 8
Extended(cmd) == Op(cmd) = 3 /\ Reg(cmd) >= 2

\* The cell the bytes of a transaction name, as the comment above
\* clockStrobe() tabulates them.
Named(bytes) ==
    IF Len(bytes) = 2 THEN 32 * (bytes[1] % 8) + ((bytes[2] \div 4) % 32)
    ELSE IF Op(bytes[1]) = 2 THEN 16 + Reg(bytes[1])
    ELSE (bytes[1] \div 4) % 16

\* What a chip in this state remembers of the bytes sent since it was idle.
Remembers(state, src, addr, reg, bytes) ==
    /\ state \in {"idle", "addr", "data"} /\ src \in {"seconds", "internal", "bram"}
    /\ bytes = <<>> <=> state = "idle"
    /\ state = "addr" =>
         Len(bytes) = 1 /\ Extended(bytes[1]) /\ src = "bram" /\ addr = 32 * (bytes[1] % 8)
    /\ state = "data" /\ src = "bram" => addr = Named(bytes)
    /\ state = "data" /\ src = "seconds" =>
         Len(bytes) = 1 /\ Op(bytes[1]) = 0 /\ reg = Reg(bytes[1])

\* A quick save was made by this program: its chip is one the program can be in.
ASSUME ClockAssumption ==
    /\ Addresses \subseteq Nat
    /\ Radix \in Nat \ {0} /\ ClockBytes \in 1 .. 4 /\ SavePeriod \in Nat \ {0}
    /\ Bytes \subseteq 0 .. Radix - 1 /\ HostTimes \subseteq Nat
    /\ \A s \in Snapshots :
         /\ Remembers(s.state, s.src, s.addr, s.reg, s.sent)
         /\ s.data \in 0 .. Radix - 1 /\ s.reg \in 0 .. 3 /\ s.addr \in 0 .. 255
         /\ s.sent \in Seq(0 .. Radix - 1)
         /\ s.internal \in [0 .. 1 -> 0 .. Radix - 1]
         /\ s.bram \in [Addresses -> 0 .. Radix - 1]

VARIABLES
    clkState, clkSrc, clkData, clkAddr, clkReg,     \* the transaction
    clkInternal,        \* test and write-protect registers
    bram, rtcOffset,    \* battery RAM; seconds the guest is off the host
    bramDirty, bramSaveTick,
    bramFile,           \* states/bram.bin: [whole], and its contents when it is
    hostTime,
    sent,               \* the bytes of the transaction since it was idle
    replaced            \* a quick load replaced the battery RAM since a save

chip == <<clkState, clkSrc, clkData, clkAddr, clkReg, clkInternal>>
battery == <<bram, rtcOffset, bramDirty>>
clockVars == <<chip, battery, bramSaveTick, bramFile, hostTime, sent, replaced>>

\* What byte n of the counter counts, and the counter's width.
Place(n) ==
    CASE n = 0 -> 1
      [] n = 1 -> Radix
      [] n = 2 -> Radix * Radix
      [] n = 3 -> Radix * Radix * Radix
      [] n = 4 -> Radix * Radix * Radix * Radix
Wrap == Place(ClockBytes)
Blank == [a \in Addresses |-> 0]

\* rtcSeconds() and rtcByte(): modulo the counter's width.
rtcSeconds == (hostTime + rtcOffset) % Wrap
rtcByte(n) == (rtcSeconds \div Place(n)) % Radix

\* rtcWriteByte(): the offset that makes byte n read v now.  The counter only
\* uses the offset modulo its width, so it is kept so.
rtcWriteByte(n, v) == (rtcOffset + (v - rtcByte(n)) * Place(n)) % Wrap

\* What loadBram() leaves in the chip: a missing or malformed file changes
\* nothing of what the program starts with.
NoFile == [whole |-> FALSE]
Restored(f) == IF f.whole THEN [bram |-> f.bram, offset |-> f.offset]
               ELSE [bram |-> Blank, offset |-> 0]

\* What saveBram() writes.
Written == [whole |-> TRUE, bram |-> bram, offset |-> rtcOffset]

ClockInit ==
    /\ clkState = "idle" /\ clkSrc = "seconds" /\ clkData = 0 /\ clkAddr = 0 /\ clkReg = 0
    /\ clkInternal = [r \in 0 .. 1 |-> 0]
    /\ bramFile = NoFile
    /\ bram = Restored(bramFile).bram /\ rtcOffset = Restored(bramFile).offset
    /\ bramDirty = FALSE /\ bramSaveTick = 0
    /\ hostTime = 0 /\ sent = <<>> /\ replaced = FALSE

-----------------------------------------------------------------------------
(* The transaction.                                                        *)

\* $C033
WriteData(v) ==
    /\ clkData' = v
    /\ UNCHANGED <<clkState, clkSrc, clkAddr, clkReg, clkInternal, battery, bramSaveTick,
                   bramFile, hostTime, sent, replaced>>

\* A command strobe picks the target; a read strobe here is ignored.
CommandStrobe(rd) ==
    /\ clkState = "idle"
    /\ IF rd THEN UNCHANGED <<clkState, clkSrc, clkAddr, clkReg, sent>>
       ELSE LET cmd == clkData
            IN  /\ sent' = <<cmd>>
                /\ clkState' = IF Extended(cmd) THEN "addr" ELSE "data"
                /\ clkSrc' = IF Extended(cmd) \/ Op(cmd) \notin {0, 3} THEN "bram"
                             ELSE IF Op(cmd) = 0 THEN "seconds" ELSE "internal"
                /\ clkAddr' = CASE Extended(cmd) -> 32 * (cmd % 8)
                                [] Op(cmd) = 2 -> 16 + Reg(cmd)
                                [] Op(cmd) \in {1, 4, 5, 6, 7} -> 4 * (Op(cmd) % 4) + Reg(cmd)
                                [] OTHER -> clkAddr
                /\ clkReg' = IF Op(cmd) \in {0, 3} /\ ~Extended(cmd) THEN Reg(cmd) ELSE clkReg
    /\ UNCHANGED <<clkData, clkInternal, battery>>

\* The second byte of an extended address, whatever its direction bit says.
AddressStrobe ==
    /\ clkState = "addr"
    /\ clkAddr' = clkAddr + ((clkData \div 4) % 32)
    /\ clkState' = "data"
    /\ sent' = Append(sent, clkData)
    /\ UNCHANGED <<clkSrc, clkData, clkReg, clkInternal, battery>>

\* The data byte: the strobe's direction counts, not the command's.
DataStrobe(rd) ==
    /\ clkState = "data"
    /\ clkState' = "idle" /\ sent' = <<>>
    /\ IF rd
       THEN /\ clkData' = CASE clkSrc = "seconds" -> rtcByte(clkReg)
                            [] clkSrc = "internal" -> clkInternal[clkReg % 2]
                            [] clkSrc = "bram" -> bram[clkAddr]
            /\ UNCHANGED <<clkInternal, battery>>
       ELSE /\ bram' = IF clkSrc = "bram" THEN [bram EXCEPT ![clkAddr] = clkData] ELSE bram
            /\ rtcOffset' = IF clkSrc = "seconds" THEN rtcWriteByte(clkReg, clkData)
                            ELSE rtcOffset
            /\ bramDirty' = (bramDirty \/ bram' # bram \/ clkSrc = "seconds")
            /\ clkInternal' = IF clkSrc = "internal"
                              THEN [clkInternal EXCEPT ![clkReg % 2] = clkData]
                              ELSE clkInternal
            /\ UNCHANGED clkData
    /\ UNCHANGED <<clkSrc, clkAddr, clkReg>>

\* $C034 with bit 7 set; bit 6 is the direction.
Strobe(rd) ==
    /\ CommandStrobe(rd) \/ AddressStrobe \/ DataStrobe(rd)
    /\ UNCHANGED <<bramSaveTick, bramFile, hostTime, replaced>>

\* Mutant of ResetChip: the transaction survives.
ResetChipOpen ==
    /\ clkData' = 0 /\ sent' = <<>>
    /\ UNCHANGED <<clkState, clkSrc, clkAddr, clkReg, clkInternal, battery, bramSaveTick, bramFile,
                   hostTime, replaced>>

\* /RESET and power cycle: the battery keeps memory and clock.
ResetChip ==
    /\ clkState' = "idle" /\ clkData' = 0 /\ sent' = <<>>
    /\ UNCHANGED <<clkSrc, clkAddr, clkReg, clkInternal, battery, bramSaveTick, bramFile,
                   hostTime, replaced>>

\* loadState(): the transaction and the battery RAM, not the clock's offset,
\* and without the dirty mark.
LoadSnapshot(s) ==
    /\ clkState' = s.state /\ clkSrc' = s.src /\ clkData' = s.data /\ clkAddr' = s.addr
    /\ clkReg' = s.reg /\ clkInternal' = s.internal /\ bram' = s.bram
    /\ sent' = s.sent /\ replaced' = TRUE
    /\ UNCHANGED <<rtcOffset, bramDirty, bramSaveTick, bramFile, hostTime>>

-----------------------------------------------------------------------------
(* The host.                                                               *)

\* Mutant of SaveBram: the mark is dropped before the file is open.
SaveBramForgets(opens) ==
    /\ bramFile' = IF opens THEN Written ELSE bramFile
    /\ bramDirty' = FALSE /\ replaced' = FALSE

\* saveBram(): when the file cannot be opened the mark stays.
SaveBram(opens) ==
    IF opens
    THEN /\ bramFile' = Written
         /\ bramDirty' = FALSE /\ replaced' = FALSE
    ELSE UNCHANGED <<bramFile, bramDirty, replaced>>

\* The end of a video frame in main(): the count runs only while dirty.
Frame(opens) ==
    /\ bramSaveTick' = IF bramDirty THEN (bramSaveTick + 1) % SavePeriod ELSE bramSaveTick
    /\ IF bramDirty /\ bramSaveTick' = 0 THEN SaveBram(opens)
       ELSE UNCHANGED <<bramFile, bramDirty, replaced>>
    /\ UNCHANGED <<chip, bram, rtcOffset, hostTime, sent>>

\* A new process: chip and registers as after power-on, memory from the file.
Restart(f) ==
    /\ bramFile' = f
    /\ bram' = Restored(f).bram /\ rtcOffset' = Restored(f).offset
    /\ clkState' = "idle" /\ clkSrc' = "seconds" /\ clkData' = 0 /\ clkAddr' = 0 /\ clkReg' = 0
    /\ clkInternal' = [r \in 0 .. 1 |-> 0]
    /\ bramDirty' = FALSE /\ bramSaveTick' = 0 /\ sent' = <<>> /\ replaced' = FALSE
    /\ UNCHANGED hostTime

\* The user quits: main() saves what is dirty.
Quit == Restart(IF bramDirty THEN Written ELSE bramFile)

\* What a save that never ended leaves: a file cut short, which loadBram()
\* refuses unless it lacks no more than the offset.
CutFiles == {NoFile, [Written EXCEPT !.offset = 0]}

\* The process is killed, at worst in a save.
Killed == \E f \in {bramFile} \cup (IF bramDirty THEN CutFiles ELSE {}) : Restart(f)

HostClock(t) ==
    /\ t > hostTime
    /\ hostTime' = t
    /\ UNCHANGED <<chip, battery, bramSaveTick, bramFile, sent, replaced>>

ClockNext ==
    \/ \E v \in Bytes : WriteData(v)
    \/ \E rd \in BOOLEAN : Strobe(rd)
    \/ ResetChip \/ Quit \/ Killed
    \/ \E t \in HostTimes : HostClock(t)
    \/ \E s \in Snapshots : LoadSnapshot(s)
    \/ \E opens \in BOOLEAN : Frame(opens)

ClockSpec == ClockInit /\ [][ClockNext]_clockVars

-----------------------------------------------------------------------------
(* Properties.                                                             *)

\* The program has just been started.
Fresh == [bram |-> bram, offset |-> rtcOffset] = Restored(bramFile) /\ sent = <<>>

\* A battery cell or the clock changes only by the data strobe of a whole
\* transaction, begun since the last reset, and only what its bytes named; a
\* clock byte set reads back at once and leaves the other bytes alone.
TransactionStep ==
    /\ bram' # bram =>
         \/ /\ sent # <<>> /\ Named(sent) \in Addresses
            /\ bram' = [bram EXCEPT ![Named(sent)] = clkData]
         \/ Fresh' \/ \E s \in Snapshots : bram' = s.bram /\ sent' = s.sent
    /\ rtcOffset' # rtcOffset =>
         \/ /\ Len(sent) = 1 /\ Op(sent[1]) = 0
            /\ \A n \in 0 .. ClockBytes - 1 :
                 rtcByte(n)' = IF n = Reg(sent[1]) THEN clkData ELSE rtcByte(n)
         \/ Fresh'
TransactionsExact == [][TransactionStep]_clockVars

\* The battery memory and the clock are what a restart brings back, except for
\* changes still marked dirty and a quick load not followed by a save.
BatteryKept ==
    bramDirty \/ replaced \/ Restored(bramFile) = [bram |-> bram, offset |-> rtcOffset]

=============================================================================

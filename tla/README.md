# TLA+ models of POMIIGS

POMIIGS (`src/`) is an Apple IIgs emulator. This directory holds TLA+ models of
the parts whose correctness depends on order, interleaving, time and history,
the TLC runs that check them on small instances, and TLAPS proofs for every
value of the constants. `PROJECT.json` lists the components, runs, mutants,
line map, findings, hazards and theorems.

## 1. Inventory

The emulator thread runs one frame at a time (`main.cpp:448-466`): while less
than 238 944 master ticks have passed, `CPU65816::run(1)` executes one
instruction through `IIgsMemory::read8/write8` and `IIgsMemory::tick` advances
the beam, the DOC and the ADB delays by what it cost; then `frameTick` counts
the slow timers, battery RAM may be saved, and `AudioOut::mixFrame` pushes a
frame of sound. Input events, resets, media swaps and snapshots are handled
between two frames, on the same thread. The only other thread is the audio
device's callback.

| Component | State | Operations | Hard behaviour | What makes it correct |
|---|---|---|---|---|
| Interrupt lines, beam, slow timers (`IIgsMemory`, `CPU65816`, `Es5503`) | Mega II and VGC flag/enable registers, DOC pending bits, mirrored DOC level, CPU source mask, master clock, last line | a dozen register handlers, `tick`, `frameTick`, `serviceInt`, WAI, resets, load | several register accesses before the CPU samples; edges against remembered values; clock and remembered line reset separately | a line is the level of its registers; latches set exactly on the beam's entry; WAI ends |
| ADB GLU (`IIgsMemory`) | command/parameter machine, response queue with a due time, mouse sample, pending key, enables, shared line | `$C026/$C024/$C027/$C010`, host input, `tick`, resets, load | delayed response against polling; two-frame valves; absolute time stamps across a clock that goes back | full means data; a response is always on its way; no source outlives its valve; the line follows its sources |
| Sony 3.5" drive (`Sony35`, called by `Iwm`) | nibble tracks, write session, dirty marks, sector image, WOZ bits, path, flags; the host's files | write/read nibble, step, motor, flush, eject, load | writes pending in two stages; swap while dirty; undecodable tracks; two container formats | an image holds what the guest wrote, in its own format; nothing else is touched |
| IWM controller, 5.25" drive (`Iwm`) | phases, ENABLE, drive select, Q6/Q7, mode, 5.25" session | 16 soft switches, `$C031` | sessions closed by another family's switch | a session never leaks to another drive or track |
| 5.25" image library (`DiskImage`) | tracks, flux, dirty tracks, format | load, flux write, save | twelve formats, partial re-encode | what is saved decodes to what was written |
| SmartPort HLE, block device (`IIgsMemory`, `ProDosHdd`) | mounted images, media-change one-shots | WDM traps, status, block calls, control | swap against status polls | the change is reported exactly once, to an access |
| Memory map (`IIgsMemory`) | soft switches, language card, shadow register | `read8/write8/ioRead/ioWrite` | pre-write counters, mirrored banks | a location has one cell; reads see writes |
| Bus timing (`Mega2Timing.h`, `IIgsMemory`) | cursor, penalty, phase | charge fast/slow/IO, internal cycles | slow cycles aligned to a 65-cycle line with one long cycle | the clock lands on the grid; nothing is charged twice |
| Clock chip, battery RAM (`IIgsMemory`, `main.cpp`) | serial state, BRAM, dirty mark | `$C033/$C034`, save, load | multi-byte protocol; save policy | a change reaches the file |
| DOC (`Es5503`) | oscillators, accumulators, registers | register access, `step1`, halt/swap/sync | end-of-wave ordering between partners | modes swap and stop as documented |
| SCC (`Scc8530`) | register pointer, loopback | read/write | pointer protocol | pointer returns to 0 |
| CPU (`CPU65816`) | registers, flags, interrupt inputs | instructions | mode-dependent widths, decimal | results equal the reference |
| Snapshots (`Snapshot`, `saveState/loadState`) | a file | save, load | partial load; derived state | the resumed machine behaves as the saved one |
| Audio (`Audio`) | SPSC ring, atomic indices | `push`, `pull`, `mixFrame` | two threads, index wrap, stale loads, late prefill | a bounded FIFO, no slot raced |
| Video (`VGC`), UI, configuration, logging, `TwoImg` | none that outlives a call, or host I/O | | | not modelled |

## 2. Modules

| Module | Models | Proved in |
|---|---|---|
| `MegaIrq` | interrupt lines, beam, timers, CPU sampling and WAI, resets, snapshot load | `MegaIrq_proofs` |
| `AdbGlu` | the ADB GLU and its interrupt line, resets, snapshot load | `AdbGlu_proofs` |
| `MemoryMap` | which cell a CPU read or write reaches under every switch | `Bus_proofs` |
| `BusTiming` | what every bus cycle costs, and what `tick()` bills | `Bus_proofs` |
| `ClockBram` | the clock chip's serial transactions, battery RAM and its file | `Storage_proofs` |
| `SmartPort` | block calls, streaming window, write-through, swaps | `Storage_proofs` |
| `Alu816` | the accumulator's arithmetic at both widths | `Alu816_proofs` |
| `Cpu816` | modes, register widths, stack, interrupts, calls and returns | `Cpu816_proofs` |
| `Scc8530` | the serial chip | |
| `SnapshotFile` | quick save and load as a stream; extends `Scc8530` | `Storage_proofs` |
| `Media` | what the drives share: contents a decoder tells apart, the write-back policy | |
| `MediaStore` | abstract: what a drive promises the owner of the images | |
| `Sony35` | the 3.5" drive; refines `MediaStore` for raw images | `Drives_proofs` |
| `Disk525` | IWM lines, arm, write session, load, save and eject of 5.25" images | `Drives_proofs` |
| `Gcr` | nibblizing, decoding and saving a track, 6-and-2 and 5-and-3 | |
| `CellSplice` | bit cells under the head, and a write session spliced into them | |
| `SampleQueue` | abstract: the bounded FIFO of sound | |
| `AudioRing` | the ring and its two threads; refines `SampleQueue` | `AudioRing_proofs` |

`MC*.tla` give the constants small values; `<module>_<question>.cfg` are the runs.
Operators named "Mutant of X" stand before `X`. Each is a plausible bug that the
listed property must catch; no specification uses them.

Three MC modules hold several benches side by side, each a different question
with its own instance: `MCAdbBenches` (variable `bench`), `MCDrives` and
`MCBoard` (variable `part`). `MCAdbBenches` instantiates `AdbGlu` twice, and
`MCBoard` extends the modules of its seven parts, so that their properties are
checked as they stand, or, for `AluWidths`, `MapRestored` and `MapInPlace`, in their own
part only (the machine of `SnapshotFile` is 0 in the other parts, to
keep their states small). `MCDrives` extends `Sony35` and `Disk525` and instantiates
`Gcr`, `CellSplice` and a second `Sony35`. The bench is chosen in the initial state and never
changes; the variables of the others stay as they start. A behaviour is thus a
behaviour of one component, and nothing is claimed of how the benches of one
module interact: those components share no state, and where two do (the CPU's
sampling and the lines, ADB time and `tick`, the drives and the write-back
policy) the shared part is inside one module.

### MegaIrq

One instruction is three phases: `fetch` (the CPU samples its input:
`ServiceInt`, `WaiPoll` or `Begin`), `exec` (any number of register accesses,
then `Retire`, which may change I or park the CPU), `tick`. Host actions
(`FrameTick`, `CtrlReset`, `PowerCycle`, `LoadSnapshot`) happen in `fetch`. The
code takes them between frames only; the model allows them between any two
instructions, which covers every frame length. `irqSourceMask` is the wire-OR
mask of `CPU65816::setIrqLine`; each handler assigns the registers and runs
`updateMega2Irq`, `updateVgcIrq` or `mirrorDocIrq` exactly where the code does.
The video clock is kept modulo a frame. `DocRead` abstracts the `$E0` read to
"acknowledge the lowest pending oscillator or not"; what makes an oscillator end
is a free choice among the enabled ones. A `Tick` passes up to `MaxTicks`, more
than a line: a WDM block call reads or writes its 512 bytes, and its parameters,
through `read8` and `write8`, which bill every slow or shadowed one to the
instruction's tick (`IIgsMemory.cpp:212-218`, `:668-671`, `:727-728`).

### AdbGlu

Accesses (`exec`) precede the `Tick` that closes the instruction. Commands are
records: parameters taken, bytes queued, whether a bus status byte is left. Time
is absolute, because the bugs of this component live in time stamps that survive
a change of the clock. `mouseUntold` is the set of axes with motion the guest
has not been told. `undisturbed` is a history: no reset and no snapshot load yet.

### Sony35 and MediaStore

A track's contents are one value: good (decodes to sectors), `Bad`, or `Blank`
(absent in a WOZ). Writing has three stages, all kept: the open session, the
nibble track with its dirty mark, the host file. `Landed`, `LandedDirty`,
`Decoded`, `Commit` are `endWrite()`, the decoder and the file half of
`flush()`; every action that calls `flush()` in the code is built from them in
the code's order, so that `InsertRaw` reads the file first, clears `wozBacked`,
flushes, and only then takes the new medium. A bad track's sectors after a flush
are any good value: some old sectors, some new. `Seen` maps a drive to
`MediaStore`: the mounted image is its tracks with the open session laid over,
the others are their files. `WriteHead` maps the open session to the store's
`head`: a guest writes the track under the head and no other, so that an eject
or insert that drops an open session or a dirty track is no step of the store.
`flush()` ignores a host write that fails, like the 5.25" one
(`Sony35.cpp:119-124`); such failures are modelled in `Disk525`, not here.

### AudioRing and SampleQueue

Every atomic load and store and every slot copied is a step, so the two threads
interleave at the grain the memory model sees. An acquire load may return any
index between the last one the thread saw and the current one: C++ coherence
promises no more. Indices wrap at `Wrap`, slots at `Size`, as the code's
`uint32_t` and mask do. `Published` maps the ring to the queue.

### MemoryMap

`ReadHome` and `WriteHome` are `read8` and `write8` as functions from an address
to the cell it reaches: fast RAM, slow RAM, ROM, I/O, slot ROM or nothing.
`ShadowCells` is the further slow cell a write is copied to. `Decode` is the
part the two handlers write out twice; they differ in the `writing` argument of
`physBank01` and in the language card's enable. Offsets are the classes the
decoder compares against, `$D0` cut off so that the folding of the language
card's two `$Dxxx` banks into `$C000-$CFFF` lands on a class. The actions are
the register accesses that move the switches. `lcTrail` is a history variable:
the odd `$C08x` accesses since the last even one, at most `MaxTrail` of them.

### BusTiming

`clock` is `videoCycles_` at the instruction's start. `Charge` is `chargeFast`
and `chargeSlow`: only an instruction whose first cycle was fast moves the
cursor, a slow one is walked over the grid by `Tick` at its end. `Kind` says
which of the two a region gets; `StoreSpeed` is charged before it takes effect,
as in `write8`. `VectorPull` counts a cycle it never charges, and `Copy`, the
host's copy in a block call, charges accesses that are no cycles: both are in
the code, and the invariant the proofs rest on names them.

### ClockBram

`Strobe` is `clockStrobe()`: which byte of a transaction `$C033` holds is in
`clkState`. `sent` is a history variable, the bytes since the chip was idle;
`replaced` remembers a quick load since the last save. `Frame` counts the
`SavePeriod` frames after a change; `Killed` ends the program between two steps
or inside a save, `Restart` starts it on what the file then holds. A save cut
short leaves no file that loads, or all of the battery memory without the clock's
offset (`CutFiles`), because `loadBram()` asks for the first and takes the second
when it is there. `saveBram()` looks at the stream before it closes it: a disk
that fills up at the close is not modelled. A quick save is one the program could
have made: `Remembers` ties its chip registers to the bytes sent.

### SmartPort

Both devices write through to `store` when their last byte of a block arrives.
`BlockIo` is the trap's read and write, with the one-shots in the order the code
tests them. `known` is the medium the guest last identified: the guest is one
that believes what it is told, and `NoStaleIo` says it is told in time.
Nothing in `main.cpp:248-270` or `IIgsMemory.h:180-204` keeps one file out of
both devices, and the model has no such guard either: each device keeps the copy
it loaded, a block one of them writes is stale in the other. `behind35` and
`behindHdd` are histories of those blocks; `WriteThrough` exempts them, and
requires that nothing else is stale and that no write of a device undoes
another's block.

### Alu816 and Cpu816

`Alu816` is the arithmetic as operators from accumulator, flags and operand to
accumulator and flags, and a machine that applies them in any order to `a` and
`accP`, the flags the accumulator's instructions read or write. `DecimalExact`
(`SumExact`, `DifferenceExact`) compares them with decimal arithmetic done on
numbers, `WidthsAgree` (`SumsAgree`, `DifferencesAgree`, `RotationsAgree`) a word
operation with its two byte operations chained.
`Cpu816` keeps of P the flags that decide widths and interrupts. `frames` is a
history of calls and interrupts under way, with what their return must restore;
`Recoverable` names what the 65816 itself does not keep: the bank in a short call
and in an emulation-mode interrupt, and the return bytes of a long call made
from emulation mode within three bytes of the bottom of page 1.

### SnapshotFile

A file is a sequence of cells, put by `QuickSave` and taken back by position
by `QuickLoad`. Past the end, a read leaves what was there, as in the code, and
the stream is looked at once, before the media. A save may be cut short
anywhere. `Refused` files (magic, version, RAM size) change nothing. `lines` has
the three kinds of interrupt line as `DriveLines` leaves them at the end of a
load: the timers' from the registers restored, the ADB's from them and the mode
of the processor before the load, and the DOC's raised if the DOC asks and
otherwise left as it was. What `LoadHonest` says of a stuck DOC line is
therefore nothing; `MegaIrq_doc_load` is about it.

### Disk525, Gcr and CellSplice

Three grains of the same disk. `Disk525` has one value per sector and every soft
switch: an access moves a line, and may step the arm, close a session, commit it,
put a byte in it. A save composes a whole file, from clean bytes and decoded
dirty tracks. `FlushDisk525` is declined (protected, write-back off, nothing
dirty), whole, refused (`saveDirty()` cannot open the file) or short (the file is
cut before any of its tracks): the last two leave the marks and are told to
nobody (`Iwm.cpp:39-43`), and the next flush tries again. A WOZ or `.nib` retry
writes the whole file from memory; a sector image is read back first, and what
the short write cut off is zeros (`DiskImage.cpp:2146-2161`). `saveResult` and
`cutShort` are histories of it. A write error the host reports only at the
close, after `saveDirty()` has looked at the stream, is not modelled, nor is a
short write that loses only a trailer. `home` maps a half track to
its TRK, so that a WOZ may leave positions without data, and `flux` marks those
that come from a flux capture. `Gcr` is one track as nibbles, with the
writer's tables and the decoder's scan, a guest that rewrites sectors, and a
fault that damages a nibble; `CellSplice` is one track as bit cells, with the
flux times of a session and where they land.

## 3. Runs

| Run | Question | Bounds |
|---|---|---|
| `MegaIrq_beam` | are the VBL and scan latches exact, and do all lines follow the registers | 4 lines of 2 ticks, ticks of up to 3 (two lines entered at once, over the blank's first and the end of the frame), two oscillators, both timers, SCB writable on the first line and in the border |
| `MegaIrq_wai` | does WAI end, and are lines right through snapshot loads | `LiveSpec`; three snapshots: quiet, timers up, DOC pending |
| `MegaIrq_doc_load` | finding | as above |
| `AdbGlu_benches` | bench `command`: command, delay, queue; bench `desk`: the shared line, keys, mouse, valves | five command shapes, a queue of three bytes, a delay of two ticks; all enables, both resets, two snapshots, one command |
| `AdbGlu_reset_full` | finding | one command, Ctrl-Reset |
| `Drives_media` | parts `store` (3.5" refinement and durability), `sealed` (write-back off), `drive525`, `track`, `cells` | below |
| `Sony35_woz_lost`, `Sony35_woz_raw` | findings | one WOZ; a raw image and a WOZ |
| `AudioRing_fifo` | FIFO, races | four slots, indices modulo 8, frames of 1-3, periods of 1-2 |
| `Board_parts` | parts `map`, `bus`, `clock`, `port`, `alu`, `cpu`, `file` | below |
| `Snapshot_torn`, `Snapshot_serial` | findings | one serial port, one disk, two machine states, five steps |

Bounds of `Drives_media`:

- `store`: two raw images mounted writable or read-only, two cylinders, tracks 0
  and 3 written (one on each cylinder and side), two good values and a bad one.
- `sealed`: a raw and a WOZ image with a blank and a bad track, reinserted over
  themselves, write-back off.
- `drive525`: two whole tracks and the half track between them, two sectors of
  which the guest writes the first; the user mounts from one of five shelves
  (`Desks`): a `.dsk` in 2IMG, whose sector the guest may make undecodable; a
  plain sector image and a WOZ, both on a host that may refuse or cut short any
  save; a `.nib` with a trailer on such a host, swapped with a protected sector
  image; and a WOZ on a sound host. The WOZ has a FLUX capture of track 0 and a
  TRK for the half track. The only store is to `$C0ED`; the drive line and 35SEL
  move over the last shelf only (`Quiet`), because what they do does not look at
  the image.
- `track`: track 17 with sectors of 7 bytes (6-and-2) or 6 (5-and-3); sector 5
  rewritten; one damaged nibble in its data field.
- `cells`: nibbles of four cells, sync gaps of two nibbles, one wrapping the
  index; sessions of up to three bytes.

Bounds of `Board_parts`:

- `map`: six fast banks, four with RAM, ROM 03; `SHADOW` as the reset leaves it, or
  with the hi-res pages, text page 2 and the I/O window out; three `STATEREG` values
  a guest uses; three odd `$C08x` accesses in a row.
- `bus`: instructions of up to five cycles that begin within 30 ticks of the
  clocks 0, 36 and 870 (the start of a line, the first refresh, the last slots of
  a line with the long one), block copies within 20 ticks.
- `clock`: the battery cells 0, 2, 14 and 18, reached by the byte `$38`, a counter
  of two bytes, a save every two frames.
- `port`: a writable and a protected image of one two-byte block, and one too
  short for a block, which is mounted as the hard disk only; the writable one may
  be in both devices. The guest writes one value to the 3.5" drive and streams one
  to the hard disk.
- `alu`: six accumulators and two operands at nibble, sign and carry boundaries,
  decimal and not.
- `cpu`: the stack pointer one byte above the end of its page, two nested frames,
  four instructions.
- `file`: one port, queues of one byte, one disk, four steps.

Why the bounds are enough. Beam: the latches compare two consecutive line
numbers, so four lines hold every case (inside the display, entering the blank,
inside it, wrapping), and a tick of three crosses two of them. `BeamAssumption`
asks that a tick is no longer than the blank (70 lines of 912 ticks) nor than the
display (192): an instruction takes some tens of ticks, and the longest block
call about 550 accesses of 14 to 16 ticks, some ten lines. Drives: the code treats files, tracks and values
uniformly; two files show a swap, two tracks show a session on one while another
is dirty, and the half track shows the arm between them. What the containers do
differently is one image of each. The tables, skews and field layouts of `Gcr`
are the real ones; the payload is short because the packing repeats every three
or five bytes. `CellSplice` needs a gap at the index and one away from it, and a
session that reaches over one. Ring: four slots and an index space of twice that
show full, empty, partial writes and index wrap inside a copy; the code's
constants are the same shape (`Wrap` a multiple of `Size`). Memory map: the
decoder distinguishes bank 0, bank 1, other even and odd banks, with and without
RAM, and `$E0`/`$E1`: all are there. Two reads enable the card, so three odd
accesses show a write before, between and after them. Bus: the grid repeats every
line of 912 ticks and the refresh every 50; the clocks chosen reach each kind of
slot and a refresh before, in and after a cycle, and the proofs cover the rest.
Clock: the byte `$38` is a command, an address and data at once, so every length
of transaction is met, and a reset or load at every byte of it. Arithmetic: the
accumulators 0, `$0099`, `$0999`, `$8000`, `$9999` and `$FFFF` and the operands
`$9999` and `$B14E` carry between digits, between bytes and out, in both signs
and with digits that are not decimal; the proofs cover every word.

`Cpu816`, `CellSplice` and `SnapshotFile` count their instructions, sessions or
steps and stop at the bound, hence `CHECK_DEADLOCK FALSE` in `Board_parts`, `Drives_media` and the two
snapshot runs; in the others deadlock is checked.

Fairness is assumed by one run, `MegaIrq_wai`. The frame loop always runs the
next instruction (`WF` on `Fetch`, `Retire` and `Tick`: an instruction is a
finite number of accesses) and always reaches the end of its tick budget (`SF`
on `FrameTick`, which the model enables only between instructions). Nothing is
assumed of the guest.

What the properties say, beyond types:

- `BeamSync`, `VblExact`, `ScanExact`, `LineLevels`, `DocLine`, `WaiEnds`: the
  latches are set exactly on the beam's entry, the CPU's lines are the level of
  the registers behind them, and WAI ends.
- `AnswersAnnounced` (`FullHasData` and `ResponseDue`, until a reset: section 6),
  `LineFollowsSources`, `KeyHasAscii`, `ValveBounds`.
- `ReadsSeeWrites`, `SameScreen`, `MapInPlace`, `MapRestored` (`HomesInPlace` and
  `RestoreKeepsMap` of `MemoryMap`, looked at in their own part only because they
  quantify over every address), `EnableEarned`: `read8` and `write8` agree on where a byte lives, shadow copies
  reach the screen that is scanned, no access strays, a restored STATEREG restores
  the map, and the language card is write-enabled only by two odd reads in a row.
- `AccessesPhased`, `SlowOnGrid`: the bill of an instruction leaves the clock where
  the bus was, on the grid and outside the refresh.
- `TransactionsExact`, `BatteryKept`: battery cells change by whole transactions
  only; a restart brings back what was not dirty.
- `NoStaleIo`, `WriteThrough`: no block call succeeds on a medium the guest was
  not told of; image files follow the blocks the guest sees.
- `DecimalExact`, `AluWidths` (`WidthsAgree` in the part `alu`), `RegisterRules`,
  `ReturnsExact`.
- `LoadHonest`: a load that reports success restored processor, memory, devices,
  queues (none over the reader's limit) and the media of the first two drives,
  and drove the timers' and ADB lines from them; one that reports failure left
  processor, media and lines alone.
- `StoppedIsDurable`, `ImplementsStore`, `SealedUntouched`, `SessionUnderHead`;
  `SessionUnderArm`, `CleanIsSaved`, `OwnerKeepsContents`; `SectorsSurvive`;
  `SessionLands`: nothing the guest wrote is lost or misplaced on its way to the
  image, nothing else is touched.
- `NoRace`, `ImplementsQueue`.

The six finding runs must end with a counterexample: the code does not do what
its comments or `DEV.md` say. `PROJECT.json` quotes them.

## 4. Proofs

`MegaIrq_proofs` proves, from the named assumptions of `MegaIrq`
(`BeamAssumption`, `TimerAssumption`, `OscAssumption`, `ScbAssumption`,
`SnapshotAssumption`):

- `TypeCorrect`: `Spec => []TypeOK`. `TypeOK` is inductive; the beam stays in
  its frame by `FrameWrap` and `VposInFrame`.
- `LineLevelsHold`: `Spec => []LineLevels`. `TypeOK /\ LineLevels` is inductive
  one action at a time; `SetIrqLineBits` says a handler moves its own bit only,
  `UpdateMega2Level` and `UpdateVgcLevel` that the update functions establish
  their line, `TickLevels` and `FrameTickLevels` chain two updates.
- `BeamSyncHolds`: `Spec => []BeamSync`, inductive with `TypeOK`.
  `SnapshotAssumption` asks of a file what `loadState` makes true of it: a
  remembered line that is the clock's, or 0.
- `VblExactHolds`, `ScanExactHolds`: `Spec => VblExact` and `Spec => ScanExact`,
  for every geometry and ticks as long as the blank or the display, the shorter
  of the two. `EnteredLines` says which lines such a tick enters, `WalkIsEntered`
  that they are those the code's walk from the remembered line to the beam's
  visits, across the end of the frame too, `BlankIsEntered` that its edge test
  sees the blank exactly when one of them is the blank's first, and
  `TickLatches` what the tick latches of them.
- `DocLineHolds`: without snapshot loads, `[]DocLine`. The hypothesis is needed:
  `MegaIrq_doc_load` is the counterexample with them. The second conjunct holds
  at `fetch` only, because an enable write inside an instruction changes the
  chip's level unmirrored until the tick.

`AudioRing_proofs` proves, from `RingAssumption`, `RateAssumption`,
`PeriodAssumption` and `WaveAssumption`:

- `TypeCorrect`: `Spec => []TypeOK`, and `RaceFree`: `Spec => []NoRace`. Neither
  is inductive: why the producer may write a slot depends on what it last saw of
  the consumer's index, and the reverse. `Inv` adds `Resting` (a thread that is
  not copying has nothing in hand) and `Chain`: going round the ring from
  `pSeen`, one meets `read`, `cSeen` and `write` in that order, and no more than
  a ring's worth lies between the ends. `Chain` is what stale loads preserve.
  From it a copy of the producer lies beyond `write` and within `Size` of
  `read` (`Apart`), and a copy of the consumer before `write`
  (`GoalPublished`); no two of those indices share a slot (`SlotsDiffer`).
- `Implements`: `Spec => ImplementsQueue`. `FifoInv` adds `Copied`: the slots
  already copied hold the samples they were copied from. `PushStore` then
  appends (`PublishedGrows`), `PullStore` takes from the front (`PullTakes`),
  and every other step leaves `Published` alone.

The modular arithmetic both rest on (`ModSum`, `AheadAhead`, `GapAhead`,
`SlotAhead`) is proved from division with remainder, for every `Wrap` that is a
multiple of `Size`.

`Drives_proofs` proves, from `Disk525Assumption`, for every set of images, arm
travel and set of sectors:

- `SessionUnderArmTheorem`: `DriveSpec => []SessionUnderArm`. It is inductive: an
  access that moves the arm closes the session first (`Phase`, as in `Iwm.cpp:50`),
  and every swap and eject closes it.
- `DriveTypeTheorem`: `DriveSpec => []DriveTypeOK`.
- `CleanIsSavedTheorem` and `OwnerKeepsContentsTheorem`: `DriveSpec =>
  []CleanIsSaved` and `DriveSpec => OwnerKeepsContents`, when every image is
  `Straight`: no two positions of a WOZ share a TRK, and a sector image is not in
  a MacBinary envelope. TLC finds a counterexample without either half (section
  6: shared TRKs have separate streams, an enveloped image is read back from the
  wrong place). `CleanIsSaved` exempts a file while a save of it that was cut
  short waits for its retry, and a sector image after one: there the code loses
  the tracks (section 6). `OwnerKeepsContents` lets the guest change the sector
  under the arm of the image in the drive, and an image lose, when it leaves,
  what its guest left undecodable or what a failed save had not written; nothing
  else. The invariant `MediumInv` adds to the types and `SessionUnderArm` that a
  position without a mark is what its file, or the WOZ in memory, holds for it,
  or does not decode, and that nothing is blank that was not (`MediumKept`); a
  save, whole, refused or short, a splice and a load each preserve it by a lemma
  of their own.

It proves, from the assumptions of `Sony35`:

- `DriveTyped`: `Spec => []TypeOK`, and `SessionUnderHeadTheorem`:
  `Spec => []SessionUnderHead`, for raw and WOZ images.
- `RawStoppedIsDurable`: `RawOnly /\ Spec => []StoppedIsDurable`, and
  `RawDriveIsStore`: `RawOnly /\ Spec => ImplementsStore`. `RawOnly` is
  write-back on, raw images only, none inserted over itself. The hypotheses are
  needed: `Sony35_woz_lost` and `Sony35_woz_raw` are the counterexamples with WOZ
  images, and section 6 has the third. The invariant `RawInv` adds to the types
  that every file is raw (`RawFiles`), that a stopped spindle leaves no session and
  no dirty mark (`StoppedIsIdle`), and that a track without a mark is both in the
  sector image and on the file (`CleanIsStored`); `FlushStores` is the lemma that a
  flush establishes the last one.
- `SealedHostUntouched`: `~WriteBack /\ Spec => HostUntouched`, and
  `ProtectedFilesKept`: `Spec => []ProtectedKept`, both for raw and WOZ images
  inserted over anything. The first goes through `NextHost`, that a step which
  changes a host file is a commit of the medium in the drive; the second needs
  besides that the drive knows the protection of the file it holds
  (`ProtectionKnown`), since `flush()` looks at `writeProt_` and not at the file.

`AdbGlu_proofs` proves, from the assumptions of `AdbGlu`:

- `TypeCorrect`: `Spec => []TypeOK`.
- `LineFollowsSourcesHolds`, `KeyHasAsciiHolds`, `ValveBoundsHold`: through every
  reset and snapshot load. They are proved together (`InputInv`), with
  `ValvesHold` in the place of `ValveBounds`, the form of it that survives a tick.
- `AnswersHold`: `Spec => []AnswersAnnounced`. While `undisturbed`, the invariant
  `QueueInv` says the delay runs exactly while bytes are queued and none is
  readable, and that its end is never more than `ResponseTicks` away. After a
  reset both parts fail: `AdbGlu_reset_full`, and section 6.

`Bus_proofs` proves, from the assumptions of `MemoryMap`, for every number
of fast banks, of populated ones, and either ROM:

- `MapTypeCorrect`: `MapSpec => []MapTypeOK`.
- `HomesInPlaceHold`, `ReadsSeeWritesHolds`, `SameScreenHolds`: each follows from
  the type of the switches alone, by the cases of `Decode`, `PhysBank01`, `Fold`
  and `FastCell`; no history of switch settings matters to them.
- `EnableEarnedHolds`: `MapSpec => []EnableEarned`. It is not inductive: `EarnedInv`
  adds `ArmedByRead`, that the flip-flop is set exactly after an odd read.
- `RestoreKeepsMapHolds`: `MapSpec => RestoreKeepsMap`.

It proves, from `BusAssumption`, for every set of starting clocks and instructions
of every length:

- `CursorBilled`: `BusSpec => []IInv`. `AccessesPhased` speaks of what `Tick`
  would bill, the code charges against a cursor; `CursorInv` says the two are one
  (`busCursor = 5 * cycles + busPenalty`) in an instruction that began fast, until
  it pulls a vector or copies a block, and that the cursor of a slow instruction
  never moves.
- `AccessesPhasedTheorem` and `SlowOnGridTheorem` follow from `IInv` and the
  arithmetic of `Mega2Timing.h`: `SlowCycle` (a slow access from any tick ends on
  the grid, one cycle on), `DramCycle` (a RAM access takes five ticks outside the
  refresh), and `SlowCycles` (n of them in a row, the loop of
  `slowCyclesTicks`). The last is an induction over the loop count; `SetInduction`
  states induction over sets instead of predicates and is proved from the
  well-foundedness of the naturals, because the library's induction theorems take an
  operator as a parameter.

`Storage_proofs` proves, from `PortAssumption`, for every set of images, blocks
and block sizes:

- `WriteThroughHolds`: `PortSpec => []WriteThrough`, one file in both devices
  included. `WriteThrough` alone is not inductive: a device without blocks would
  tell nothing of its path. `Mirrors` says of every block of either device that
  it is the file's, torn or behind (`OnFile`), `PortTypeOK` that an image is as
  long, and as protected, as its file; `FlushOne` says what one `flushBlock()`
  brings up to date, `BlockKeeps` and `OtherHolds` what it leaves of the device
  that writes and of the other one.
- `NoStaleIoHolds`: `PortSpec => NoStaleIo` when `SavePending` is FALSE. The
  hypothesis is needed: a quick save loses a pending switch (section 6). The
  invariant `Told` says that with no switch pending the guest knows the medium,
  and so does the guest of the quick save.

It proves, from `ClockAssumption`:

- `BatteryKeptHolds`: `ClockSpec => []BatteryKept`, for every set of cells, byte
  size, save period and file left by a killed process. It is inductive.
- `ChipTypeCorrect` and `TransactionsExactHolds`: `ClockSpec => []ChipTypeOK` and
  `ClockSpec => TransactionsExact`, for the chip of the code (`TheChip`: 256
  cells, bytes of 256 values, a counter of four). The command byte is taken apart
  into the fields the code tests, which needs the byte's real size.
  `TransactionsExact` needs the invariant `Remembers`: `clkState`, `clkSrc`,
  `clkAddr` and `clkReg` are what the bytes since the chip was idle told it.
  `SecondsSet` is the arithmetic of `rtcWriteByte`: modulo 2^32, one byte of the
  seconds takes the new value and the others stay.

It proves, from `FileAssumption`:

- `LoadHonestHolds`: `FileSpec => LoadHonest`, for every set of serial ports,
  commands, letters, states and disks, every limit of the reader and a save cut
  short at every cell. The invariant `FileInv` says what can be on the host: no
  file, one of an earlier version, or the first cells of the stream of the
  machine in `kept` (`FileOK`). A reader that works by position goes astray when
  a length is wrong, and then says nothing of it. `Holds` says that the file
  agrees with a piece of the stream as far as it goes: a stream still good at the
  end had every length cell where the writer put it, so each queue and path is
  read where it was written (`RunReads`, `ChannelReads`, `LoadReads`), piece after
  piece.

`Cpu816_proofs` proves, from `CpuAssumption`, for every set of stack pointers,
operands and targets and with no bound on nesting or length of run:

- `RegisterRulesHold`: `CpuSpec => []RegisterRules`, inductive with the types
  (`CpuInv`), an instruction at a time.
- `ReturnsExactHolds`: `CpuSpec => ReturnsExact`. The invariant `FramesOK` says
  of every call under way that its bytes, read back in the order of a return from
  the pointer its push left, bring the registers back (`Good`). It rests on
  `PushedAt` (no two bytes of a push share a cell), `PullMeetsPush` (pulls meet
  them in reverse, in each mode and with each kind of stack access, across the
  page's or the bank's edge), `FlagsOfByte` (P survives the trip through a byte),
  and `InterruptRestores` and `CallRestores`. Writing that invariant down corrected
  the property: it exempted returns to bank 0, where what silicon loses is the
  bank of the caller, whichever it is, and no run is deep enough to tell them
  apart.

`Alu816_proofs` proves, from `AluAssumption`, for every set of 16-bit
accumulators and operands:

- `AccumulatorIsWord`: `AluSpec => []AccOK`, the type the others rest on.
- `WidthsAgreeHolds`: `AluSpec => []WidthsAgree`. Long addition to the base 256
  (`BinarySplit`) is the binary sum; the difference is the sum with the
  complement (`RawSplit`); a decimal sum goes by its digits, whose chain of
  carries is cut between the bytes (`DecimalSumIs`). In a decimal difference the
  code takes C from the binary difference, and the digits of the upper byte
  borrow from those of the lower: `BorrowAgrees` says the two are the same also
  where digits are not decimal.
- `DecimalExactHolds`: `AluSpec => []DecimalExact`. The sum of two decimal digits
  and a carry is corrected to its digit to the base ten and carries when that sum
  is ten or more; `SumInColumns` and `DifferenceInColumns` are the long
  addition and subtraction of four such columns.

Only model-checked:

- `WaiEnds`: liveness, which TLAPS does not reach.
- `SectorsSurvive` and `SessionLands`: `Gcr` and `CellSplice` are bit operations
  and recursive scans, outside what the provers read.
- `SealedUntouched`, `MapInPlace`, `MapRestored` and `AluWidths` are proved as
  `SealedHostUntouched`, `HomesInPlaceHold`, `RestoreKeepsMapHolds` and
  `WidthsAgreeHolds`: the runs' forms name a part or its instance.

## 5. Not modelled

- Video, UI, configuration, logging and the 2IMG header parser keep no state other
  parts depend on.
- The values of memory, samples and ADB responses, and of sectors but for the
  tracks of `Gcr`, are abstracted as said above. The DOC's oscillators produce
  end-of-wave events in any order; their samples are not computed.
- 65816: addressing modes, block moves, loads and stores that touch no width
  or stack rule, and `JSR (abs,X)` (`CPU65816.cpp:771`), which
  pushes a word between its operand bytes, on the 16-bit stack in both modes.
- IWM: the handshake, mode and status registers, drive 2 of the 5.25" pair (empty),
  read pacing and the 3.5" disk-switched flag.
- 5.25" images: the conversion of flux captures to cells, the search for bit-cell
  synchronisation, and the parsing and checksum of WOZ chunks. A parsed image is
  the starting point of `Disk525`.
- The joystick, modifier keys, the display-only switches, INTCXROM, the latches
  nothing decodes, the floating bus, and a snapshot load of the memory map's
  switches.
- Host files: both 3.5" writers and the 5.25" one write in place, so a kill in the
  middle of one damages the image, in the code and outside the model. The battery
  RAM's file and the quick save are modelled with such kills.

## 6. Divergences seen while modelling

With a run of their own: `MegaIrq_doc_load`, `AdbGlu_reset_full`,
`Sony35_woz_lost`, `Sony35_woz_raw`, `Snapshot_torn`, `Snapshot_serial`. Seen with the same models, and named by
their properties or kept out of the passing runs by their bounds:

- `softReset` zeroes `lastVpos_` but not `videoCycles_` (`IIgsMemory.cpp:893`): a
  Ctrl-Reset inside the blank latches a VBL the beam did not enter. `BeamSync`
  and the hypotheses of `VblExact` and `ScanExact` name the exception.
- `reset()` zeroes `videoCycles_` but not `adbReadyAt_` (`:866-871`): the first
  response after a power cycle may come later than `kAdbResponseTicks`.
- The Y read of `$C024` zeroes both deltas (`:1112`), so motion added between the
  X and the Y read is lost, although "Deltas accumulate between reads"
  (`IIgsMemory.h:160`).
- After a load the DOC's line may stay up with nothing pending (`DriveLines`;
  `MegaIrq_doc_load`), and `loadState` runs `updateAdbIrq()` before
  `Snapshot.cpp:48-51` restores the E flag its system-up gate reads (`:624`).
- `loadImage` reads the file before it flushes the old medium (`Sony35.cpp:49-51`
  and `:77`): inserting the image already in the drive mounts stale contents.
  `Remount = FALSE` excludes it, in the part `store` and in the proofs.
- Under shadow-all ($C036 b4) a bank without RAM reaches a populated one:
  `read8` and `write8` go to `fastCell`, which wraps (`IIgsMemory.cpp:921-925`,
  `:1398-1403`), although "absent banks" must be "NOT mirroring populated ones"
  (`IIgsMemory.h:486-489`). `HomesInPlace` exempts exactly that case; it needs
  less RAM than the default 8 MB.
- Vector pulls are counted as cycles but never charged, and the copies of a block
  call are charged but not counted, although `cycles_` "equals the number of
  traced cycles, and the MMU sees every cycle in order" (`CPU65816.cpp:114-118`);
  `CursorInv` exempts what follows them.
- `BIT dp` with a 16-bit accumulator at `$00FFFF` reads its high byte in bank 1
  (`CPU65816.cpp:688`), where the other direct-page reads wrap (`:188-191`).
- The SCC takes four bits of a WR0 command as the register pointer
  (`Scc8530.cpp:36-39`), so the commands `$18`, `$28` and `$38` point at register 8, where only "point
  high" should.

Battery RAM, clock and snapshots:

- A quick load replaces the battery RAM without the dirty mark, so it is lost at
  exit unless the guest changes it again (`replaced` in `BatteryKept`); the offset
  of the clock is not in a snapshot at all. A failed write at close is not seen, and
  the read bit of a command is not looked at when its data is strobed.
- A snapshot cut in its last string loads as success and ejects the second Sony
  drive. A missing image in a snapshot leaves the disk that was mounted, with its
  flags cleared. `waiting_` is neither saved nor cleared.
- A pending disk switch is not in a snapshot: `SavePending = TRUE` violates
  `NoStaleIo`. The part `port` saves only when none is pending.

Block devices:

- An image over 800K is cut off by the Sony drive, not refused (`Sony35.cpp:75-76`
  against `IIgsMemory.h:199-200`); FORMAT
  succeeds without doing anything; a block whose file cannot be opened is
  answered OK; the hard disk's half-written block is in memory and not on the file
  until its last byte (`torn`).
- One image mounted in both block devices, which nothing refuses, drifts apart: each
  device goes on reading its own copy of what the other wrote. One file in a block
  device and a drive of another family is not modelled.
- A CONTROL `$04` eject, and a load that remounts or refuses an image, leave the
  Sony drive's copy of the 3.5" disk as it was.

5.25" drive and images:

- With 35SEL set, `$C0E8` and `$C0EE` act on the Sony drives only, so a 5.25"
  session opened before stays uncommitted (`Iwm.h:126-128`). `Iwm::reset` closes a
  session and does not save.
- The flush before a swap or an exit ignores that a save failed, and the guest's
  writes since the last save are lost with the image (`LeftLost`); a save of a
  sector image cut short and retried writes zeros over clean tracks
  (`DiskImage.cpp:2159`). Trailer bytes
  are dropped by a save. A sector image in a MacBinary envelope is read back from
  the wrong place, so that undecodable sectors do not "keep their original bytes"
  (`:2171-2173`).
- A position that comes from a FLUX capture drops writes silently while the sense
  line says writable; two WOZ positions sharing a TRK have separate streams.
- `endWrite525` counts eight sequencer cycles to a cell (`Iwm.cpp:132-140`), but the
  splice goes by the image's own timing (`DiskImage.cpp:1579-1583`); `CellTimes` is
  eight only. A session that wraps the index of a nibble track and moves a
  sync gap is misplaced; `SessionLands` names the exception. The decoder does not look at an
  address field's checksum, although a sector with a bad one is to be left alone
  (`DiskImage.h:515-518`); `DamagedFields` is the data field only.
- A `.woz` in a MacBinary envelope does not load.

## 7. Plan

What is left, in order:

1. The DOC's oscillators: halt, one-shot, sync and swap, in front of the interrupt
   side of `MegaIrq`.
2. Flux captures and WOZ chunks in front of `CellSplice`; drive 2 of the 5.25" pair.

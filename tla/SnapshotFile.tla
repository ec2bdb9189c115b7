---------------------------- MODULE SnapshotFile ----------------------------
(***************************************************************************)
(* Quick save and quick load (Snapshot.cpp, IIgsMemory::saveState and      *)
(* loadState, Scc8530::saveState and loadState): the file as the cells the *)
(* writer puts and the reader takes back by position, a save cut short, and*)
(* what the reader makes of a file that is short, old or out of step.      *)
(*                                                                         *)
(* A cell is a number: a device's state, a count, a byte of a queue, a letter*)
(* of a path.  The fields of a device are one cell, the serial chip and the*)
(* paths, whose lengths vary, are in full.  A path is one letter long.     *)
(***************************************************************************)
EXTENDS Scc8530

CONSTANTS
    Moments,        \* bound: states the guest brings its devices to
    Disks,          \* media files, by the letter of their path
    MaxCount,       \* longest queue or path the reader believes (4096)
    MaxFileSteps    \* bound: steps of a run

VARIABLES
    iwm35,          \* iwm35_: the 3.5" disks are in two Sony drives
    cpu,            \* the registers the wrapper saves
    memory,         \* fastRam_, slowRam_
    registers,      \* soft switches, ADB, clock, battery RAM, video
    doc,            \* doc_
    media,          \* paths in the drives
    lines,          \* the interrupt lines of the processor, by source
    file,           \* states/quick.pgss
    result,         \* what the last load made of it
    kept,           \* the machine at the last save
    fileSteps

\* Numbers in the cells; a one-letter path is believed (kMax is 4096).
ASSUME FileAssumption ==
    /\ Ports \subseteq Channel /\ Commands \subseteq Nat /\ Letters \subseteq Nat
    /\ Moments \subseteq Nat /\ Disks \subseteq Nat
    /\ MaxCount \in Nat \ {0}

machineVars == <<cpu, memory, registers, doc, media, lines, chan>>
fileVars == <<iwm35, machineVars, file, result, kept, fileSteps>>

kVersion == 4
OldVersion == 3
fastRamKB == 1
Drive == {"hdd", "disk35", "sony2"}
NoDisk == <<>>

Machine ==
    [cpu |-> cpu, memory |-> memory, registers |-> registers, doc |-> doc,
     media |-> media, chan |-> chan]

\* A DOC that has left its reset asks for an interrupt.
DocPending(m) == m # 0

\* The lines of a machine at a moment: those of the timers stand for their
\* registers, the ADB's for its registers and the processor's mode, the DOC's
\* is up or down.
LinesOf(m) == [timers |-> m, adb |-> [registers |-> m, cpu |-> m], doc |-> DocPending(m)]

\* No quick save, or one of an earlier version.
FileInit ==
    /\ iwm35 \in BOOLEAN
    /\ cpu = 0 /\ memory = 0 /\ registers = 0 /\ doc = 0
    /\ lines = LinesOf(0)
    /\ chan = SccReset
    /\ media = [d \in Drive |-> NoDisk]
    /\ file \in {<<>>, <<OldVersion, 0>>}
    /\ result = "none" /\ kept = Machine /\ fileSteps = 0

-----------------------------------------------------------------------------
(* The writer.                                                             *)

putQueue(q) == <<Len(q)>> \o q
putStr(s) == <<Len(s)>> \o s

\* Scc8530::saveState(): registers, pointer and queues of a channel.
ChannelCells(c) ==
    [r \in 1 .. 16 |-> chan[c].wr[r - 1]] \o <<chan[c].regPtr>>
    \o putQueue(chan[c].rx) \o putQueue(chan[c].tx)

Stream ==
    <<kVersion, cpu, fastRamKB, memory, registers, doc>> \o ChannelCells(0) \o ChannelCells(1)
    \o putStr(media["hdd"]) \o putStr(media["disk35"]) \o putStr(media["sony2"])

\* F7.  The file is emptied and written in place: the disk fills up, or the
\* process is killed (and started again), after any of its cells.
QuickSave ==
    \E written \in 0 .. Len(Stream) :
      /\ file' = SubSeq(Stream, 1, written)
      /\ kept' = Machine /\ result' = "none"
      /\ UNCHANGED <<iwm35, machineVars>>

-----------------------------------------------------------------------------
(* The reader: by position, past the end it leaves things as they are.     *)

Cell(at, old) == IF at <= Len(file) THEN file[at] ELSE old

\* A length that cannot be right is taken for 0.
Count(at) == IF Cell(at, 0) <= MaxCount THEN Cell(at, 0) ELSE 0

\* getQueue() and getStr(): the cells, and the position after them.
Run(at) ==
    [cells |-> [i \in 1 .. Count(at) |-> Cell(at + i, 0)], next |-> at + 1 + Count(at)]

ReadChannel(c, at) ==
    LET rx == Run(at + 17)
        tx == Run(rx.next)
    IN  [state |-> [wr |-> [r \in 0 .. 15 |-> Cell(at + r, chan[c].wr[r])],
                    regPtr |-> Cell(at + 16, chan[c].regPtr),
                    rx |-> rx.cells, tx |-> tx.cells],
         next |-> tx.next]

\* The medium after loadState() looked at a path: the same, none, the file
\* of that path, or, where there is none, what is mounted.
Remounted(d, p) ==
    IF p = NoDisk THEN NoDisk
    ELSE IF \E f \in Disks : p = <<f>> THEN p ELSE media[d]

\* Mutant of StreamGood: the stream is not looked at before the media are.
StreamUnchecked(at) == TRUE

\* is.good(): nothing up to the position was missing.
StreamGood(at) == at - 1 <= Len(file)

\* The wrapper's own refusals: magic, version, registers, memory size.
Refused == ~StreamGood(4) \/ Cell(1, 0) # kVersion \/ Cell(3, 0) # fastRamKB

\* The end of loadState(): every source drives its line again, the ADB with the
\* mode of the processor from before the load, whose registers come last, and
\* the DOC as if its line were down: it can raise the line, not lower it.
DriveLines ==
    lines' = [timers |-> registers', adb |-> [registers |-> registers', cpu |-> cpu],
              doc |-> IF DocPending(doc') THEN TRUE ELSE lines.doc]

\* F8.
QuickLoad ==
    LET b == ReadChannel(0, 7)
        a == ReadChannel(1, b.next)
        hdd == Run(a.next)
        disk35 == Run(hdd.next)
        sony2 == Run(disk35.next)
    IN  \/ /\ Refused /\ result' = "refused"
           /\ UNCHANGED <<machineVars, iwm35, file, kept>>
        \/ /\ ~Refused
           /\ memory' = Cell(4, memory)
           /\ registers' = Cell(5, registers)
           /\ doc' = Cell(6, doc)
           /\ chan' = [c \in Channel |-> IF c = 0 THEN b.state ELSE a.state]
           /\ \/ /\ StreamGood(disk35.next) /\ result' = "ok"
                 /\ media' = [hdd |-> Remounted("hdd", hdd.cells),
                              disk35 |-> Remounted("disk35", disk35.cells),
                              sony2 |-> IF iwm35 THEN Remounted("sony2", sony2.cells)
                                        ELSE media["sony2"]]
                 /\ DriveLines
                 /\ cpu' = file[2]
              \/ /\ ~StreamGood(disk35.next) /\ result' = "failed"
                 /\ UNCHANGED <<media, lines, cpu>>
           /\ UNCHANGED <<iwm35, file, kept>>

-----------------------------------------------------------------------------
(* The machine between saves and loads.                                    *)

\* The guest runs: every device changes.  A line the DOC left up at a load may
\* still be up.
Execute ==
    /\ \E m \in Moments, stuck \in {FALSE, lines.doc} :
         /\ cpu' = m /\ memory' = m /\ registers' = m /\ doc' = m
         /\ lines' = [LinesOf(m) EXCEPT !.doc = @ \/ stuck]
    /\ result' = "none"
    /\ UNCHANGED <<iwm35, chan, media, file, kept>>

Serial ==
    /\ SccAccess /\ result' = "none"
    /\ UNCHANGED <<iwm35, cpu, memory, registers, doc, media, lines, file, kept>>

\* softReset(): what survives is the memory and the media.
ResetMachine ==
    /\ cpu' = 0 /\ registers' = 0 /\ doc' = 0 /\ lines' = LinesOf(0)
    /\ chan' = SccReset /\ result' = "none"
    /\ UNCHANGED <<iwm35, memory, media, file, kept>>

\* The user inserts and ejects; the second drive is a Sony.
Mount ==
    /\ \E d \in Drive, p \in {NoDisk} \cup {<<f>> : f \in Disks} :
         /\ d = "sony2" => iwm35
         /\ media' = [media EXCEPT ![d] = p]
    /\ result' = "none"
    /\ UNCHANGED <<iwm35, cpu, memory, registers, doc, lines, chan, file, kept>>

FileNext ==
    /\ fileSteps < MaxFileSteps /\ fileSteps' = fileSteps + 1
    /\ \/ QuickSave \/ QuickLoad
       \/ Execute \/ Serial \/ ResetMachine \/ Mount

FileSpec == FileInit /\ [][FileNext]_fileVars

-----------------------------------------------------------------------------
(* Properties.                                                             *)

Believed(machine) ==
    \A c \in Channel : Len(machine.chan[c].rx) <= MaxCount /\ Len(machine.chan[c].tx) <= MaxCount

\* A load that reports success restored the machine as it was saved, however
\* the save ended: processor, memory, devices, queues, and the media of the
\* first two drives, as long as no serial queue was over the reader's limit.
\* (The second Sony drive's path comes after the last look at the stream.)  Of
\* the interrupt lines it says what the code gives: those of the timers and of
\* the ADB stand for the registers restored, and a DOC that asks has its line
\* up.  That a line of the DOC can stay up that nothing asks for is
\* DocLine's in MegaIrq, and the ADB's mode is the one before the load.
\* A load that reports failure left processor, media and lines alone
\* (Snapshot.cpp:34-53, IIgsMemory.cpp:602-625).
LoadStep ==
    /\ result' = "ok" /\ result # "ok" /\ Believed(kept) =>
         /\ \A f \in {"cpu", "memory", "registers", "doc", "chan"} : Machine'[f] = kept[f]
         /\ \A d \in {"hdd", "disk35"} : media'[d] = kept.media[d]
         /\ lines'.timers = registers' /\ lines'.adb.registers = registers'
         /\ DocPending(doc') => lines'.doc
    /\ result' \in {"refused", "failed"} => UNCHANGED <<cpu, media, lines>>
LoadHonest == [][LoadStep]_fileVars

\* "Returns false (with an intact machine) on I/O error or format mismatch"
\* (Snapshot.h:22): a load that fails changes nothing.
FailedLoadIntact == [][result' \in {"refused", "failed"} => UNCHANGED machineVars]_fileVars

\* "a restore round-trips mid-transfer serial state" (Scc8530.cpp:96-97): a
\* load that succeeds brings the queues back as saved.
SerialRoundTrips ==
    [][result' = "ok" => \A c \in Channel : chan'[c].tx = kept.chan[c].tx
                                           /\ chan'[c].rx = kept.chan[c].rx]_fileVars

=============================================================================

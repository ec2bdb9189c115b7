----------------------------- MODULE SmartPort -----------------------------
(***************************************************************************)
(* Block devices: the slot-5 3.5" drive behind the SmartPort and ProDOS    *)
(* traps (IIgsMemory.cpp), the slot-7 hard disk behind its streaming       *)
(* window (ProDosHdd.cpp), their write-through to the image files, the     *)
(* disk-switched one-shots, and the user who mounts, swaps and ejects,     *)
(* resets, and saves and loads the machine.                                *)
(*                                                                         *)
(* Parameter lists, the DIB's text and the return address are left out: a  *)
(* call is its command, block and data.  The Sony drive's copy of          *)
(* the 3.5" disk, for the genuine firmware, is Sony35's.  Nothing keeps one *)
(* file out of both devices: each then has a copy of its own.              *)
(***************************************************************************)
EXTENDS Integers, Sequences

CONSTANTS
    Images,     \* host files: [blocks, protected]
    BlockBytes, \* bytes of a block (512)
    Datum,      \* bound: bytes the guest streams to the hard disk
    Contents,   \* bound: blocks it writes to the 3.5" drive
    MaxBlock,   \* bound: block numbers up to it, one past the images
    HardDisks,  \* bound: images the user mounts as the hard disk
    Floppies,   \* bound: and in the 3.5" drive
    None,
    SavePending \* the user may quick-save before the guest met a disk switch

File == DOMAIN Images
Block == [1 .. BlockBytes -> Nat]

ASSUME PortAssumption ==
    /\ BlockBytes \in Nat \ {0} /\ MaxBlock \in Nat /\ SavePending \in BOOLEAN
    /\ Datum \subseteq Nat /\ Contents \subseteq Block
    /\ HardDisks \subseteq File /\ Floppies \subseteq File /\ None \notin File
    /\ \A f \in File : Images[f].blocks \in Seq(Block) /\ Images[f].protected \in BOOLEAN

VARIABLES
    writeBack,          \* mediaWriteBack_
    store,              \* block contents of the host files
    disk35, hdd,        \* [path, img, protected]: disk35_, hdd_
    selectedBlock, streamOffset,    \* of hdd
    changed, switchIo,  \* disk35Changed_, disk35SwitchIo_
    reply,              \* "ok" when the guest's last call moved a block, or "none"
    known,              \* the 3.5" medium the guest last identified
    torn,               \* hard-disk blocks the guest has written part of
    behind35, behindHdd,    \* history: blocks of a device's file that the other
                            \* device, on the same file, has written since
    saved               \* the quick save: paths, and what its guest knows

drift == <<behind35, behindHdd>>
devices == <<disk35, hdd, selectedBlock, streamOffset, drift>>
flags == <<changed, switchIo>>
portVars == <<writeBack, store, devices, flags, reply, known, torn, saved>>

Empty == [path |-> None, img |-> <<>>, protected |-> FALSE]
Loaded(d) == d.img # <<>>

\* ProDosHdd::loadImage() of f over device d: a file too short for a block
\* leaves it mounted without blocks.
LoadImage(f) == [path |-> f, img |-> store[f], protected |-> Images[f].protected]
Loads(f) == Images[f].blocks # <<>>

PortInit ==
    /\ writeBack \in BOOLEAN
    /\ store = [f \in File |-> Images[f].blocks]
    /\ disk35 = Empty /\ hdd = Empty
    /\ selectedBlock = 0 /\ streamOffset = 0 /\ behind35 = {} /\ behindHdd = {}
    /\ changed = FALSE /\ switchIo = FALSE
    /\ reply = "none" /\ known = None /\ torn = {} /\ saved = None

-----------------------------------------------------------------------------
(* ProDosHdd.                                                              *)

\* Mutant of FlushBlock: the last block is taken for out of range.
FlushBlockShort(d, blk) ==
    IF d.path = None \/ d.protected \/ ~writeBack \/ blk + 1 >= Len(d.img) THEN store
    ELSE [store EXCEPT ![d.path][blk + 1] = d.img[blk + 1]]

\* flushBlock(): the block, in place, unless protected or the host forbids it.
FlushBlock(d, blk) ==
    IF d.path = None \/ d.protected \/ ~writeBack \/ blk >= Len(d.img) THEN store
    ELSE [store EXCEPT ![d.path][blk + 1] = d.img[blk + 1]]

InRange(d, blk) == blk < Len(d.img)

SameFile == disk35.path = hdd.path

\* The answers of readBlock() and writeBlock(): every error is "none".
ReadAnswer(d, blk) == IF InRange(d, blk) THEN "ok" ELSE "none"
WriteAnswer(d, blk) == IF ~d.protected /\ InRange(d, blk) THEN "ok" ELSE "none"

-----------------------------------------------------------------------------
(* The guest's calls.                                                      *)

\* A block call for unit 1 of the SmartPort entry, or any of the ProDOS entry:
\* a pending disk switch answers instead, once.  op: <<>> to read, or the data.
BlockIo(blk, op) ==
    /\ \/ /\ switchIo
          /\ reply' = "none" /\ switchIo' = FALSE /\ known' = disk35.path
          /\ UNCHANGED <<store, disk35, drift>>
       \/ /\ ~switchIo /\ op = <<>>
          /\ reply' = ReadAnswer(disk35, blk)
          /\ UNCHANGED <<store, disk35, drift, switchIo, known>>
       \/ /\ ~switchIo /\ op # <<>>
          /\ reply' = WriteAnswer(disk35, blk)
          /\ disk35' = IF reply' = "ok" THEN [disk35 EXCEPT !.img[blk + 1] = op] ELSE disk35
          /\ store' = IF reply' = "ok" THEN FlushBlock(disk35', blk) ELSE store
          /\ IF reply' = "ok"
             THEN /\ behind35' = behind35 \ {blk}
                  /\ behindHdd' = IF SameFile THEN behindHdd \cup {blk} ELSE behindHdd
             ELSE UNCHANGED drift
          /\ UNCHANGED <<switchIo, known>>
    /\ UNCHANGED <<writeBack, hdd, selectedBlock, streamOffset, changed, torn, saved>>

\* Mutant of Status: the poll consumes the one-shot.
StatusConsumes(unit) ==
    /\ reply' = "none"
    /\ changed' = (changed /\ unit # 1) /\ switchIo' = (switchIo /\ unit # 1)
    /\ UNCHANGED <<writeBack, store, devices, known, torn, saved>>

\* STATUS: the controller and the drive answer; the drive's bit 0 is consumed.
\* The ProDOS entry's STATUS changes nothing, like the one of unit 0.
Status(unit) ==
    /\ reply' = "none"
    /\ changed' = (changed /\ unit # 1)
    /\ UNCHANGED <<writeBack, store, devices, switchIo, known, torn, saved>>

\* A device has another image, or none, its copy fresh from the file.
Remount35(d) == disk35' = d /\ behind35' = {}
RemountHdd(d) ==
    /\ hdd' = d /\ selectedBlock' = 0 /\ streamOffset' = 0
    /\ torn' = {} /\ behindHdd' = {}
Without(d) == [Empty EXCEPT !.protected = d.protected]

\* CONTROL $04: the guest ejects.
ControlEject ==
    /\ reply' = "none"
    /\ Remount35(Without(disk35))
    /\ changed' = TRUE /\ switchIo' = TRUE
    /\ UNCHANGED <<writeBack, store, hdd, selectedBlock, streamOffset, behindHdd>>
    /\ UNCHANGED <<known, torn, saved>>

\* $C0F0, $C0F1: the block number, either half.
SelectBlock(blk) ==
    /\ selectedBlock' = blk /\ streamOffset' = 0 /\ reply' = "none"
    /\ UNCHANGED <<writeBack, store, disk35, hdd, drift, flags, known, torn, saved>>

Onward == (streamOffset + 1) % BlockBytes

\* $C0F2 read.
StreamRead ==
    /\ Loaded(hdd)
    /\ streamOffset' = Onward /\ reply' = "none"
    /\ UNCHANGED <<writeBack, store, disk35, hdd, drift, selectedBlock, flags, known>>
    /\ UNCHANGED <<torn, saved>>

\* $C0F2 write: the byte that completes a block sends it to the file.
StreamWrite(v) ==
    /\ Loaded(hdd) /\ ~hdd.protected
    /\ reply' = "none"
    /\ streamOffset' = Onward
    /\ hdd' = IF InRange(hdd, selectedBlock)
              THEN [hdd EXCEPT !.img[selectedBlock + 1][streamOffset + 1] = v] ELSE hdd
    /\ store' = IF Onward = 0 THEN FlushBlock(hdd', selectedBlock) ELSE store
    /\ torn' = IF Onward = 0 THEN torn \ {selectedBlock} ELSE torn \cup {selectedBlock}
    /\ IF Onward = 0
       THEN /\ behindHdd' = behindHdd \ {selectedBlock}
            /\ behind35' = IF SameFile THEN behind35 \cup {selectedBlock} ELSE behind35
       ELSE UNCHANGED drift
    /\ UNCHANGED <<writeBack, disk35, selectedBlock, flags, known, saved>>

-----------------------------------------------------------------------------
(* The user.                                                               *)

\* softReset(), and the boot that identifies the media again.
Booted ==
    /\ changed' = FALSE /\ switchIo' = FALSE
    /\ known' = disk35'.path /\ reply' = "none"

EjectHdd == RemountHdd(Without(hdd))

Reset ==
    /\ UNCHANGED <<writeBack, store, devices, torn, saved>>
    /\ Booted

\* The hard disk of the menu; the machine restarts.
LoadHdd(f) ==
    /\ RemountHdd(LoadImage(f))
    /\ UNCHANGED <<disk35, behind35, writeBack, store, saved>>
    /\ IF Loads(f) THEN Booted ELSE reply' = "none" /\ UNCHANGED <<flags, known>>

\* The 3.5" disk of the menu: the hard disk goes, and the machine restarts.
LoadDisk35(f) ==
    /\ Remount35(LoadImage(f))
    /\ IF Loads(f)
       THEN EjectHdd /\ Booted
       ELSE /\ reply' = "none"
            /\ UNCHANGED <<hdd, selectedBlock, streamOffset, behindHdd, flags, known, torn>>
    /\ UNCHANGED <<writeBack, store, saved>>

\* A hot swap, announced even when the image does not load.
SwapDisk35(f) ==
    /\ Remount35(LoadImage(f))
    /\ changed' = TRUE /\ switchIo' = TRUE /\ reply' = "none"
    /\ UNCHANGED <<writeBack, store, hdd, selectedBlock, streamOffset, behindHdd>>
    /\ UNCHANGED <<known, torn, saved>>

EjectDisk35 ==
    /\ Remount35(Without(disk35))
    /\ changed' = TRUE /\ switchIo' = TRUE /\ reply' = "none"
    /\ UNCHANGED <<writeBack, store, hdd, selectedBlock, streamOffset, behindHdd>>
    /\ UNCHANGED <<known, torn, saved>>

\* The 5.25" disk of the menu empties both other slots and restarts.
LoadOther ==
    /\ EjectHdd /\ Remount35(Without(disk35))
    /\ Booted
    /\ UNCHANGED <<writeBack, store, saved>>

\* A quick save keeps the paths, not the one-shots.
SaveState ==
    /\ SavePending \/ ~switchIo
    /\ saved' = [hdd |-> hdd.path, disk35 |-> disk35.path, known |-> known]
    /\ reply' = "none"
    /\ UNCHANGED <<writeBack, store, devices, flags, known, torn>>

\* A quick load remounts what differs, and drops the one-shots.
LoadState ==
    /\ saved # None
    /\ IF saved.hdd = hdd.path
       THEN UNCHANGED <<hdd, selectedBlock, streamOffset, torn, behindHdd>>
       ELSE RemountHdd(IF saved.hdd = None THEN Without(hdd) ELSE LoadImage(saved.hdd))
    /\ IF saved.disk35 = disk35.path THEN UNCHANGED <<disk35, behind35>>
       ELSE Remount35(IF saved.disk35 = None THEN Without(disk35) ELSE LoadImage(saved.disk35))
    /\ changed' = FALSE /\ switchIo' = FALSE
    /\ known' = saved.known /\ reply' = "none"
    /\ UNCHANGED <<writeBack, store, saved>>

PortNext ==
    \/ \E blk \in 0 .. MaxBlock, op \in {<<>>} \cup Contents : BlockIo(blk, op)
    \/ \E unit \in 0 .. 2 : Status(unit)
    \/ ControlEject
    \/ \E blk \in 0 .. MaxBlock : SelectBlock(blk)
    \/ StreamRead \/ \E v \in Datum : StreamWrite(v)
    \/ Reset \/ EjectDisk35 \/ LoadOther \/ SaveState \/ LoadState
    \/ \E f \in HardDisks : LoadHdd(f)
    \/ \E f \in Floppies : LoadDisk35(f) \/ SwapDisk35(f)

PortSpec == PortInit /\ [][PortNext]_portVars

-----------------------------------------------------------------------------
(* Properties.                                                             *)

\* A block call succeeds only on the medium the guest last identified: after
\* any swap or eject, and whatever polls and status calls come in between, the
\* next block call says so first (IIgsMemory.h:232-239).
ReplyFresh == reply' = "ok" => known = disk35.path
NoStaleIo == [][ReplyFresh]_portVars

\* Host files hold the blocks the guest sees, but for hard-disk blocks it has
\* written part of, and, with one file in both devices, those the other device
\* wrote last: each device keeps the copy it loaded.  Protected files, and all
\* with write-back off, stay as they came.
WriteThrough ==
    /\ writeBack =>
         /\ Loaded(disk35) => \A b \in DOMAIN disk35.img :
              disk35.img[b] = store[disk35.path][b] \/ b - 1 \in behind35
         /\ Loaded(hdd) => \A b \in DOMAIN hdd.img :
              hdd.img[b] = store[hdd.path][b] \/ b - 1 \in torn \cup behindHdd
    /\ \A f \in File : Images[f].protected \/ ~writeBack => store[f] = Images[f].blocks

=============================================================================

------------------------------ MODULE Disk525 ------------------------------
(***************************************************************************)
(* The 5.25" drive of slot 6: the IWM's lines as $C0E0-$C0EF drives them   *)
(* (Iwm.cpp), the write session they open and close, and the disk image    *)
(* library behind the head: surface, dirty tracks, load, save and eject of *)
(* every container it accepts (DiskImage.cpp).                             *)
(*                                                                         *)
(* A track holds one value per sector: Good values survive the decoder,    *)
(* Bad does not.  Nibbles are Gcr, cells and positions CellSplice; here a  *)
(* session says which sectors its bytes hit.  The magnets PH0 and PH2 are  *)
(* momentary: only PH1 and PH3, which form ENABLE2, are kept.              *)
(***************************************************************************)
EXTENDS Integers, FiniteSets, FiniteSetsExt, Media

CONSTANTS
    Images,         \* host files: [kind, wrap, protected, home, flux, tracks]
    LastHalf,       \* last half track of the arm (68)
    Sector,         \* sectors of a track
    Garbage,        \* the Good value of a file read off its place or past its end
    None,           \* nothing: no file, no TRK, sector not in the session
    GuestWrites,    \* bound: <<sector, value>> pairs the guest writes, per image
    WritePorts,     \* bound: offsets it stores to; it reads the others
    Failures,       \* bound: the ways the host fails a write, per image
    Quiet,          \* bound: with these the guest leaves the drive line and 35SEL
    Shelves         \* bound: sets of images, one of which the user mounts from

Image == DOMAIN Images
Half == 0 .. LastHalf
Trk(f) == DOMAIN Images[f].tracks
Sensed == {1, 3}

\* A host file has all its tracks, or those before the place a write of it was
\* cut short: its domain is its extent.
FileTracks(f) == UNION {[T -> [Sector -> Value]] : T \in SUBSET Trk(f)}

ASSUME Disk525Assumption ==
    /\ LastHalf \in Nat /\ WriteBack \in BOOLEAN
    /\ Bad \notin Good /\ Blank \notin Good /\ Bad # Blank /\ Garbage \in Good
    /\ Shelves \subseteq SUBSET Image /\ Quiet \subseteq Image
    /\ Failures \in [Image -> SUBSET {"refused", "short"}]
    /\ None \notin Image /\ None \notin Value
    /\ GuestWrites \in [Image -> SUBSET (Sector \X (Good \cup {Bad}))]
    /\ \A f \in Image :
         /\ Images[f].kind \in {"sector", "nib", "woz"}
         /\ Images[f].wrap \in {"plain", "2img", "macbinary", "trailer"}
         /\ Images[f].protected \in BOOLEAN
         /\ Images[f].home \in [Half -> Trk(f) \cup {None}]
         /\ Images[f].flux \subseteq Half
         /\ Images[f].tracks \in [Trk(f) -> [Sector -> Value]]
         /\ Trk(f) \subseteq Nat /\ None \notin Trk(f)
         /\ Images[f].kind # "woz" => Trk(f) = 0 .. LastHalf \div 2

VARIABLES
    shelf,                  \* the images the user mounts
    files, wrap,            \* host files: track contents, envelope
    path525,                \* the loaded image, None without media
    surface,                \* contents under the head at each half track
    dirtyTracks,            \* slots written since load or save
    wozRaw,                 \* a WOZ's tracks as its last save composed them
    enable, drive, q6, q7,  \* IWM lines
    sel35,                  \* $C031 bit 6
    phases,                 \* of Sensed, the magnets on
    halfTrack,              \* the arm
    wr525Active, sessionAt, sessionData,  \* wr525Active_, wr525Qt_, wr525_
    saveResult,             \* history: what became of the last flush
    cutShort                \* history: a save of the mounted image was cut short

hostFiles == <<shelf, files, wrap>>
media == <<path525, surface, dirtyTracks, wozRaw>>
saves == <<saveResult, cutShort>>
lines == <<enable, drive, q6, q7, sel35, phases>>
open == <<wr525Active, sessionAt, sessionData>>
driveVars == <<hostFiles, media, lines, halfTrack, open, saves>>

Absent == [s \in Sector |-> Blank]
NoBytes == [s \in Sector |-> None]

DriveTypeOK ==
    /\ DOMAIN files = Image
    /\ \A f \in Image : files[f] \in FileTracks(f)
    /\ shelf \in Shelves
    /\ wrap \in [Image -> {"plain", "2img", "macbinary", "trailer"}]
    /\ path525 \in Image \cup {None}
    /\ surface \in [Half -> [Sector -> Value]]
    /\ dirtyTracks \subseteq Half
    /\ IF path525 # None /\ Images[path525].kind = "woz"
       THEN wozRaw \in FileTracks(path525) ELSE wozRaw = <<>>
    /\ enable \in BOOLEAN /\ drive \in {0, 1} /\ q6 \in BOOLEAN /\ q7 \in BOOLEAN
    /\ sel35 \in BOOLEAN /\ phases \subseteq Sensed
    /\ halfTrack \in Half
    /\ wr525Active \in BOOLEAN /\ sessionAt \in Half
    /\ sessionData \in [Sector -> Value \cup {None}]
    /\ saveResult \in {"whole", "refused", "short"} /\ cutShort \in BOOLEAN
    /\ path525 = None => dirtyTracks = {} /\ ~cutShort

DriveInit ==
    /\ shelf \in Shelves
    /\ files = [f \in Image |-> Images[f].tracks]
    /\ wrap = [f \in Image |-> Images[f].wrap]
    /\ path525 = None
    /\ surface = [h \in Half |-> Absent]
    /\ dirtyTracks = {} /\ wozRaw = <<>>
    /\ enable = FALSE /\ drive = 0 /\ q6 = FALSE /\ q7 = FALSE
    /\ sel35 = FALSE /\ phases = {}
    /\ halfTrack = 0
    /\ wr525Active = FALSE /\ sessionAt = 0 /\ sessionData = NoBytes
    /\ saveResult = "whole" /\ cutShort = FALSE

-----------------------------------------------------------------------------
(* The image library.                                                      *)

woz == path525 # None /\ Images[path525].kind = "woz"

\* qtSlot(): a WOZ has a stream per position, the others one per whole track.
Slot(f, h) == IF Images[f].kind = "woz" THEN h ELSE 2 * (h \div 2)
Slots(f) == {Slot(f, h) : h \in Half}

isWriteProtected == Images[path525].protected \/ ~WriteBack

\* writeFlux() finds cells to replace at slot h: not on a FLUX or absent one.
Spliceable(h) ==
    /\ path525 # None
    /\ woz => Images[path525].home[h] \in DOMAIN wozRaw /\ h \notin Images[path525].flux

\* endWrite525() splices the session's sectors, leaving the others alone.
Spliced ==
    IF wr525Active /\ Spliceable(sessionAt)
    THEN [surface EXCEPT ![sessionAt] =
            [s \in Sector |-> IF sessionData[s] = None THEN @[s] ELSE sessionData[s]]]
    ELSE surface

\* Only a splice that changed something marks the slot.
SplicedDirty ==
    LET now == Spliced IN dirtyTracks \cup {h \in Half : now[h] # surface[h]}

\* The sector bytes saveDirty() reads back before it decodes: a MacBinary
\* header, which the loader skipped, shifts all of them; past the end are zeros.
Base(f, t, s) ==
    IF wrap[f] = "macbinary" \/ t \notin DOMAIN files[f] THEN Garbage ELSE files[f][t][s]

\* decodeTrack(), over the bytes the file had.
DecodedTrack(f, t) ==
    [s \in Sector |-> IF Spliced[2 * t][s] \in Good THEN Spliced[2 * t][s] ELSE Base(f, t, s)]

\* What saveDirty() composes, by format: a WOZ packs its dirty quarter tracks
\* into the TRKs of wozRaw, in order; a .nib writes every track; a sector image
\* decodes the dirty ones over its file.
Saved(f) ==
    [t \in IF Images[f].kind = "woz" THEN DOMAIN wozRaw ELSE Trk(f) |->
       CASE Images[f].kind = "woz" ->
              LET From == {h \in SplicedDirty : Images[f].home[h] = t}
              IN  IF From = {} THEN wozRaw[t] ELSE Spliced[Max(From)]
         [] Images[f].kind = "nib" -> Spliced[2 * t]
         [] OTHER -> IF 2 * t \in SplicedDirty THEN DecodedTrack(f, t)
                     ELSE [s \in Sector |-> Base(f, t, s)]]

\* The envelope saveDirty() writes: a WOZ is written back whole, a 2IMG keeps
\* header and trailer, anything else is bare.
SavedWrap(f) ==
    IF Images[f].kind = "woz" \/ wrap[f] = "2img" THEN wrap[f] ELSE "plain"

\* The tracks before n, all that a short write leaves of the truncated file.
CutAt(tk, n) == [t \in {u \in DOMAIN tk : u < n} |-> tk[t]]

\* flushDisk525() has something to save and saveDirty() does not decline.
Saves == path525 # None /\ SplicedDirty # {} /\ ~isWriteProtected

\* flushDisk525(), as far as the host sees it: endWrite525(), then saveDirty(),
\* whose failure to open or to write the whole file nobody hears of.
FlushDisk525 ==
    /\ UNCHANGED shelf
    /\ \/ ~Saves /\ saveResult' = "whole" /\ UNCHANGED <<files, wrap>>
       \/ /\ Saves /\ saveResult' = "whole"
          /\ files' = [files EXCEPT ![path525] = Saved(path525)]
          /\ wrap' = [wrap EXCEPT ![path525] = SavedWrap(path525)]
       \/ /\ Saves /\ saveResult' = "refused" /\ "refused" \in Failures[path525]
          /\ UNCHANGED <<files, wrap>>
       \/ /\ Saves /\ saveResult' = "short" /\ "short" \in Failures[path525]
          /\ \E n \in DOMAIN Saved(path525) :
               files' = [files EXCEPT ![path525] = CutAt(Saved(path525), n)]
          /\ wrap' = [wrap EXCEPT ![path525] = SavedWrap(path525)]

\* Mutant of FlushedDirty: the marks cleared before the write, as Sony35 does.
FlushedEarly == IF Saves THEN {} ELSE SplicedDirty

\* The marks a flush leaves: none when it saved.
FlushedDirty == IF Saves /\ saveResult' = "whole" THEN {} ELSE SplicedDirty

\* A WOZ is composed in place, whatever becomes of the write.
FlushedRaw == IF Saves /\ woz THEN Saved(path525) ELSE wozRaw

SessionClosed == wr525Active' = FALSE /\ sessionData' = NoBytes /\ UNCHANGED sessionAt

\* The surface a file loads to: nibblized sectors, raw nibbles, or the bit
\* stream each quarter track's TMAP or FLUX entry names.
Loaded(f) ==
    [h \in Half |->
       LET t == IF Images[f].kind = "woz" THEN Images[f].home[h] ELSE h \div 2
       IN  IF t \notin DOMAIN files'[f] \/ Slot(f, h) # h THEN Absent ELSE files'[f][t]]

\* loadFile() accepts f: a raw image by its size; a WOZ, reread from offset 0,
\* unless a MacBinary header has pushed the magic or no whole track is left.
Loadable(f) ==
    IF Images[f].kind = "woz"
    THEN /\ wrap[f] # "macbinary"
         /\ \E h \in Half : h % 2 = 0 /\ Images[f].home[h] \in DOMAIN files'[f]
    ELSE DOMAIN files'[f] = Trk(f)

-----------------------------------------------------------------------------
(* The guest's accesses.                                                   *)

\* ENABLE2: the SmartPort chain is addressed, not the drive.
Enable2(ph) == ~sel35 /\ ph = Sensed

\* The data latch is connected to the 5.25" head.
HeadSelected(en, dr, ph) == en /\ ~sel35 /\ dr = 0 /\ ~Enable2(ph)

\* The rest of access(), once the addressed line has its value: a write op in
\* write-data mode, a read (None) in read-data mode, or neither.  closed: the
\* line's change already ended the session.
DataPart(op, closed, h, en, dr, ph, c6, c7) ==
    LET writes == /\ op # None /\ c7 /\ c6 /\ HeadSelected(en, dr, ph)
                  /\ path525 # None /\ ~isWriteProtected
        reads == op = None /\ ~c7 /\ ~c6 /\ HeadSelected(en, dr, ph)
        fresh == closed \/ ~wr525Active
        ends == closed \/ reads
    IN  /\ surface' = IF ends THEN Spliced ELSE surface
        /\ dirtyTracks' = IF ends THEN SplicedDirty ELSE dirtyTracks
        /\ wr525Active' = (writes \/ (wr525Active /\ ~ends))
        /\ sessionAt' = IF writes /\ fresh THEN Slot(path525, h) ELSE sessionAt
        /\ sessionData' = IF writes
                          THEN [(IF fresh THEN NoBytes ELSE sessionData)
                                  EXCEPT ![op[1]] = op[2]]
                          ELSE IF ends THEN NoBytes ELSE sessionData
        /\ UNCHANGED <<hostFiles, path525, wozRaw, sel35, saves>>

\* The arm moves towards an adjacent magnet, and stops at both ends.
Stepped(magnet) ==
    LET delta == (magnet - halfTrack + 4) % 4
        h == CASE delta = 1 -> halfTrack + 1
               [] delta = 3 -> halfTrack - 1
               [] OTHER -> halfTrack
    IN  IF h < 0 THEN 0 ELSE IF h > LastHalf THEN LastHalf ELSE h

\* Mutant of Phase: the arm leaves an open session behind.
PhaseOpen(magnet, on, op) ==
    LET ph == IF on THEN phases \cup ({magnet} \cap Sensed) ELSE phases \ {magnet}
        h == IF on /\ ~sel35 THEN Stepped(magnet) ELSE halfTrack
    IN  /\ phases' = ph /\ halfTrack' = h
        /\ UNCHANGED <<enable, drive, q6, q7>>
        /\ DataPart(op, FALSE, h, enable, drive, ph, q6, q7)

\* $C0E0-$C0E7: a magnet of the stepper, or with 35SEL a Sony register line.
Phase(magnet, on, op) ==
    LET ph == IF on THEN phases \cup ({magnet} \cap Sensed) ELSE phases \ {magnet}
        h == IF on /\ ~sel35 THEN Stepped(magnet) ELSE halfTrack
    IN  /\ phases' = ph /\ halfTrack' = h
        /\ UNCHANGED <<enable, drive, q6, q7>>
        /\ DataPart(op, on /\ ~sel35, h, enable, drive, ph, q6, q7)

\* $C0E8: ENABLE falls; the 5.25" writes are committed unless 35SEL is set.
EnableOff ==
    /\ enable' = FALSE
    /\ UNCHANGED <<drive, q6, q7, sel35, phases, halfTrack, path525>>
    /\ IF sel35
       THEN UNCHANGED <<hostFiles, surface, dirtyTracks, wozRaw, open, saves>>
       ELSE /\ FlushDisk525
            /\ surface' = Spliced /\ dirtyTracks' = FlushedDirty /\ wozRaw' = FlushedRaw
            /\ cutShort' = (cutShort \/ saveResult' = "short")
            /\ SessionClosed

\* $C0E9
EnableOn(op) ==
    /\ enable' = TRUE
    /\ UNCHANGED <<drive, q6, q7, phases, halfTrack>>
    /\ DataPart(op, FALSE, halfTrack, TRUE, drive, phases, q6, q7)

\* $C0EA, $C0EB: only a 3.5" session is closed.
SelectDrive(d, op) ==
    /\ drive' = d
    /\ UNCHANGED <<enable, q6, q7, phases, halfTrack>>
    /\ DataPart(op, FALSE, halfTrack, enable, d, phases, q6, q7)

\* $C0EC, $C0ED
Q6Line(on, op) ==
    /\ q6' = on
    /\ UNCHANGED <<enable, drive, q7, phases, halfTrack>>
    /\ DataPart(op, FALSE, halfTrack, enable, drive, phases, on, q7)

\* $C0EE, $C0EF: Q7 falling ends the session of the selected family.
Q7Line(on, op) ==
    /\ q7' = on
    /\ UNCHANGED <<enable, drive, q6, phases, halfTrack>>
    /\ DataPart(op, ~on /\ q7 /\ ~sel35, halfTrack, enable, drive, phases, q6, on)

\* $C031 bit 6.
SetDiskReg(on) ==
    /\ sel35' = on
    /\ UNCHANGED <<hostFiles, media, enable, drive, q6, q7, phases, halfTrack, open, saves>>

\* /RESET clears the controller and $C031; media and arm stay.
Reset ==
    /\ surface' = Spliced /\ dirtyTracks' = SplicedDirty
    /\ SessionClosed
    /\ enable' = FALSE /\ drive' = 0 /\ q6' = FALSE /\ q7' = FALSE
    /\ sel35' = FALSE /\ phases' = {}
    /\ UNCHANGED <<hostFiles, path525, wozRaw, halfTrack, saves>>

-----------------------------------------------------------------------------
(* The user.                                                               *)

\* loadFile() takes f from its file as the flush left it.
Mounted(f) ==
    /\ Loadable(f)
    /\ path525' = f /\ surface' = Loaded(f) /\ dirtyTracks' = {} /\ cutShort' = FALSE
    /\ wozRaw' = IF Images[f].kind = "woz" THEN files'[f] ELSE <<>>
    /\ SessionClosed

\* Mutant of LoadDisk525: the previous disk is not flushed.
LoadUnflushed(f) ==
    /\ UNCHANGED <<hostFiles, saveResult>>
    /\ Mounted(f)
    /\ UNCHANGED <<lines, halfTrack>>

LoadDisk525(f) ==
    /\ FlushDisk525
    /\ Mounted(f)
    /\ UNCHANGED <<lines, halfTrack>>

\* The drive is empty: a save that failed is not tried again.
Emptied ==
    /\ path525' = None /\ surface' = [h \in Half |-> Absent] /\ dirtyTracks' = {}
    /\ wozRaw' = <<>> /\ cutShort' = FALSE
    /\ SessionClosed

\* eject(), or a file loadFile() refuses.
EjectDisk525 ==
    /\ FlushDisk525
    /\ Emptied
    /\ UNCHANGED <<lines, halfTrack>>

\* The program ends: main() flushes the drive, and the next run starts anew.
Exit ==
    /\ FlushDisk525
    /\ Emptied
    /\ enable' = FALSE /\ drive' = 0 /\ q6' = FALSE /\ q7' = FALSE
    /\ sel35' = FALSE /\ phases' = {} /\ halfTrack' = 0

\* The accesses the guest makes at an offset of $C0E0.
Ops(offset) ==
    {None} \cup (IF offset \in WritePorts THEN UNION {GuestWrites[f] : f \in shelf} ELSE {})

DriveNext ==
    \/ \E magnet \in 0 .. 3 :
         \/ \E op \in Ops(2 * magnet) : Phase(magnet, FALSE, op)
         \/ \E op \in Ops(2 * magnet + 1) : Phase(magnet, TRUE, op)
    \/ \E op \in Ops(9) : EnableOn(op)
    \/ /\ shelf \cap Quiet = {}
       /\ \/ \E d \in {0, 1} : \E op \in Ops(10 + d) : SelectDrive(d, op)
          \/ \E on \in BOOLEAN : SetDiskReg(on)
    \/ \E op \in Ops(12) : Q6Line(FALSE, op)
    \/ \E op \in Ops(13) : Q6Line(TRUE, op)
    \/ \E op \in Ops(14) : Q7Line(FALSE, op)
    \/ \E op \in Ops(15) : Q7Line(TRUE, op)
    \/ EnableOff
    \/ Reset
    \/ \E f \in shelf : LoadDisk525(f)
    \/ EjectDisk525 \/ Exit

DriveSpec == DriveInit /\ [][DriveNext]_driveVars

-----------------------------------------------------------------------------
(* Properties.                                                             *)

\* The open session belongs to the position the arm is at: bytes are never
\* spliced on a track the arm has left (Iwm.cpp:50).
SessionUnderArm == wr525Active /\ path525 # None => sessionAt = Slot(path525, halfTrack)

\* A slot without a dirty mark is on the host's file, sector for sector: what
\* motor-off, eject and exit skip is saved, through saves that fail and are
\* tried again.  While a save that was cut short waits for its retry the file
\* is truncated, clean slots included; the retry repairs a WOZ or a .nib, whose
\* tracks are all in memory, not a sector image, composed over the cut file.
CleanIsSaved ==
    path525 # None /\ (cutShort => dirtyTracks = {} /\ Images[path525].kind # "sector") =>
      \A h \in Slots(path525) :
        LET t == IF woz THEN Images[path525].home[h] ELSE h \div 2
        IN  h \notin dirtyTracks =>
              \A s \in Sector :
                surface[h][s] \in Good =>
                  t \in DOMAIN files[path525] /\ files[path525][t][s] = surface[h][s]

\* Image f as the tracks tk of its file hold it.
OnFile(f, tk) ==
    [p \in Slots(f) \X Sector |->
       LET t == IF Images[f].kind = "woz" THEN Images[f].home[p[1]] ELSE p[1] \div 2
       IN  IF t \in DOMAIN tk THEN tk[t][p[2]] ELSE Blank]

\* What the owner of image f sees, slot by slot: the surface with the open
\* session when f is in the drive, its file otherwise.
SeenOf(f) ==
    LET now == Spliced
    IN  IF f = path525 THEN [p \in Slots(f) \X Sector |-> now[p[1]][p[2]]]
        ELSE OnFile(f, files[f])

\* The guest wrote one sector of image f: it is in the drive, not protected,
\* the controller is writing and the sector is under the arm.
GuestWrote(f) ==
    /\ f = path525 /\ path525' = f /\ ~isWriteProtected
    /\ wr525Active' /\ q6' /\ q7' /\ ~sel35' /\ HeadSelected(enable', drive', phases')
    /\ \E s \in Sector :
         LET p == <<Slot(f, halfTrack'), s>>
         IN  SeenOf(f)' = [SeenOf(f) EXCEPT ![p] = sessionData'[s]]

\* Image f leaves the drive, or is loaded again, with all its file can hold:
\* every sector of a WOZ or a .nib, those of a sector image that decode.
LeftWhole(f) ==
    /\ Images[f].kind = "sector"
    /\ \A p \in DOMAIN SeenOf(f) : SeenOf(f)[p] # SeenOf(f)'[p] => SeenOf(f)[p] = Bad

\* Image f leaves after a save that failed, which flushDisk525() does not tell,
\* or as a sector image whose retried save had a truncated file to start from.
LeftLost(f) == saveResult' # "whole" \/ (cutShort /\ Images[f].kind = "sector")

OwnerStep ==
    \/ UNCHANGED <<hostFiles, media, open>>
    \/ \A f \in shelf :
         SeenOf(f)' # SeenOf(f) =>
           /\ f = path525 /\ ~Images[f].protected
           /\ GuestWrote(f) \/ (~wr525Active' /\ (LeftWhole(f) \/ LeftLost(f)))

\* No image, mounted or not, changes by anything but what the guest writes to
\* the sector under the arm of the one in the drive, and a protected one never
\* does.  Leaving the drive loses nothing but the sectors the guest itself left
\* undecodable on a sector image, unless the host failed a save.
OwnerKeepsContents == [][OwnerStep]_driveVars

=============================================================================

------------------------------- MODULE Sony35 -------------------------------
(***************************************************************************)
(* One Sony 3.5" drive: the medium as nibble tracks, the write session the *)
(* head accumulates, the dirty tracks, the decoded sector image and the    *)
(* host file behind it.  Source: Sony35.cpp; the calls come from the IWM   *)
(* (Iwm.cpp, Iwm.h) and from the host (IIgsMemory.h, main.cpp).            *)
(*                                                                         *)
(* A track's contents are one value: a Good value decodes to sectors, Bad  *)
(* does not, Blank is a track that does not exist (a gap in a WOZ).  The   *)
(* sector image and a raw file hold Good values only; a WOZ file holds any. *)
(***************************************************************************)
EXTENDS Integers, Media

CONSTANTS
    Cyls,           \* cylinders per side (80)
    Disks,          \* the image files at the start: [kind, protected, tracks]
    Zero,           \* the Good contents of a zeroed sector image
    NoFile,         \* path_ of an empty drive
    Mounts,         \* how images are inserted: TRUE = read-only (hybrid mount)
    Remount,        \* TRUE: the user may insert the image already in the drive
    GuestTracks     \* bound: tracks the guest writes

File == DOMAIN Disks
Track == 0 .. 2 * Cyls - 1

ASSUME ShapeAssumption ==
    /\ Cyls \in Nat \ {0}
    /\ GuestTracks \subseteq Track
    /\ NoFile \notin File
    /\ WriteBack \in BOOLEAN /\ Remount \in BOOLEAN /\ Mounts \subseteq BOOLEAN

ASSUME ValueAssumption ==
    Zero \in Good /\ Bad \notin Good /\ Blank \notin Good /\ Bad # Blank

ASSUME DisksAssumption ==
    \A f \in File :
      /\ Disks[f].kind \in {"raw", "woz"}
      /\ Disks[f].protected \in BOOLEAN
      /\ Disks[f].tracks \in [Track -> Value]
      /\ Disks[f].kind = "raw" => Disks[f].tracks \in [Track -> Good]

VARIABLES
    store,      \* contents of the host's files
    fmt,        \* container format of the host's files
    path,       \* path_: the file in the drive
    wozBacked,  \* wozBacked_: flush writes a WOZ container
    writeProt,  \* writeProt_
    motorOn,    \* spindle
    cyl,        \* head position
    trk,        \* trk_: nibble tracks
    img,        \* image_: decoded sectors
    wozBits,    \* wozBits_: the bit streams the WOZ file held
    trkDirty,   \* tracks with trkDirty_ set
    wrActive, wrTrk, wrVal   \* the write session: wrActive_, wrTrk_, wrBuf_

host == <<store, fmt>>
medium == <<path, wozBacked, writeProt, trk, img, wozBits>>
mechanism == <<motorOn, cyl>>
session == <<wrActive, wrTrk, wrVal>>
vars == <<host, medium, mechanism, trkDirty, session>>

TypeOK ==
    /\ store \in [File -> [Track -> Value]]
    /\ fmt \in [File -> {"raw", "woz"}]
    /\ \A f \in File : fmt[f] = "raw" => store[f] \in [Track -> Good]
    /\ path \in File \cup {NoFile}
    /\ wozBacked \in BOOLEAN /\ writeProt \in BOOLEAN /\ motorOn \in BOOLEAN
    /\ cyl \in 0 .. Cyls - 1
    /\ trk \in [Track -> Value]
    /\ img \in [Track -> Good]
    /\ wozBits \in [Track -> Value]
    /\ trkDirty \subseteq Track
    /\ wrActive \in BOOLEAN /\ wrTrk \in Track /\ wrVal \in Value
    /\ wrActive => wrVal # Blank
    /\ path = NoFile => ~wrActive /\ trkDirty = {}

present == path # NoFile
NoTracks == [t \in Track |-> Blank]
NoImage == [t \in Track |-> Zero]
curTrk(side) == cyl * 2 + side

Init ==
    /\ store = [f \in File |-> Disks[f].tracks]
    /\ fmt = [f \in File |-> Disks[f].kind]
    /\ path = NoFile /\ wozBacked = FALSE /\ writeProt = FALSE
    /\ motorOn = FALSE /\ cyl = 0
    /\ trk = NoTracks /\ img = NoImage /\ wozBits = NoTracks
    /\ trkDirty = {}
    /\ wrActive = FALSE /\ wrTrk = 0 /\ wrVal = Blank

-----------------------------------------------------------------------------
(* endWrite() and flush(), as the values they leave.                       *)

\* endWrite(): the session's bytes land on the session's track.
Landed == IF wrActive THEN [trk EXCEPT ![wrTrk] = wrVal] ELSE trk

LandedDirty == IF wrActive THEN trkDirty \cup {wrTrk} ELSE trkDirty

\* endWrite() also forgets the session.
Closed == wrActive' = FALSE /\ wrVal' = Blank /\ UNCHANGED wrTrk

\* denibbliseTrack() of the tracks `todo`: a bad track keeps some of its old
\* sectors and takes some of the new ones.
Decoded(im, tk, todo) ==
    LET Lost == {t \in todo : tk[t] \notin Good}
    IN  {[t \in Track |-> IF t \in Lost THEN s[t]
                          ELSE IF t \in todo THEN tk[t] ELSE im[t]] :
           s \in [Lost -> Good]}

\* saveAsWoz(): dirty tracks and tracks without bits from their nibbles, the
\* others from the bits the file had.
SaveAsWoz(tk, dirty) ==
    [t \in Track |-> IF t \in dirty \/ wozBits[t] = Blank THEN tk[t] ELSE wozBits[t]]

\* Mutant of Commits: the write-back gate is forgotten.
CommitsAlways == ~writeProt /\ \E t \in LandedDirty : Landed[t] \in Good

\* flush() reaches the file: a dirty track decoded, and the policy allows it.
Commits == ~writeProt /\ WriteBack /\ \E t \in LandedDirty : Landed[t] \in Good

\* The file after a flush whose decoder left the sectors im: all of them over
\* a raw file; a new WOZ when woz, with trkDirty_ already cleared.
Commit(im, woz) ==
    IF present /\ Commits
    THEN /\ store' = [store EXCEPT ![path] = IF woz THEN SaveAsWoz(Landed, {}) ELSE im]
         /\ fmt' = [fmt EXCEPT ![path] = IF woz THEN "woz" ELSE "raw"]
    ELSE UNCHANGED host

-----------------------------------------------------------------------------
(* Calls from the IWM.                                                     *)

\* writeNibble(): ignored without a spinning, writable, formatted track under
\* the head.  The bytes join the open session, whatever side is selected now.
WriteNibble(side, v) ==
    LET t == curTrk(side)
    IN  /\ present /\ ~writeProt /\ motorOn /\ trk[t] # Blank
        /\ t \in GuestTracks
        /\ wrActive' = TRUE
        /\ wrTrk' = IF wrActive THEN wrTrk ELSE t
        /\ wrVal' = v
        /\ UNCHANGED <<host, medium, mechanism, trkDirty>>

\* endWrite() by itself: Q7 falls, a data read, the other drive is selected,
\* the IWM is reset.
EndWrite ==
    /\ trk' = Landed
    /\ trkDirty' = LandedDirty
    /\ Closed
    /\ UNCHANGED <<host, path, wozBacked, writeProt, img, wozBits, mechanism>>

\* Mutant of Step: the head leaves with the session open.
StepOpen(out) ==
    /\ cyl' = IF out THEN (IF cyl = 0 THEN 0 ELSE cyl - 1)
                     ELSE (IF cyl = Cyls - 1 THEN cyl ELSE cyl + 1)
    /\ UNCHANGED <<host, medium, motorOn, trkDirty, session>>

\* Command 2: one cylinder in or out, stopped at both ends.
Step(out) ==
    /\ trk' = Landed
    /\ trkDirty' = LandedDirty
    /\ Closed
    /\ cyl' = IF out THEN (IF cyl = 0 THEN 0 ELSE cyl - 1)
                     ELSE (IF cyl = Cyls - 1 THEN cyl ELSE cyl + 1)
    /\ UNCHANGED <<host, path, wozBacked, writeProt, img, wozBits, motorOn>>

\* Command 4.
MotorOn ==
    /\ motorOn' = TRUE
    /\ UNCHANGED <<host, medium, cyl, trkDirty, session>>

\* flush() of the medium in the drive, which stays there.
FlushInPlace ==
    /\ trk' = Landed
    /\ trkDirty' = {}
    /\ Closed
    /\ img' \in Decoded(img, Landed, LandedDirty)
    /\ Commit(img', wozBacked)
    /\ UNCHANGED <<path, wozBacked, writeProt, wozBits, cyl>>

\* Mutant of MotorOff: the spindle stops without the flush.
MotorOffQuiet ==
    /\ motorOn' = FALSE
    /\ UNCHANGED <<host, medium, cyl, trkDirty, session>>

\* Command $C: the spindle stops and the writes are committed.
MotorOff ==
    /\ motorOn' = FALSE
    /\ FlushInPlace

\* flush() alone: the IWM's enable falls, a snapshot is saved, the program
\* exits.
Flush ==
    /\ FlushInPlace
    /\ UNCHANGED motorOn

-----------------------------------------------------------------------------
(* The medium changes.                                                     *)

\* Mutant of Eject: whether there is something to save is asked before the
\* session lands.
EjectEarly ==
    /\ IF trkDirty = {} THEN UNCHANGED host
       ELSE \E im \in Decoded(img, Landed, LandedDirty) : Commit(im, wozBacked)
    /\ path' = NoFile
    /\ trk' = NoTracks /\ img' = NoImage
    /\ trkDirty' = {}
    /\ Closed
    /\ UNCHANGED <<wozBacked, writeProt, wozBits, mechanism>>

\* eject(): by command $E or by the user.
Eject ==
    /\ \E im \in Decoded(img, Landed, LandedDirty) : Commit(im, wozBacked)
    /\ path' = NoFile
    /\ trk' = NoTracks /\ img' = NoImage
    /\ trkDirty' = {}
    /\ Closed
    /\ UNCHANGED <<wozBacked, writeProt, wozBits, mechanism>>

Insertable(f) == Remount \/ path # f

\* loadImage() of a raw or 2IMG file.  The file is read first; wozBacked_ is
\* cleared before the old disk is flushed.
InsertRaw(f, readOnly) ==
    /\ Insertable(f) /\ fmt[f] = "raw"
    /\ \E im \in Decoded(img, Landed, LandedDirty) : Commit(im, FALSE)
    /\ path' = f /\ wozBacked' = FALSE
    /\ writeProt' = (Disks[f].protected \/ readOnly)
    /\ trk' = store[f] /\ img' = store[f]
    /\ trkDirty' = {}
    /\ Closed
    /\ UNCHANGED <<wozBits, mechanism>>

\* loadImage() of a WOZ file: loadWoz().
InsertWoz(f, readOnly) ==
    /\ Insertable(f) /\ fmt[f] = "woz"
    /\ \E im \in Decoded(img, Landed, LandedDirty) : Commit(im, wozBacked)
    /\ path' = f /\ wozBacked' = TRUE
    /\ writeProt' = (Disks[f].protected \/ readOnly)
    /\ trk' = store[f] /\ wozBits' = store[f]
    /\ img' \in Decoded(NoImage, store[f], {t \in Track : store[f][t] # Blank})
    /\ trkDirty' = {}
    /\ Closed
    /\ UNCHANGED mechanism

\* loadImage() of a file that is neither WOZ nor large enough: refused, with
\* wozBacked_ already cleared.
InsertRefused ==
    /\ wozBacked' = FALSE
    /\ UNCHANGED <<host, path, writeProt, trk, img, wozBits, mechanism, trkDirty, session>>

Next ==
    \/ \E side \in {0, 1}, v \in Good \cup {Bad} : WriteNibble(side, v)
    \/ EndWrite
    \/ \E out \in BOOLEAN : Step(out)
    \/ MotorOn \/ MotorOff \/ Flush
    \/ Eject
    \/ \E f \in File, readOnly \in Mounts : InsertRaw(f, readOnly) \/ InsertWoz(f, readOnly)
    \/ InsertRefused

Spec == Init /\ [][Next]_vars

-----------------------------------------------------------------------------
(* Properties.                                                             *)

\* With the spindle stopped, every readable track of a mounted image is on
\* the host's file: killing the emulator then loses nothing ("spindle off ->
\* commit writes", Sony35.cpp:308).
StoppedIsDurable ==
    present /\ ~motorOn /\ ~writeProt =>
        \A t \in Track : trk[t] \in Good => store[path][t] = trk[t]

\* The open session belongs to the cylinder the head is on: bytes are never
\* spliced on a track the head has left.
SessionUnderHead == wrActive => wrTrk \div 2 = cyl

\* With write-back off no guest write, swap or eject touches a host file
\* (Sony35.h:61-63).
HostUntouched == [][UNCHANGED host]_vars

\* A file keeps its container format: a .woz is never overwritten with raw
\* sectors, as it once was (Sony35.cpp:58-62).
FormatKept == \A f \in File : fmt[f] = Disks[f].kind

\* The contents the owner sees: the mounted image from its tracks and the
\* open session, the others from their files.
Seen == [f \in File |-> IF f = path THEN Landed ELSE store[f]]

\* The track of the open session.
WriteHead == IF wrActive THEN <<path, wrTrk>> ELSE <<>>

Store == INSTANCE MediaStore WITH content <- Seen, head <- WriteHead

\* The drive implements MediaStore.
ImplementsStore == Store!Spec

=============================================================================

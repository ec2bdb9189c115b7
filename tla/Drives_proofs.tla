---------------------------- MODULE Drives_proofs ----------------------------
(***************************************************************************)
(* Proofs about the two kinds of drive, Sony35 and Disk525, for every set  *)
(* of images and guest, and any number of cylinders, arm travel or number  *)
(* of sectors.                                                             *)
(*                                                                         *)
(* Of Sony35: the type of the state; that a write session never outlives   *)
(* the head's stay on its cylinder; and, for raw images with write-back    *)
(* on, that a stopped spindle means a saved image and that the drive       *)
(* implements MediaStore.                                                  *)
(*                                                                         *)
(* Of Disk525: the type of the state; that a write session never outlives  *)
(* the arm's stay over its track; and, when images have one place on file  *)
(* for each position, that what carries no mark is on the file and that    *)
(* only the guest's writes change it.                                      *)
(***************************************************************************)
EXTENDS Sony35, Disk525, WellFoundedInduction, TLAPS

-----------------------------------------------------------------------------
(* The 3.5" drive: values.                                                 *)

LEMMA Values ==
    /\ Good \subseteq Value /\ Bad \in Value /\ Blank \in Value /\ Zero \in Good
    /\ Blank \notin Good /\ Bad \notin Good /\ Bad # Blank
BY ValueAssumption DEF Value

\* The head of a side of a cylinder is on a track of that cylinder.
LEMMA HeadTrack ==
    ASSUME cyl \in 0 .. Cyls - 1, NEW side \in {0, 1}
    PROVE  curTrk(side) \in Track /\ curTrk(side) \div 2 = cyl
<1>1. Cyls \in Nat \ {0} /\ cyl \in Nat /\ cyl < Cyls
  BY ShapeAssumption
<1>2. cyl * 2 + side \in 0 .. 2 * Cyls - 1 /\ (cyl * 2 + side) \div 2 = cyl
  BY <1>1
<1>. QED
  BY <1>2 DEF curTrk, Track

LEMMA LandedType ==
    ASSUME TypeOK
    PROVE  /\ Landed \in [Track -> Value]
           /\ LandedDirty \subseteq Track
           /\ \A t \in Track : t \notin LandedDirty => Landed[t] = trk[t]
           /\ \A t \in Track : trk[t] # Blank => Landed[t] # Blank
           /\ ~wrActive => Landed = trk /\ LandedDirty = trkDirty
           /\ trkDirty \subseteq LandedDirty
BY DEF Landed, LandedDirty, TypeOK

\* A decoder gives every track back that is decodable and asked for, leaves
\* those not asked for, and makes up the others.
LEMMA DecodedIs ==
    ASSUME NEW im \in [Track -> Good], NEW tk \in [Track -> Value], NEW todo, todo \subseteq Track,
           NEW new \in Decoded(im, tk, todo)
    PROVE  /\ new \in [Track -> Good]
           /\ \A t \in todo : tk[t] \in Good => new[t] = tk[t]
           /\ \A t \in Track \ todo : new[t] = im[t]
<1> DEFINE Lost == {t \in todo : tk[t] \notin Good}
<1>1. PICK s \in [Lost -> Good] :
         new = [t \in Track |-> IF t \in Lost THEN s[t] ELSE IF t \in todo THEN tk[t] ELSE im[t]]
  BY DEF Decoded
<1>. QED
  BY <1>1

\* A flush changes the mounted file only, to sectors, or to a container.
LEMMA CommitType ==
    ASSUME TypeOK, NEW im \in [Track -> Good], NEW asWoz \in BOOLEAN, Commit(im, asWoz)
    PROVE  /\ store' \in [File -> [Track -> Value]]
           /\ fmt' \in [File -> {"raw", "woz"}]
           /\ \A f \in File : fmt'[f] = "raw" => store'[f] \in [Track -> Good]
<1>1. CASE present /\ Commits
  <2>1. path \in File
    BY <1>1 DEF present, TypeOK
  <2> DEFINE new == IF asWoz THEN SaveAsWoz(Landed, {}) ELSE im
             kind == IF asWoz THEN "woz" ELSE "raw"
  <2>2. SaveAsWoz(Landed, {}) \in [Track -> Value]
    BY LandedType DEF SaveAsWoz, TypeOK
  <2>3. /\ new \in [Track -> Value] /\ kind \in {"raw", "woz"}
        /\ kind = "raw" => new \in [Track -> Good]
    BY <2>2, Values
  <2>4. store' = [store EXCEPT ![path] = new] /\ fmt' = [fmt EXCEPT ![path] = kind]
    BY <1>1 DEF Commit
  <2>. HIDE DEF new, kind
  <2>. QED
    BY <2>1, <2>3, <2>4 DEF TypeOK
<1>2. CASE ~(present /\ Commits)
  BY <1>2 DEF Commit, host, TypeOK
<1>. QED
  BY <1>1, <1>2

-----------------------------------------------------------------------------
(* Type correctness.                                                       *)

HostOK35 ==
    /\ store \in [File -> [Track -> Value]]
    /\ fmt \in [File -> {"raw", "woz"}]
    /\ \A f \in File : fmt[f] = "raw" => store[f] \in [Track -> Good]

LEMMA InitType35 == Init => TypeOK
<1> SUFFICES ASSUME Init PROVE TypeOK
  OBVIOUS
<1>1. Cyls \in Nat \ {0} /\ 0 \in Track /\ 0 \in 0 .. Cyls - 1
  BY ShapeAssumption DEF Track
<1>2. HostOK35
  BY DisksAssumption DEF Init, HostOK35
<1>3. /\ trk \in [Track -> Value] /\ img \in [Track -> Good] /\ wozBits \in [Track -> Value]
      /\ wrVal \in Value
  BY Values DEF Init, NoTracks, NoImage
<1>. QED
  BY <1>1, <1>2, <1>3 DEF Init, TypeOK, HostOK35

\* The flush of the medium that stays.
LEMMA FlushType35 ==
    ASSUME TypeOK, FlushInPlace
    PROVE  /\ HostOK35' /\ trk' \in [Track -> Value] /\ img' \in [Track -> Good]
           /\ trkDirty' = {} /\ wrActive' = FALSE /\ wrVal' = Blank /\ wrTrk' = wrTrk
           /\ UNCHANGED <<path, wozBacked, writeProt, wozBits, cyl>>
<1>1. /\ trk' = Landed /\ trkDirty' = {} /\ Closed
      /\ img' \in Decoded(img, Landed, LandedDirty)
      /\ Commit(img', wozBacked)
      /\ UNCHANGED <<path, wozBacked, writeProt, wozBits, cyl>>
  BY DEF FlushInPlace
<1>2. Landed \in [Track -> Value] /\ LandedDirty \subseteq Track
  BY LandedType
<1>3. img' \in [Track -> Good]
  BY <1>1, <1>2, DecodedIs DEF TypeOK
<1>4. HostOK35'
  BY <1>1, <1>3, CommitType DEF HostOK35, TypeOK
<1>. QED
  BY <1>1, <1>2, <1>3, <1>4 DEF Closed

\* The flush of a medium that leaves.
LEMMA LeaveType ==
    ASSUME TypeOK, NEW asWoz \in BOOLEAN,
           \E im \in Decoded(img, Landed, LandedDirty) : Commit(im, asWoz)
    PROVE  HostOK35'
<1>1. PICK im \in Decoded(img, Landed, LandedDirty) : Commit(im, asWoz)
  OBVIOUS
<1>2. im \in [Track -> Good]
  BY LandedType, DecodedIs DEF TypeOK
<1>. QED
  BY <1>1, <1>2, CommitType DEF HostOK35

LEMMA NextType35 == TypeOK /\ [Next]_vars => TypeOK'
<1> SUFFICES ASSUME TypeOK, [Next]_vars PROVE TypeOK'
  OBVIOUS
<1>1. ASSUME NEW side \in {0, 1}, NEW v \in Good \cup {Bad}, WriteNibble(side, v) PROVE TypeOK'
  <2>1. curTrk(side) \in Track
    BY HeadTrack DEF TypeOK
  <2>2. /\ path # NoFile /\ wrActive' = TRUE /\ wrVal' = v
        /\ wrTrk' = IF wrActive THEN wrTrk ELSE curTrk(side)
        /\ UNCHANGED <<store, fmt, path, wozBacked, writeProt, trk, img, wozBits, motorOn, cyl,
                       trkDirty>>
    BY <1>1 DEF WriteNibble, present, host, medium, mechanism
  <2>3. v \in Value /\ v # Blank
    BY Values
  <2>. QED
    BY <2>1, <2>2, <2>3 DEF TypeOK
<1>2. ASSUME trk' = Landed, trkDirty' = LandedDirty, Closed, cyl' \in 0 .. Cyls - 1,
             UNCHANGED <<host, path, wozBacked, writeProt, img, wozBits, motorOn>>
      PROVE  TypeOK'
  <2>1. Landed \in [Track -> Value] /\ LandedDirty \subseteq Track
    BY LandedType
  <2>2. path = NoFile => LandedDirty = {}
    BY DEF LandedDirty, TypeOK
  <2>. QED
    BY <1>2, <2>1, <2>2, Values DEF TypeOK, Closed, host
<1>3. CASE EndWrite
  BY <1>2, <1>3 DEF EndWrite, mechanism, TypeOK
<1>4. ASSUME NEW out \in BOOLEAN, Step(out) PROVE TypeOK'
  <2>1. Cyls \in Nat \ {0} /\ cyl \in 0 .. Cyls - 1
    BY ShapeAssumption DEF TypeOK
  <2>2. cyl' = IF out THEN (IF cyl = 0 THEN 0 ELSE cyl - 1)
                      ELSE (IF cyl = Cyls - 1 THEN cyl ELSE cyl + 1)
    BY <1>4 DEF Step
  <2>3. cyl' \in 0 .. Cyls - 1
    BY <2>1, <2>2
  <2>. QED
    BY <1>2, <1>4, <2>3 DEF Step
<1>5. CASE MotorOn
  BY <1>5 DEF MotorOn, host, medium, session, TypeOK
<1>6. ASSUME FlushInPlace, motorOn' \in BOOLEAN PROVE TypeOK'
  BY <1>6, FlushType35, Values DEF TypeOK, HostOK35
<1>7. CASE MotorOff
  BY <1>6, <1>7 DEF MotorOff
<1>8. CASE Flush
  BY <1>6, <1>8 DEF Flush, TypeOK
<1>9. CASE Eject
  <2>1. HostOK35'
    BY <1>9, LeaveType DEF Eject, TypeOK
  <2>. QED
    BY <1>9, <2>1, Values DEF Eject, TypeOK, HostOK35, Closed, mechanism, NoTracks, NoImage
<1>10. ASSUME NEW f \in File, NEW readOnly \in Mounts, InsertRaw(f, readOnly) PROVE TypeOK'
  <2>1. HostOK35'
    BY <1>10, LeaveType DEF InsertRaw
  <2>2. store[f] \in [Track -> Good] /\ store[f] \in [Track -> Value]
    BY <1>10 DEF InsertRaw, TypeOK
  <2>3. writeProt' \in BOOLEAN
    BY <1>10, DisksAssumption, ShapeAssumption DEF InsertRaw
  <2>. QED
    BY <1>10, <2>1, <2>2, <2>3, Values, ShapeAssumption
    DEF InsertRaw, TypeOK, HostOK35, Closed, mechanism
<1>11. ASSUME NEW f \in File, NEW readOnly \in Mounts, InsertWoz(f, readOnly) PROVE TypeOK'
  <2>1. HostOK35'
    BY <1>11, LeaveType DEF InsertWoz, TypeOK
  <2>2. store[f] \in [Track -> Value]
    BY DEF TypeOK
  <2>3. img' \in [Track -> Good]
    <3>1. NoImage \in [Track -> Good]
      BY Values DEF NoImage
    <3>. QED
      BY <1>11, <2>2, <3>1, DecodedIs DEF InsertWoz
  <2>4. writeProt' \in BOOLEAN
    BY <1>11, DisksAssumption, ShapeAssumption DEF InsertWoz
  <2>. QED
    BY <1>11, <2>1, <2>2, <2>3, <2>4, Values, ShapeAssumption
    DEF InsertWoz, TypeOK, HostOK35, Closed, mechanism
<1>12. CASE InsertRefused
  BY <1>12 DEF InsertRefused, host, mechanism, session, TypeOK
<1>13. CASE UNCHANGED vars
  BY <1>13 DEF vars, host, medium, mechanism, session, TypeOK
<1>. QED
  BY <1>1, <1>3, <1>4, <1>5, <1>7, <1>8, <1>9, <1>10, <1>11, <1>12, <1>13 DEF Next

\* Every call leaves a state of the drive's type, whatever the images.
THEOREM DriveTyped == Spec => []TypeOK
<1>. QED
  BY InitType35, NextType35, PTL DEF Spec

-----------------------------------------------------------------------------
(* The write session and the head.                                         *)

LEMMA NextSession35 == TypeOK /\ SessionUnderHead /\ [Next]_vars => SessionUnderHead'
<1> SUFFICES ASSUME TypeOK, SessionUnderHead, [Next]_vars PROVE SessionUnderHead'
  OBVIOUS
<1>1. ASSUME NEW side \in {0, 1}, NEW v, WriteNibble(side, v) PROVE SessionUnderHead'
  <2>1. curTrk(side) \div 2 = cyl
    BY HeadTrack DEF TypeOK
  <2>2. cyl' = cyl /\ wrTrk' = IF wrActive THEN wrTrk ELSE curTrk(side)
    BY <1>1 DEF WriteNibble, mechanism
  <2>3. wrTrk' \div 2 = cyl
    BY <2>1, <2>2 DEF SessionUnderHead
  <2>. QED
    BY <2>2, <2>3 DEF SessionUnderHead
<1>2. ASSUME Closed PROVE SessionUnderHead'
  BY <1>2 DEF Closed, SessionUnderHead
<1>3. CASE EndWrite \/ MotorOff \/ Flush \/ Eject \/ \E out \in BOOLEAN : Step(out)
  BY <1>2, <1>3 DEF EndWrite, MotorOff, Flush, FlushInPlace, Eject, Step
<1>4. ASSUME NEW f \in File, NEW readOnly \in Mounts,
             InsertRaw(f, readOnly) \/ InsertWoz(f, readOnly)
      PROVE  SessionUnderHead'
  BY <1>2, <1>4 DEF InsertRaw, InsertWoz
<1>5. ASSUME UNCHANGED <<cyl, session>> PROVE SessionUnderHead'
  BY <1>5 DEF session, SessionUnderHead
<1>6. CASE MotorOn \/ InsertRefused \/ UNCHANGED vars
  BY <1>5, <1>6 DEF MotorOn, InsertRefused, mechanism, vars
<1>. QED
  BY <1>1, <1>3, <1>4, <1>6 DEF Next

\* Whatever the guest and the user do, the bytes of an open session are for the
\* cylinder the head is on.
THEOREM SessionUnderHeadTheorem == Spec => []SessionUnderHead
<1>1. Init => SessionUnderHead
  BY DEF Init, SessionUnderHead
<1>. QED
  BY <1>1, DriveTyped, NextSession35, PTL DEF Spec

-----------------------------------------------------------------------------
(* Files that must not change, whatever their container.                   *)

\* What a step that may write the file in the drive leaves of host files.
LEMMA NextHost ==
    ASSUME [Next]_vars
    PROVE  \/ UNCHANGED host
           \/ \E im, asWoz : present /\ Commits /\ Commit(im, asWoz)
<1> DEFINE Written == UNCHANGED host \/ \E im, asWoz : present /\ Commits /\ Commit(im, asWoz)
<1>1. ASSUME NEW im, NEW asWoz, Commit(im, asWoz) PROVE Written
  <2>1. CASE present /\ Commits
    BY <1>1, <2>1
  <2>2. CASE ~(present /\ Commits)
    BY <1>1, <2>2 DEF Commit
  <2>. QED
    BY <2>1, <2>2
<1>2. ASSUME FlushInPlace PROVE Written
  BY <1>1, <1>2, Zenon DEF FlushInPlace
<1>3. ASSUME MotorOff \/ Flush PROVE Written
  BY <1>2, <1>3, Zenon DEF MotorOff, Flush
<1>4. ASSUME Eject PROVE Written
  <2>1. PICK im : Commit(im, wozBacked)
    BY <1>4, Zenon DEF Eject
  <2>. QED
    BY <1>1, <2>1, Zenon
<1>5. ASSUME NEW f \in File, NEW readOnly \in Mounts,
             InsertRaw(f, readOnly) \/ InsertWoz(f, readOnly)
      PROVE  Written
  <2>1. PICK im, asWoz : Commit(im, asWoz)
    BY <1>5, Zenon DEF InsertRaw, InsertWoz
  <2>. QED
    BY <1>1, <2>1, Zenon
<1>6. ASSUME NEW side, NEW v, WriteNibble(side, v) PROVE Written
  BY <1>6 DEF WriteNibble
<1>7. ASSUME NEW out, Step(out) PROVE Written
  BY <1>7 DEF Step
<1>8. ASSUME EndWrite \/ MotorOn \/ InsertRefused \/ UNCHANGED vars PROVE Written
  BY <1>8 DEF EndWrite, MotorOn, InsertRefused, vars, host
<1>9. Next \/ UNCHANGED vars
  OBVIOUS
<1> HIDE DEF Written
<1>10. Written
  BY <1>3, <1>4, <1>5, <1>6, <1>7, <1>8, <1>9, Zenon DEF Next
<1>. QED
  BY <1>10 DEF Written

\* With write-back off no call touches a host file, raw or WOZ, whatever is
\* inserted over what and however often.
THEOREM SealedHostUntouched == ~WriteBack /\ Spec => HostUntouched
<1> SUFFICES ASSUME ~WriteBack PROVE Spec => HostUntouched
  OBVIOUS
<1>1. [Next]_vars => [UNCHANGED host]_vars
  BY NextHost DEF Commits
<1>. QED
  BY <1>1, PTL DEF Spec, HostUntouched

\* A write-protected file in the drive is seen as protected by flush().
ProtectionKnown == present /\ Disks[path].protected => writeProt

\* A protected file, and every file with write-back off, keeps its contents and
\* its container: saveAsWoz() and the raw flush write only the file of the
\* medium in the drive, under the protection found when it was inserted.
ProtectedKept ==
    \A f \in File : Disks[f].protected \/ ~WriteBack =>
      store[f] = Disks[f].tracks /\ fmt[f] = Disks[f].kind

LEMMA NextProtected == ProtectionKnown /\ ProtectedKept /\ TypeOK /\ [Next]_vars =>
                         ProtectionKnown' /\ ProtectedKept'
<1> SUFFICES ASSUME ProtectionKnown, ProtectedKept, TypeOK, [Next]_vars
             PROVE  ProtectionKnown' /\ ProtectedKept'
  OBVIOUS
<1>1. ProtectionKnown'
  <2>1. \/ UNCHANGED <<path, writeProt>>
        \/ path' = NoFile
        \/ writeProt' = TRUE
        \/ \E f \in File : path' = f /\ (Disks[f].protected => writeProt' = TRUE)
    <3>1. ASSUME NEW f \in File, NEW readOnly \in Mounts,
                 InsertRaw(f, readOnly) \/ InsertWoz(f, readOnly)
          PROVE  path' = f /\ (Disks[f].protected => writeProt' = TRUE)
      BY <3>1, Zenon DEF InsertRaw, InsertWoz
    <3>2. CASE Eject
      BY <3>2 DEF Eject
    <3>3. ASSUME \/ \E side \in {0, 1}, v \in Good \cup {Bad} : WriteNibble(side, v)
                 \/ EndWrite
                 \/ \E out \in BOOLEAN : Step(out)
                 \/ MotorOn \/ MotorOff \/ Flush \/ InsertRefused
                 \/ UNCHANGED vars
          PROVE  UNCHANGED <<path, writeProt>>
      BY <3>3 DEF WriteNibble, EndWrite, Step, MotorOn, MotorOff, Flush, FlushInPlace,
                  InsertRefused, vars, medium
    <3>. QED
      BY <3>1, <3>2, <3>3 DEF Next
  <2>. QED
    BY <2>1 DEF ProtectionKnown, present
<1>2. ProtectedKept'
  <2>1. CASE UNCHANGED host
    BY <2>1 DEF ProtectedKept, host
  <2>2. ASSUME NEW im, NEW asWoz, present, Commits, Commit(im, asWoz) PROVE ProtectedKept'
    <3>1. ~Disks[path].protected /\ WriteBack /\ path \in File
      BY <2>2 DEF Commits, ProtectionKnown, present, TypeOK
    <3>2. ASSUME NEW f \in File, f # path PROVE store'[f] = store[f] /\ fmt'[f] = fmt[f]
      BY <2>2, <3>2 DEF Commit, TypeOK
    <3>. QED
      BY <3>1, <3>2 DEF ProtectedKept
  <2>. QED
    BY <2>1, <2>2, NextHost
<1>. QED
  BY <1>1, <1>2

\* Whatever the guest writes and the user inserts, no protected file changes,
\* and none at all with write-back off.
THEOREM ProtectedFilesKept == Spec => []ProtectedKept
<1>1. Init => ProtectionKnown /\ ProtectedKept
  BY DEF Init, ProtectionKnown, ProtectedKept, present
<1>. QED
  BY <1>1, DriveTyped, NextProtected, PTL DEF Spec

-----------------------------------------------------------------------------
(* Raw images with write-back on, never inserted over themselves: the      *)
(* inductive invariant.                                                    *)

RawOnly == WriteBack = TRUE /\ Remount = FALSE /\ \A f \in File : Disks[f].kind = "raw"

RawFiles == wozBacked = FALSE /\ \A f \in File : fmt[f] = "raw"

\* The spindle stops with everything committed.
StoppedIsIdle == ~motorOn => ~wrActive /\ trkDirty = {}

\* A protected medium is never written, and a clean track that decodes is the
\* sector image's and the file's.
CleanIsStored ==
    present =>
      /\ Disks[path].protected => writeProt
      /\ writeProt => ~wrActive /\ trkDirty = {}
      /\ \A t \in Track : trk[t] # Blank
      /\ \A t \in Track \ trkDirty : trk[t] \in Good => img[t] = trk[t] /\ store[path][t] = trk[t]

RawInv == TypeOK /\ RawFiles /\ StoppedIsIdle /\ CleanIsStored

\* After the flush every track that decodes is on the file it leaves.
LEMMA FlushStores ==
    ASSUME RawOnly, RawInv, NEW im \in Decoded(img, Landed, LandedDirty), Commit(im, FALSE)
    PROVE  /\ \A f \in File : fmt'[f] = "raw"
           /\ store' \in [File -> [Track -> Good]]
           /\ \A f \in File : f # path => store'[f] = store[f]
           /\ ~present => store' = store
           /\ present => \A t \in Track : Landed[t] \in Good =>
                             im[t] = Landed[t] /\ store'[path][t] = Landed[t]
<1>1. TypeOK /\ CleanIsStored /\ \A f \in File : fmt[f] = "raw"
  BY DEF RawInv, RawFiles
<1>2. /\ im \in [Track -> Good]
      /\ \A t \in LandedDirty : Landed[t] \in Good => im[t] = Landed[t]
      /\ \A t \in Track \ LandedDirty : im[t] = img[t]
  <2>1. /\ Landed \in [Track -> Value] /\ LandedDirty \subseteq Track
        /\ img \in [Track -> Good] /\ im \in Decoded(img, Landed, LandedDirty)
    BY <1>1, LandedType DEF TypeOK
  <2>2. im \in [Track -> Good]
    BY <2>1, DecodedIs
  <2>3. \A t \in LandedDirty : Landed[t] \in Good => im[t] = Landed[t]
    BY <2>1, DecodedIs
  <2>4. \A t \in Track \ LandedDirty : im[t] = img[t]
    BY <2>1, DecodedIs
  <2>. QED
    BY <2>2, <2>3, <2>4
<1>3. store \in [File -> [Track -> Good]]
  <2>1. store \in [File -> [Track -> Value]] /\ \A f \in File : store[f] \in [Track -> Good]
    BY <1>1 DEF TypeOK
  <2>. QED
    BY <2>1
<1>4. ASSUME present, NEW t \in Track, Landed[t] \in Good
      PROVE  im[t] = Landed[t] /\ (t \notin LandedDirty => store[path][t] = Landed[t])
  <2>1. CASE t \in LandedDirty
    BY <1>2, <1>4, <2>1
  <2>2. CASE t \notin LandedDirty
    <3>1. Landed[t] = trk[t] /\ t \notin trkDirty
      BY <1>1, <2>2, LandedType
    <3>2. img[t] = trk[t] /\ store[path][t] = trk[t]
      BY <1>1, <1>4, <3>1 DEF CleanIsStored
    <3>. QED
      BY <1>2, <2>2, <3>1, <3>2
  <2>. QED
    BY <2>1, <2>2
<1>5. CASE present /\ Commits
  <2>1. path \in File
    BY <1>1, <1>5 DEF present, TypeOK
  <2>2. store' = [store EXCEPT ![path] = im] /\ fmt' = [fmt EXCEPT ![path] = "raw"]
    BY <1>5 DEF Commit
  <2>3. store' \in [File -> [Track -> Good]] /\ store'[path] = im
    BY <1>2, <1>3, <2>1, <2>2
  <2>4. \A f \in File : fmt'[f] = "raw" /\ (f # path => store'[f] = store[f])
    BY <1>1, <1>3, <2>1, <2>2 DEF TypeOK
  <2>. QED
    BY <1>4, <1>5, <2>3, <2>4
<1>6. CASE present /\ ~Commits
  <2>1. store' = store /\ fmt' = fmt
    BY <1>6 DEF Commit, host
  <2>2. ASSUME NEW t \in LandedDirty PROVE Landed[t] \notin Good
    <3>1. CASE writeProt
      BY <1>1, <1>6, <3>1, LandedType DEF CleanIsStored
    <3>2. CASE ~writeProt
      BY <1>6, <3>2 DEF Commits, RawOnly
    <3>. QED
      BY <3>1, <3>2
  <2>3. ASSUME NEW t \in Track, Landed[t] \in Good
        PROVE  im[t] = Landed[t] /\ store'[path][t] = Landed[t]
    BY <1>4, <1>6, <2>1, <2>2, <2>3
  <2>. QED
    BY <1>1, <1>3, <1>6, <2>1, <2>3
<1>7. CASE ~present
  <2>1. store' = store /\ fmt' = fmt
    BY <1>7 DEF Commit, host
  <2>. QED
    BY <1>1, <1>3, <1>7, <2>1
<1>. QED
  BY <1>5, <1>6, <1>7

LEMMA InitRaw == RawOnly /\ Init => RawInv
<1> SUFFICES ASSUME RawOnly, Init PROVE RawInv
  OBVIOUS
<1>1. TypeOK
  BY InitType35
<1>2. RawFiles
  <2>1. wozBacked = FALSE /\ fmt = [f \in File |-> Disks[f].kind]
    BY DEF Init
  <2>. QED
    BY <2>1 DEF RawOnly, RawFiles
<1>3. StoppedIsIdle /\ CleanIsStored
  BY DEF Init, StoppedIsIdle, CleanIsStored, present
<1>. QED
  BY <1>1, <1>2, <1>3 DEF RawInv

LEMMA NextRaw == RawOnly /\ RawInv /\ [Next]_vars => RawInv'
<1> SUFFICES ASSUME RawOnly, TypeOK, RawFiles, StoppedIsIdle, CleanIsStored, [Next]_vars
             PROVE  RawFiles' /\ StoppedIsIdle' /\ CleanIsStored'
  BY NextType35 DEF RawInv
<1> DEFINE OK == RawFiles' /\ StoppedIsIdle' /\ CleanIsStored'
<1>a. RawInv
  BY DEF RawInv
<1>1. ASSUME NEW side \in {0, 1}, NEW v \in Good \cup {Bad}, WriteNibble(side, v) PROVE OK
  <2>1. /\ motorOn /\ ~writeProt /\ motorOn' = motorOn
        /\ UNCHANGED <<store, fmt, path, wozBacked, writeProt, trk, img, trkDirty>>
    BY <1>1 DEF WriteNibble, host, medium, mechanism
  <2>. QED
    BY <2>1 DEF RawFiles, StoppedIsIdle, CleanIsStored, present
<1>2. ASSUME trk' = Landed, trkDirty' = LandedDirty, Closed,
             UNCHANGED <<host, path, wozBacked, writeProt, img, motorOn>>
      PROVE  OK
  <2>1. RawFiles' /\ StoppedIsIdle'
    BY <1>2, LandedType DEF RawFiles, StoppedIsIdle, Closed, host
  <2>2. CleanIsStored'
    <3>1. /\ \A t \in Track : t \notin LandedDirty => Landed[t] = trk[t] /\ t \notin trkDirty
          /\ \A t \in Track : trk[t] # Blank => Landed[t] # Blank
          /\ ~wrActive => LandedDirty = trkDirty
      BY LandedType
    <3>. QED
      BY <1>2, <3>1 DEF CleanIsStored, present, Closed, host
  <2>. QED
    BY <2>1, <2>2
<1>3. CASE EndWrite \/ \E out \in BOOLEAN : Step(out)
  BY <1>2, <1>3 DEF EndWrite, Step, mechanism
<1>4. CASE MotorOn
  BY <1>4 DEF MotorOn, host, medium, session, RawFiles, StoppedIsIdle, CleanIsStored, present
<1>5. ASSUME FlushInPlace PROVE OK
  <2>1. /\ trk' = Landed /\ trkDirty' = {} /\ wrActive' = FALSE
        /\ img' \in Decoded(img, Landed, LandedDirty)
        /\ Commit(img', FALSE)
        /\ UNCHANGED <<path, wozBacked, writeProt>>
    BY <1>5 DEF FlushInPlace, Closed, RawFiles
  <2>2. /\ \A f \in File : fmt'[f] = "raw"
        /\ present => \A t \in Track : Landed[t] \in Good =>
                          img'[t] = Landed[t] /\ store'[path][t] = Landed[t]
    BY <1>a, <2>1, FlushStores
  <2>3. \A t \in Track : trk[t] # Blank => Landed[t] # Blank
    BY LandedType
  <2>. QED
    BY <2>1, <2>2, <2>3 DEF RawFiles, StoppedIsIdle, CleanIsStored, present
<1>6. CASE MotorOff \/ Flush
  BY <1>5, <1>6 DEF MotorOff, Flush
<1>7. CASE Eject
  <2>1. PICK im \in Decoded(img, Landed, LandedDirty) : Commit(im, FALSE)
    BY <1>7 DEF Eject, RawFiles
  <2>2. \A f \in File : fmt'[f] = "raw"
    BY <1>a, <2>1, FlushStores
  <2>. QED
    BY <1>7, <2>2
    DEF Eject, Closed, mechanism, RawFiles, StoppedIsIdle, CleanIsStored, present
<1>8. ASSUME NEW f \in File, NEW readOnly \in Mounts, InsertRaw(f, readOnly) PROVE OK
  <2>1. PICK im \in Decoded(img, Landed, LandedDirty) : Commit(im, FALSE)
    BY <1>8 DEF InsertRaw
  <2>2. (\A g \in File : fmt'[g] = "raw") /\ (f # path => store'[f] = store[f])
    BY <1>a, <2>1, FlushStores
  <2>3. f # path
    BY <1>8 DEF InsertRaw, Insertable, RawOnly
  <2>4. /\ path' = f /\ wozBacked' = FALSE /\ trkDirty' = {} /\ wrActive' = FALSE
        /\ trk' = store'[f] /\ img' = store'[f]
        /\ Disks[f].protected => writeProt'
    BY <1>8, <2>2, <2>3 DEF InsertRaw, Closed
  <2>5. store[f] \in [Track -> Good]
    BY DEF TypeOK, RawFiles
  <2>6. \A t \in Track : trk'[t] # Blank
    BY <2>2, <2>3, <2>4, <2>5, Values
  <2>7. CleanIsStored'
    BY <2>4, <2>6 DEF CleanIsStored, present
  <2>. QED
    BY <2>2, <2>4, <2>7 DEF RawFiles, StoppedIsIdle
<1>9. ASSUME NEW f \in File, NEW readOnly \in Mounts, InsertWoz(f, readOnly) PROVE OK
  BY <1>9 DEF InsertWoz, RawFiles
<1>10. CASE InsertRefused
  BY <1>10 DEF InsertRefused, host, mechanism, session, RawFiles, StoppedIsIdle, CleanIsStored,
               present
<1>11. CASE UNCHANGED vars
  BY <1>11 DEF vars, host, medium, mechanism, session, RawFiles, StoppedIsIdle, CleanIsStored,
               present
<1>. HIDE DEF OK
<1>12. OK
  BY <1>1, <1>3, <1>4, <1>6, <1>7, <1>8, <1>9, <1>10, <1>11 DEF Next, OK
<1>. QED
  BY <1>12 DEF OK

\* A stopped spindle means that what the guest wrote to a raw image, and can be
\* decoded, is on its file.
THEOREM RawStoppedIsDurable == RawOnly /\ Spec => []StoppedIsDurable
<1>1. RawInv => StoppedIsDurable
  BY DEF RawInv, StoppedIsIdle, CleanIsStored, StoppedIsDurable
<1>2. ASSUME RawOnly PROVE Spec => []StoppedIsDurable
  <2>1. Init => RawInv
    BY <1>2, InitRaw
  <2>2. RawInv /\ [Next]_vars => RawInv'
    BY <1>2, NextRaw
  <2>. QED
    BY <1>1, <2>1, <2>2, PTL DEF Spec
<1>. QED
  BY <1>2

-----------------------------------------------------------------------------
(* The drive implements MediaStore.                                        *)

\* The owner sees every image whole.
LEMMA SeenIs ==
    ASSUME TypeOK
    PROVE  /\ Seen \in [File -> [Track -> Value]]
           /\ \A f \in File : Seen[f] = IF f = path THEN Landed ELSE store[f]
BY LandedType DEF Seen, TypeOK

\* When the medium leaves, its undecodable tracks come back as something else
\* and the rest of it as it was.
LEMMA LeavingDecays ==
    ASSUME RawOnly, RawInv, NEW im \in Decoded(img, Landed, LandedDirty), Commit(im, FALSE),
           present, WriteHead' = <<>>, Seen' = [Seen EXCEPT ![path] = store'[path]]
    PROVE  Store!Decay(path)
<1> DEFINE new == store'[path]
           Lost == {t \in DOMAIN Seen[path] : Seen[path][t] = Bad}
           s == [t \in Lost |-> new[t]]
<1>1. TypeOK /\ path \in File
  BY DEF RawInv, TypeOK, present
<1>2. Seen \in [File -> [Track -> Value]] /\ Seen[path] = Landed
  BY <1>1, SeenIs
<1>3. /\ new \in [Track -> Good]
      /\ \A t \in Track : Landed[t] \in Good => new[t] = Landed[t]
  BY <1>1, FlushStores
<1>4. \A t \in Track : Landed[t] # Blank
  BY <1>1, LandedType DEF RawInv, CleanIsStored
<1>5. Landed \in [Track -> Value] /\ DOMAIN Seen[path] = Track
  BY <1>1, <1>2, LandedType
<1>6. ASSUME NEW t \in Track PROVE Landed[t] = Bad \/ Landed[t] \in Good
  BY <1>4, <1>5 DEF Value
<1>. HIDE DEF new
<1>7. s \in [Lost -> Good]
  BY <1>3, <1>5
<1>8. new = [t \in DOMAIN Seen[path] |-> IF t \in Lost THEN s[t] ELSE Seen[path][t]]
  <2>1. ASSUME NEW t \in Track
        PROVE  new[t] = IF t \in Lost THEN s[t] ELSE Seen[path][t]
    BY <1>2, <1>3, <1>5, <1>6, <2>1
  <2>. HIDE DEF Lost, s
  <2>. QED
    BY <1>3, <1>5, <2>1
<1>9. Seen' = [Seen EXCEPT ![path] =
                 [t \in DOMAIN Seen[path] |-> IF t \in Lost THEN s[t] ELSE Seen[path][t]]]
  BY <1>8 DEF new
<1>. HIDE DEF s
<1>. QED
  BY <1>7, <1>9 DEF Store!Decay

LEMMA InitStore == RawOnly /\ Init => Store!Init
<1> SUFFICES ASSUME RawOnly, Init
             PROVE  Seen = [f \in File |-> Disks[f].tracks] /\ WriteHead = <<>>
  BY DEF Store!Init, File
<1>. QED
  BY ShapeAssumption DEF Init, Seen, WriteHead

LEMMA NextStore ==
    RawOnly /\ RawInv /\ RawInv' /\ [Next]_vars => [Store!Next]_<<Seen, WriteHead>>
<1> DEFINE OK == Store!Next \/ UNCHANGED <<Seen, WriteHead>>
<1> SUFFICES ASSUME RawOnly, RawInv, RawInv', [Next]_vars PROVE OK
  OBVIOUS
<1>a. TypeOK /\ TypeOK' /\ RawFiles /\ CleanIsStored
  BY DEF RawInv
<1>b. /\ Seen \in [File -> [Track -> Value]]
      /\ \A f \in File : Seen[f] = IF f = path THEN Landed ELSE store[f]
  BY <1>a, SeenIs
<1>c. /\ Seen' \in [File -> [Track -> Value]]
      /\ \A f \in File : Seen'[f] = IF f = path' THEN Landed' ELSE store'[f]
  <2>1. Landed' \in [Track -> Value]
    BY <1>a DEF Landed, TypeOK
  <2>. QED
    BY <1>a, <2>1 DEF Seen, TypeOK
<1>1. ASSUME NEW side \in {0, 1}, NEW v \in Good \cup {Bad}, WriteNibble(side, v) PROVE Store!Next
  <2>1. /\ path \in File /\ ~writeProt /\ wrActive' = TRUE /\ wrVal' = v
        /\ wrTrk' = IF wrActive THEN wrTrk ELSE curTrk(side)
        /\ UNCHANGED <<store, path, trk>>
    BY <1>1, <1>a DEF WriteNibble, present, host, medium, TypeOK
  <2>2. wrTrk' \in Track
    BY <1>a DEF TypeOK
  <2>3. Landed' = [Landed EXCEPT ![wrTrk'] = v]
    <3>1. Landed' = [trk EXCEPT ![wrTrk'] = v]
      BY <2>1 DEF Landed
    <3>2. trk \in [Track -> Value]
      BY <1>a DEF TypeOK
    <3>. QED
      BY <2>1, <2>2, <3>1, <3>2 DEF Landed
  <2>4. Seen' = [Seen EXCEPT ![path] = [Seen[path] EXCEPT ![wrTrk'] = v]]
    <3>1. \A f \in File : Seen'[f] = IF f = path THEN [Seen[path] EXCEPT ![wrTrk'] = v] ELSE Seen[f]
      BY <1>b, <1>c, <2>1, <2>3
    <3>. QED
      BY <1>b, <1>c, <2>1, <3>1
  <2>5. ~Disks[path].protected
    BY <1>a, <2>1, ShapeAssumption DEF CleanIsStored, present
  <2>6. DOMAIN Seen[path] = Track
    BY <1>b, <2>1
  <2>7. WriteHead \in {<<>>, <<path, wrTrk'>>} /\ WriteHead' = <<path, wrTrk'>>
    BY <2>1 DEF WriteHead
  <2>8. Store!GuestWrite(path, wrTrk', v)
    BY <2>4, <2>5, <2>7 DEF Store!GuestWrite
  <2>. QED
    BY <2>1, <2>2, <2>6, <2>8 DEF Store!Next, File
<1>2. ASSUME Landed' = Landed, path' = path,
             \A f \in File : f # path => store'[f] = store[f]
      PROVE  UNCHANGED Seen
  BY <1>2, <1>b, <1>c
<1>3. ASSUME UNCHANGED Seen, wrActive' = FALSE PROVE OK
  <2>1. WriteHead' = <<>>
    BY <1>3 DEF WriteHead
  <2>2. Store!Lift
    BY <1>3, <2>1 DEF Store!Lift
  <2>. QED
    BY <2>2 DEF Store!Next
<1>d. ASSUME trk' = Landed, wrActive' = FALSE PROVE Landed' = Landed
  BY <1>d DEF Landed
<1>4. CASE EndWrite \/ \E out \in BOOLEAN : Step(out)
  <2>1. /\ trk' = Landed /\ wrActive' = FALSE /\ path' = path
        /\ \A f \in File : store'[f] = store[f]
    BY <1>4 DEF EndWrite, Step, Closed, host
  <2>2. UNCHANGED Seen
    BY <1>2, <1>d, <2>1
  <2>. QED
    BY <1>3, <2>1, <2>2
<1>5. CASE MotorOn \/ InsertRefused \/ UNCHANGED vars
  <2>1. UNCHANGED WriteHead
    BY <1>5 DEF MotorOn, InsertRefused, vars, medium, session, WriteHead
  <2>2. UNCHANGED Seen
    BY <1>2, <1>5 DEF MotorOn, InsertRefused, vars, host, medium, session, Landed
  <2>. QED
    BY <2>1, <2>2
<1>6. CASE MotorOff \/ Flush
  <2>1. /\ trk' = Landed /\ wrActive' = FALSE /\ path' = path
        /\ img' \in Decoded(img, Landed, LandedDirty) /\ Commit(img', FALSE)
    BY <1>6, <1>a DEF MotorOff, Flush, FlushInPlace, Closed, RawFiles
  <2>2. \A f \in File : f # path => store'[f] = store[f]
    BY <2>1, FlushStores
  <2>3. UNCHANGED Seen
    BY <1>2, <1>d, <2>1, <2>2
  <2>. QED
    BY <1>3, <2>1, <2>3
<1>7. ASSUME NEW im \in Decoded(img, Landed, LandedDirty), Commit(im, FALSE),
             path' # path, wrActive' = FALSE, path' \in File => Landed' = store[path']
      PROVE  OK
  <2>1. /\ \A f \in File : f # path => store'[f] = store[f]
        /\ ~present => store' = store
    BY <1>7, FlushStores
  <2>2. CASE present
    <3>1. path \in File
      BY <1>a, <2>2 DEF present, TypeOK
    <3>2. \A f \in File : Seen'[f] = IF f = path THEN store'[path] ELSE Seen[f]
      BY <1>7, <1>b, <1>c, <2>1
    <3>3. Seen' = [Seen EXCEPT ![path] = store'[path]]
      BY <1>b, <1>c, <3>1, <3>2
    <3>4. WriteHead' = <<>>
      BY <1>7 DEF WriteHead
    <3>5. Store!Decay(path)
      BY <1>7, <2>2, <3>3, <3>4, LeavingDecays
    <3>. QED
      BY <3>1, <3>5 DEF Store!Next, File
  <2>3. CASE ~present
    <3>1. path \notin File
      BY <2>3, ShapeAssumption DEF present
    <3>2. UNCHANGED Seen
      BY <1>7, <1>b, <1>c, <2>1, <2>3, <3>1
    <3>. QED
      BY <1>3, <1>7, <3>2
  <2>. QED
    BY <2>2, <2>3
<1>8. CASE Eject
  <2>1. PICK im \in Decoded(img, Landed, LandedDirty) : Commit(im, FALSE)
    BY <1>8, <1>a DEF Eject, RawFiles
  <2>2. path' = NoFile /\ NoFile \notin File /\ wrActive' = FALSE
    BY <1>8, ShapeAssumption DEF Eject, Closed
  <2>3. CASE path = NoFile
    <3>1. store' = store
      BY <2>1, <2>3, FlushStores DEF present
    <3>2. UNCHANGED Seen
      BY <1>b, <1>c, <2>2, <2>3, <3>1
    <3>. QED
      BY <1>3, <2>2, <3>2
  <2>4. CASE path # NoFile
    BY <1>7, <2>1, <2>2, <2>4
  <2>. QED
    BY <2>3, <2>4
<1>9. ASSUME NEW f \in File, NEW readOnly \in Mounts, InsertRaw(f, readOnly) PROVE OK
  <2>1. PICK im \in Decoded(img, Landed, LandedDirty) : Commit(im, FALSE)
    BY <1>9 DEF InsertRaw
  <2>2. path' = f /\ f # path /\ trk' = store[f] /\ wrActive' = FALSE
    BY <1>9 DEF InsertRaw, Insertable, RawOnly, Closed
  <2>3. Landed' = store[path']
    BY <2>2 DEF Landed
  <2>. QED
    BY <1>7, <2>1, <2>2, <2>3
<1>10. ASSUME NEW f \in File, NEW readOnly \in Mounts, InsertWoz(f, readOnly) PROVE FALSE
  BY <1>10, <1>a DEF InsertWoz, RawFiles
<1>. QED
  BY <1>1, <1>4, <1>5, <1>6, <1>8, <1>9, <1>10 DEF Next

\* What the owner sees of raw images, in the drive or out of it, is a
\* MediaStore: no swap, ejection, motor or mount loses a write that decodes.
THEOREM RawDriveIsStore == RawOnly /\ Spec => ImplementsStore
<1>1. ASSUME RawOnly PROVE Spec => ImplementsStore
  <2>1. Init => RawInv /\ Store!Init
    BY <1>1, InitRaw, InitStore
  <2>2. RawInv /\ [Next]_vars => RawInv'
    BY <1>1, NextRaw
  <2>3. RawInv /\ RawInv' /\ [Next]_vars => [Store!Next]_<<Seen, WriteHead>>
    BY <1>1, NextStore
  <2>. QED
    BY <2>1, <2>2, <2>3, PTL DEF Spec, ImplementsStore, Store!Spec
<1>. QED
  BY <1>1

-----------------------------------------------------------------------------
(* The 5.25" drive: the write session and the arm.                         *)

\* The data part of an access keeps the session under the arm, when a line
\* change that moved the arm has closed it.
LEMMA DataKeepsSession ==
    ASSUME SessionUnderArm, NEW op, NEW closed, NEW h, NEW en, NEW dr, NEW ph, NEW c6, NEW c7,
           DataPart(op, closed, h, en, dr, ph, c6, c7), halfTrack' = h,
           closed \/ h = halfTrack
    PROVE  SessionUnderArm'
<1> DEFINE writes == /\ op # None /\ c7 /\ c6 /\ HeadSelected(en, dr, ph)
                     /\ path525 # None /\ ~isWriteProtected
           reads == op = None /\ ~c7 /\ ~c6 /\ HeadSelected(en, dr, ph)
           fresh == closed \/ ~wr525Active
           ends == closed \/ reads
<1>1. /\ wr525Active' = (writes \/ (wr525Active /\ ~ends))
      /\ sessionAt' = IF writes /\ fresh THEN Slot(path525, h) ELSE sessionAt
      /\ path525' = path525
  BY DEF DataPart
<1>. HIDE DEF writes, reads, fresh, ends
<1>. SUFFICES ASSUME wr525Active', path525 # None PROVE sessionAt' = Slot(path525, h)
  BY <1>1 DEF SessionUnderArm, Slot
<1>2. CASE writes /\ fresh
  BY <1>1, <1>2
<1>3. CASE ~(writes /\ fresh)
  <2>1. wr525Active /\ ~closed
    BY <1>1, <1>3 DEF fresh, ends
  <2>2. sessionAt = Slot(path525, halfTrack)
    BY <2>1 DEF SessionUnderArm
  <2>. QED
    BY <1>1, <1>3, <2>1, <2>2
<1>. QED
  BY <1>2, <1>3

LEMMA NextSession == SessionUnderArm /\ [DriveNext]_driveVars => SessionUnderArm'
<1> SUFFICES ASSUME SessionUnderArm, [DriveNext]_driveVars PROVE SessionUnderArm'
  OBVIOUS
<1>1. ASSUME NEW magnet \in 0 .. 3, NEW on \in BOOLEAN, NEW op, Phase(magnet, on, op)
      PROVE  SessionUnderArm'
  <2> DEFINE ph == IF on THEN phases \cup ({magnet} \cap Sensed) ELSE phases \ {magnet}
             h == IF on /\ ~sel35 THEN Stepped(magnet) ELSE halfTrack
  <2>1. halfTrack' = h /\ DataPart(op, on /\ ~sel35, h, enable, drive, ph, q6, q7)
    BY <1>1 DEF Phase
  <2>2. (on /\ ~sel35) \/ h = halfTrack
    OBVIOUS
  <2>. HIDE DEF h, ph
  <2>. QED
    BY <2>1, <2>2, DataKeepsSession
<1>2. ASSUME NEW op, EnableOn(op) PROVE SessionUnderArm'
  BY <1>2, DataKeepsSession DEF EnableOn
<1>3. ASSUME NEW d, NEW op, SelectDrive(d, op) PROVE SessionUnderArm'
  BY <1>3, DataKeepsSession DEF SelectDrive
<1>4. ASSUME NEW on, NEW op, Q6Line(on, op) PROVE SessionUnderArm'
  BY <1>4, DataKeepsSession DEF Q6Line
<1>5. ASSUME NEW on, NEW op, Q7Line(on, op) PROVE SessionUnderArm'
  <2>1. halfTrack' = halfTrack
        /\ DataPart(op, ~on /\ q7 /\ ~sel35, halfTrack, enable, drive, phases, q6, on)
    BY <1>5 DEF Q7Line
  <2>. QED
    BY <2>1, DataKeepsSession
<1>6. CASE EnableOff
  <2>1. CASE sel35
    BY <1>6, <2>1 DEF EnableOff, open, SessionUnderArm, Slot
  <2>2. CASE ~sel35
    BY <1>6, <2>2 DEF EnableOff, SessionClosed, SessionUnderArm
  <2>. QED
    BY <2>1, <2>2
<1>7. ASSUME NEW on, SetDiskReg(on) PROVE SessionUnderArm'
  BY <1>7 DEF SetDiskReg, media, open, SessionUnderArm, Slot
<1>8. ASSUME Reset \/ EjectDisk525 \/ Exit \/ \E f \in shelf : LoadDisk525(f)
      PROVE  SessionUnderArm'
  BY <1>8 DEF Reset, EjectDisk525, Exit, LoadDisk525, Mounted, Emptied, SessionClosed,
              SessionUnderArm
<1>9. CASE UNCHANGED driveVars
  BY <1>9 DEF driveVars, media, open, SessionUnderArm, Slot
<1>. QED
  BY <1>1, <1>2, <1>3, <1>4, <1>5, <1>6, <1>7, <1>8, <1>9 DEF DriveNext

\* Whatever the guest does to the lines and the user to the drive, the bytes
\* of an open session are for the position the arm is at.
THEOREM SessionUnderArmTheorem == DriveSpec => []SessionUnderArm
<1>1. DriveInit => SessionUnderArm
  BY DEF DriveInit, SessionUnderArm
<1>. QED
  BY <1>1, NextSession, PTL DEF DriveSpec

-----------------------------------------------------------------------------
(* Types, in the parts an action changes together.                         *)

HostOK ==
    /\ DOMAIN files = Image
    /\ \A f \in Image : files[f] \in FileTracks(f)
    /\ shelf \in Shelves
    /\ wrap \in [Image -> {"plain", "2img", "macbinary", "trailer"}]

MediaOK ==
    /\ path525 \in Image \cup {None}
    /\ surface \in [Half -> [Sector -> Value]]
    /\ dirtyTracks \subseteq Half
    /\ IF path525 # None /\ Images[path525].kind = "woz"
       THEN wozRaw \in FileTracks(path525) ELSE wozRaw = <<>>
    /\ saveResult \in {"whole", "refused", "short"} /\ cutShort \in BOOLEAN
    /\ path525 = None => dirtyTracks = {} /\ ~cutShort

LinesOK ==
    /\ enable \in BOOLEAN /\ drive \in {0, 1} /\ q6 \in BOOLEAN /\ q7 \in BOOLEAN
    /\ sel35 \in BOOLEAN /\ phases \subseteq Sensed
    /\ halfTrack \in Half

SessionOK ==
    /\ wr525Active \in BOOLEAN /\ sessionAt \in Half
    /\ sessionData \in [Sector -> Value \cup {None}]

LEMMA TypeParts == DriveTypeOK <=> HostOK /\ MediaOK /\ LinesOK /\ SessionOK
BY DEF DriveTypeOK, HostOK, MediaOK, LinesOK, SessionOK

LEMMA GoodIsValue == Good \subseteq Value /\ Bad \in Value /\ Blank \in Value
BY DEF Value

\* A set of positions that is not empty has its largest among its members.
LEMMA MaxInside ==
    ASSUME NEW From, From \subseteq Half, From # {}
    PROVE  Max(From) \in From
<1> DEFINE R == {p \in Nat \X Nat : p[1] < p[2]}
           U == {n \in Nat : LastHalf - n \in From}
<1>1. IsWellFoundedOn(R, Nat)
  BY NatLessThanWellFounded DEF OpToRel
<1>2. LastHalf \in Nat
  BY Disk525Assumption
<1>3. U # {}
  <2>1. PICK h \in From : TRUE
    OBVIOUS
  <2>2. h \in 0 .. LastHalf
    BY DEF Half
  <2>3. LastHalf - h \in Nat /\ LastHalf - (LastHalf - h) = h
    BY <1>2, <2>2
  <2>. QED
    BY <2>1, <2>3
<1>4. U \subseteq Nat
  OBVIOUS
<1>. HIDE DEF U, R
<1>5. PICK n \in U : \A m \in U : ~ (<<m, n>> \in R)
  BY <1>1, <1>3, <1>4, WFMin
<1>6. n \in Nat /\ LastHalf - n \in From
  BY DEF U
<1>7. ASSUME NEW h \in From PROVE LastHalf - n >= h
  <2>1. h \in 0 .. LastHalf
    BY DEF Half
  <2>2. LastHalf - h \in Nat /\ LastHalf - (LastHalf - h) = h
    BY <1>2, <2>1
  <2>3. LastHalf - h \in U
    BY <2>2 DEF U
  <2>4. ~ (LastHalf - h < n)
    BY <1>5, <1>6, <2>2, <2>3 DEF R
  <2>. QED
    BY <1>2, <1>6, <2>1, <2>2, <2>4
<1>. QED
  BY <1>6, <1>7 DEF Max

\* A slot of a position is a position.
LEMMA SlotType == ASSUME NEW f, NEW h \in Half PROVE Slot(f, h) \in Half
<1>1. LastHalf \in Nat /\ h \in 0 .. LastHalf
  BY Disk525Assumption DEF Half
<1>2. 2 * (h \div 2) \in 0 .. LastHalf
  BY <1>1
<1>. QED
  BY <1>1, <1>2 DEF Slot, Half

\* Closing the session leaves typed tracks, and marks none without media.
LEMMA SplicedType ==
    ASSUME MediaOK, SessionOK
    PROVE  /\ Spliced \in [Half -> [Sector -> Value]]
           /\ SplicedDirty \subseteq Half
           /\ path525 = None => SplicedDirty = {}
<1>1. Spliced \in [Half -> [Sector -> Value]]
  <2>1. CASE wr525Active /\ Spliceable(sessionAt)
    <3> DEFINE new == [s \in Sector |-> IF sessionData[s] = None THEN surface[sessionAt][s]
                                       ELSE sessionData[s]]
    <3>1. new \in [Sector -> Value]
      BY DEF MediaOK, SessionOK
    <3>2. Spliced = [surface EXCEPT ![sessionAt] = new]
      BY <2>1 DEF Spliced
    <3>. HIDE DEF new
    <3>. QED
      BY <3>1, <3>2 DEF MediaOK, SessionOK
  <2>2. CASE ~(wr525Active /\ Spliceable(sessionAt))
    BY <2>2 DEF Spliced, MediaOK
  <2>. QED
    BY <2>1, <2>2
<1>2. SplicedDirty \subseteq Half
  BY DEF SplicedDirty, MediaOK
<1>3. ASSUME path525 = None PROVE SplicedDirty = {}
  <2>1. Spliced = surface
    BY <1>3 DEF Spliced, Spliceable
  <2>. QED
    BY <1>3, <2>1 DEF SplicedDirty, MediaOK
<1>. QED
  BY <1>1, <1>2, <1>3

LEMMA FlushedType ==
    ASSUME MediaOK, SessionOK
    PROVE  FlushedDirty \subseteq Half /\ (path525 = None => FlushedDirty = {})
BY SplicedType DEF FlushedDirty

\* The tracks of a file, some of them cut off.
LEMMA FileTracksAre ==
    ASSUME NEW f, NEW tk
    PROVE  tk \in FileTracks(f) <=>
             /\ DOMAIN tk \subseteq Trk(f) /\ tk = [t \in DOMAIN tk |-> tk[t]]
             /\ \A t \in DOMAIN tk : tk[t] \in [Sector -> Value]
<1>1. ASSUME tk \in FileTracks(f)
      PROVE  /\ DOMAIN tk \subseteq Trk(f) /\ tk = [t \in DOMAIN tk |-> tk[t]]
             /\ \A t \in DOMAIN tk : tk[t] \in [Sector -> Value]
  <2>1. PICK T \in SUBSET Trk(f) : tk \in [T -> [Sector -> Value]]
    BY <1>1 DEF FileTracks
  <2>. QED
    BY <2>1
<1>2. ASSUME DOMAIN tk \subseteq Trk(f), tk = [t \in DOMAIN tk |-> tk[t]],
             \A t \in DOMAIN tk : tk[t] \in [Sector -> Value]
      PROVE  tk \in FileTracks(f)
  <2> DEFINE D == DOMAIN tk
             V == [Sector -> Value]
  <2>1. \A t \in D : tk[t] \in V
    BY <1>2
  <2>2. D \in SUBSET Trk(f) /\ tk = [t \in D |-> tk[t]]
    BY <1>2
  <2>. HIDE DEF D, V
  <2>3. tk \in [D -> V]
    BY <2>1, <2>2
  <2>. QED
    BY <2>2, <2>3 DEF FileTracks, V
<1>. QED
  BY <1>1, <1>2

LEMMA CutType ==
    ASSUME NEW f, NEW tk \in FileTracks(f), NEW n
    PROVE  CutAt(tk, n) \in FileTracks(f)
BY FileTracksAre DEF CutAt

\* What a save composes for each track.
LEMMA SavedType ==
    ASSUME HostOK, MediaOK, SessionOK, path525 # None
    PROVE  Saved(path525) \in FileTracks(path525)
<1> DEFINE f == path525
           T == IF Images[f].kind = "woz" THEN DOMAIN wozRaw ELSE Trk(f)
           body(t) == CASE Images[f].kind = "woz" ->
                            LET From == {h \in SplicedDirty : Images[f].home[h] = t}
                            IN  IF From = {} THEN wozRaw[t] ELSE Spliced[Max(From)]
                       [] Images[f].kind = "nib" -> Spliced[2 * t]
                       [] OTHER -> IF 2 * t \in SplicedDirty THEN DecodedTrack(f, t)
                                   ELSE [s \in Sector |-> Base(f, t, s)]
<1>1. f \in Image /\ T \subseteq Trk(f)
  BY FileTracksAre DEF MediaOK
<1> SUFFICES ASSUME NEW t \in T PROVE body(t) \in [Sector -> Value]
  <2>1. Saved(f) = [t \in T |-> body(t)]
    BY DEF Saved
  <2>. HIDE DEF f, T, body
  <2>2. \A t \in T : body(t) \in [Sector -> Value]
    OBVIOUS
  <2>3. Saved(f) \in [T -> [Sector -> Value]]
    BY <2>1, <2>2
  <2>4. Saved(f) \in FileTracks(f)
    BY <1>1, <2>3 DEF FileTracks
  <2>. QED
    BY <2>4 DEF f
<1>2. Spliced \in [Half -> [Sector -> Value]] /\ SplicedDirty \subseteq Half
  BY SplicedType
<1>3. CASE Images[f].kind = "woz"
  <2> DEFINE From == {h \in SplicedDirty : Images[f].home[h] = t}
  <2>1. From # {} => Max(From) \in Half
    BY <1>2, MaxInside
  <2>2. wozRaw[t] \in [Sector -> Value]
    BY <1>3, FileTracksAre DEF MediaOK
  <2>. HIDE DEF From
  <2>3. (IF From = {} THEN wozRaw[t] ELSE Spliced[Max(From)]) \in [Sector -> Value]
    BY <1>2, <2>1, <2>2
  <2>. QED
    BY <1>3, <2>3 DEF From
<1>4. CASE Images[f].kind = "nib"
  <2>1. t \in 0 .. LastHalf \div 2 /\ LastHalf \in Nat
    BY <1>1, <1>4, Disk525Assumption
  <2>2. 2 * t \in Half
    BY <2>1 DEF Half
  <2>. QED
    BY <1>2, <1>4, <2>2
<1>5. CASE Images[f].kind \notin {"woz", "nib"}
  <2>1. ASSUME NEW s \in Sector PROVE Base(f, t, s) \in Value
    <3>1. t \in DOMAIN files[f] => files[f][t] \in [Sector -> Value]
      BY <1>1, FileTracksAre DEF HostOK
    <3>. QED
      BY <3>1, GoodIsValue, Disk525Assumption DEF Base
  <2>2. DecodedTrack(f, t) \in [Sector -> Value]
    BY <2>1, GoodIsValue DEF DecodedTrack
  <2>3. [s \in Sector |-> Base(f, t, s)] \in [Sector -> Value]
    BY <2>1
  <2>. QED
    BY <1>5, <2>2, <2>3
<1>. QED
  BY <1>3, <1>4, <1>5

\* The ways a flush ends, as the file of the mounted image shows them.
LEMMA FlushEnds ==
    ASSUME HostOK, MediaOK, FlushDisk525
    PROVE  /\ saveResult' \in {"whole", "refused", "short"} /\ UNCHANGED shelf
           /\ \A g \in Image : g # path525 => files'[g] = files[g]
           /\ ~Saves => saveResult' = "whole" /\ files' = files /\ wrap' = wrap
           /\ Saves => path525 \in Image
           /\ Saves /\ saveResult' = "whole" => files'[path525] = Saved(path525)
           /\ saveResult' = "refused" => files' = files
           /\ saveResult' = "short" => Saves /\ \E n \in DOMAIN Saved(path525) :
                files'[path525] = CutAt(Saved(path525), n)
           /\ DOMAIN files' = Image
           /\ wrap' = wrap \/ (Saves /\ wrap' = [wrap EXCEPT ![path525] = SavedWrap(path525)])
BY DEF FlushDisk525, HostOK, MediaOK, Saves

LEMMA FlushType == ASSUME HostOK, MediaOK, SessionOK, FlushDisk525 PROVE HostOK'
<1>1. ASSUME NEW f \in Image PROVE files'[f] \in FileTracks(f)
  <2>1. CASE f # path525
    BY <2>1, FlushEnds DEF HostOK
  <2>2. CASE f = path525 /\ Saves
    <3>1. Saved(path525) \in FileTracks(path525)
      BY <2>2, SavedType DEF Saves
    <3>. QED
      BY <2>2, <3>1, FlushEnds, CutType DEF HostOK
  <2>3. CASE ~Saves
    BY <2>3, FlushEnds DEF HostOK
  <2>. QED
    BY <2>1, <2>2, <2>3
<1>2. wrap' \in [Image -> {"plain", "2img", "macbinary", "trailer"}]
  <2>1. Saves => SavedWrap(path525) \in {"plain", "2img", "macbinary", "trailer"}
    BY FlushEnds DEF SavedWrap, HostOK
  <2>. QED
    BY <2>1, FlushEnds DEF HostOK
<1>. QED
  BY <1>1, <1>2, FlushEnds DEF HostOK

\* A flush leaves typed tracks, marks and WOZ buffer.
LEMMA FlushedMedia ==
    ASSUME HostOK, MediaOK, SessionOK, FlushDisk525, path525' = path525, surface' = Spliced,
           dirtyTracks' = FlushedDirty, wozRaw' = FlushedRaw,
           cutShort' = (cutShort \/ saveResult' = "short")
    PROVE  MediaOK'
<1>1. wozRaw' \in FileTracks(path525) \/ wozRaw' = wozRaw
  BY SavedType DEF FlushedRaw, Saves
<1>2. path525 = None \/ Images[path525].kind # "woz" => wozRaw' = wozRaw
  BY DEF FlushedRaw, Saves, woz
<1>3. path525 = None => saveResult' = "whole"
  BY FlushEnds DEF Saves
<1>. QED
  BY <1>1, <1>2, <1>3, SplicedType, FlushedType, FlushEnds DEF MediaOK

LEMMA ClosedType == ASSUME SessionOK, SessionClosed PROVE SessionOK'
BY DEF SessionOK, SessionClosed, NoBytes

\* A file's tracks load to a typed surface.
LEMMA LoadedType ==
    ASSUME HostOK', NEW f \in Image
    PROVE  Loaded(f) \in [Half -> [Sector -> Value]]
<1>1. Absent \in [Sector -> Value]
  BY GoodIsValue DEF Absent
<1>2. ASSUME NEW t \in DOMAIN files'[f] PROVE files'[f][t] \in [Sector -> Value]
  BY FileTracksAre DEF HostOK
<1>. QED
  BY <1>1, <1>2 DEF Loaded

\* A mounted image is typed, and so is an empty drive.
LEMMA MountedType ==
    ASSUME HostOK', NEW f \in Image, Mounted(f), SessionOK,
           saveResult' \in {"whole", "refused", "short"}
    PROVE  MediaOK' /\ SessionOK'
<1>1. Loaded(f) \in [Half -> [Sector -> Value]]
  BY LoadedType
<1>2. files'[f] \in FileTracks(f) /\ f # None
  BY Disk525Assumption DEF HostOK
<1>. QED
  BY <1>1, <1>2, ClosedType DEF Mounted, MediaOK

LEMMA EmptiedType ==
    ASSUME Emptied, SessionOK, saveResult' \in {"whole", "refused", "short"}
    PROVE  MediaOK' /\ SessionOK'
BY GoodIsValue, ClosedType DEF Emptied, MediaOK, Absent

\* The accesses at an offset are nothing or a sector and its bytes.
LEMMA OpsType ==
    ASSUME HostOK, NEW offset, NEW op \in Ops(offset)
    PROVE  op = None \/ op \in Sector \X (Good \cup {Bad})
BY Disk525Assumption DEF Ops, HostOK

LEMMA DataType ==
    ASSUME HostOK, MediaOK, SessionOK, NEW op, NEW closed, NEW h \in Half,
           NEW en, NEW dr, NEW ph, NEW c6, NEW c7,
           op = None \/ op \in Sector \X (Good \cup {Bad}),
           closed \in BOOLEAN, DataPart(op, closed, h, en, dr, ph, c6, c7)
    PROVE  HostOK' /\ MediaOK' /\ SessionOK' /\ sel35' = sel35
<1> DEFINE writes == /\ op # None /\ c7 /\ c6 /\ HeadSelected(en, dr, ph)
                     /\ path525 # None /\ ~isWriteProtected
           reads == op = None /\ ~c7 /\ ~c6 /\ HeadSelected(en, dr, ph)
           fresh == closed \/ ~wr525Active
           ends == closed \/ reads
           before == IF fresh THEN NoBytes ELSE sessionData
<1>1. /\ surface' = IF ends THEN Spliced ELSE surface
      /\ dirtyTracks' = IF ends THEN SplicedDirty ELSE dirtyTracks
      /\ wr525Active' = (writes \/ (wr525Active /\ ~ends))
      /\ sessionAt' = IF writes /\ fresh THEN Slot(path525, h) ELSE sessionAt
      /\ sessionData' = IF writes THEN [before EXCEPT ![op[1]] = op[2]]
                        ELSE IF ends THEN NoBytes ELSE sessionData
      /\ UNCHANGED <<hostFiles, path525, wozRaw, sel35, saves>>
  BY DEF DataPart
<1>2. writes => op \in Sector \X (Good \cup {Bad})
  OBVIOUS
<1>3. before \in [Sector -> Value \cup {None}] /\ NoBytes \in [Sector -> Value \cup {None}]
  BY DEF NoBytes, SessionOK
<1>. HIDE DEF writes, reads, fresh, ends, before
<1>4. HostOK'
  BY <1>1 DEF hostFiles, HostOK
<1>5. MediaOK'
  BY <1>1, SplicedType DEF MediaOK, saves
<1>6. wr525Active' \in BOOLEAN
  BY <1>1
<1>7. sessionAt' \in Half
  BY <1>1, SlotType DEF SessionOK
<1>8. sessionData' \in [Sector -> Value \cup {None}]
  <2>1. writes => op[1] \in Sector /\ op[2] \in Value \cup {None}
    BY <1>2, GoodIsValue
  <2>. QED
    BY <1>1, <1>3, <2>1 DEF SessionOK
<1>. QED
  BY <1>1, <1>4, <1>5, <1>6, <1>7, <1>8 DEF SessionOK

\* The arm stays on its travel.
LEMMA SteppedType == ASSUME halfTrack \in Half, NEW magnet \in 0 .. 3 PROVE Stepped(magnet) \in Half
<1>1. LastHalf \in Nat /\ halfTrack \in 0 .. LastHalf
  BY Disk525Assumption DEF Half
<1> DEFINE delta == (magnet - halfTrack + 4) % 4
           h == CASE delta = 1 -> halfTrack + 1 [] delta = 3 -> halfTrack - 1 [] OTHER -> halfTrack
<1>2. h \in {halfTrack + 1, halfTrack - 1, halfTrack}
  <2>. HIDE DEF delta
  <2>. QED
    OBVIOUS
<1>3. Stepped(magnet) = IF h < 0 THEN 0 ELSE IF h > LastHalf THEN LastHalf ELSE h
  BY DEF Stepped
<1>. HIDE DEF h
<1>. QED
  BY <1>1, <1>2, <1>3 DEF Half

LEMMA InitType == DriveInit => DriveTypeOK
<1> SUFFICES ASSUME DriveInit PROVE HostOK /\ MediaOK /\ LinesOK /\ SessionOK
  BY TypeParts
<1>1. LastHalf \in Nat /\ 0 \in Half
  BY Disk525Assumption DEF Half
<1>2. HostOK
  <2>1. ASSUME NEW f \in Image PROVE files[f] \in FileTracks(f)
    <3>1. files[f] = Images[f].tracks /\ Images[f].tracks \in [Trk(f) -> [Sector -> Value]]
      BY Disk525Assumption DEF DriveInit
    <3>2. Trk(f) \in SUBSET Trk(f)
      OBVIOUS
    <3>. QED
      BY <3>1, <3>2 DEF FileTracks
  <2>2. wrap \in [Image -> {"plain", "2img", "macbinary", "trailer"}]
    BY Disk525Assumption DEF DriveInit
  <2>. QED
    BY <2>1, <2>2 DEF DriveInit, HostOK
<1>3. MediaOK
  BY GoodIsValue DEF DriveInit, MediaOK, Absent
<1>4. LinesOK
  BY <1>1 DEF DriveInit, LinesOK
<1>5. SessionOK
  BY <1>1 DEF DriveInit, SessionOK, NoBytes
<1>. QED
  BY <1>2, <1>3, <1>4, <1>5

LEMMA NextType == DriveTypeOK /\ [DriveNext]_driveVars => DriveTypeOK'
<1> SUFFICES ASSUME HostOK, MediaOK, LinesOK, SessionOK, [DriveNext]_driveVars
             PROVE  HostOK' /\ MediaOK' /\ LinesOK' /\ SessionOK'
  BY TypeParts DEF DriveTypeOK, HostOK, MediaOK, LinesOK, SessionOK
<1> DEFINE Guest(op) == op = None \/ op \in Sector \X (Good \cup {Bad})
           OK == HostOK' /\ MediaOK' /\ LinesOK' /\ SessionOK'
<1>a. ASSUME NEW offset, NEW op \in Ops(offset) PROVE Guest(op)
  BY <1>a, OpsType
<1>b. halfTrack \in Half
  BY DEF LinesOK
<1>1. ASSUME NEW magnet \in 0 .. 3, NEW on \in BOOLEAN, NEW op, Guest(op), Phase(magnet, on, op)
      PROVE  OK
  <2> DEFINE ph == IF on THEN phases \cup ({magnet} \cap Sensed) ELSE phases \ {magnet}
             h == IF on /\ ~sel35 THEN Stepped(magnet) ELSE halfTrack
  <2>1. /\ halfTrack' = h /\ phases' = ph /\ UNCHANGED <<enable, drive, q6, q7>>
        /\ DataPart(op, on /\ ~sel35, h, enable, drive, ph, q6, q7)
    BY <1>1 DEF Phase
  <2>2. h \in Half
    BY <1>b, SteppedType
  <2>3. ph \subseteq Sensed
    BY DEF LinesOK
  <2>4. (on /\ ~sel35) \in BOOLEAN
    OBVIOUS
  <2>. HIDE DEF h, ph
  <2>5. HostOK' /\ MediaOK' /\ SessionOK' /\ sel35' = sel35
    BY <1>1, <2>1, <2>2, <2>4, DataType
  <2>. QED
    BY <2>1, <2>2, <2>3, <2>5 DEF LinesOK
<1>2. ASSUME NEW op, Guest(op), EnableOn(op) PROVE OK
  <2>1. HostOK' /\ MediaOK' /\ SessionOK' /\ sel35' = sel35
    BY <1>2, <1>b, DataType DEF EnableOn
  <2>. QED
    BY <1>2, <2>1 DEF EnableOn, LinesOK
<1>3. ASSUME NEW d \in {0, 1}, NEW op, Guest(op), SelectDrive(d, op) PROVE OK
  <2>1. HostOK' /\ MediaOK' /\ SessionOK' /\ sel35' = sel35
    BY <1>3, <1>b, DataType DEF SelectDrive
  <2>. QED
    BY <1>3, <2>1 DEF SelectDrive, LinesOK
<1>4. ASSUME NEW on \in BOOLEAN, NEW op, Guest(op), Q6Line(on, op) PROVE OK
  <2>1. HostOK' /\ MediaOK' /\ SessionOK' /\ sel35' = sel35
    BY <1>4, <1>b, DataType DEF Q6Line
  <2>. QED
    BY <1>4, <2>1 DEF Q6Line, LinesOK
<1>5. ASSUME NEW on \in BOOLEAN, NEW op, Guest(op), Q7Line(on, op) PROVE OK
  <2>1. (~on /\ q7 /\ ~sel35) \in BOOLEAN
    OBVIOUS
  <2>2. DataPart(op, ~on /\ q7 /\ ~sel35, halfTrack, enable, drive, phases, q6, on)
    BY <1>5 DEF Q7Line
  <2>3. HostOK' /\ MediaOK' /\ SessionOK' /\ sel35' = sel35
    BY <1>5, <1>b, <2>1, <2>2, DataType
  <2>. QED
    BY <1>5, <2>3 DEF Q7Line, LinesOK
<1>6. CASE EnableOff
  <2>1. LinesOK'
    BY <1>6 DEF EnableOff, LinesOK
  <2>2. CASE sel35
    BY <1>6, <2>1, <2>2 DEF EnableOff, hostFiles, open, saves, HostOK, MediaOK, SessionOK
  <2>3. CASE ~sel35
    <3>1. FlushDisk525 /\ SessionClosed
      BY <1>6, <2>3 DEF EnableOff
    <3>2. MediaOK'
      BY <1>6, <2>3, FlushedMedia DEF EnableOff
    <3>. QED
      BY <2>1, <3>1, <3>2, FlushType, ClosedType
  <2>. QED
    BY <2>2, <2>3
<1>7. ASSUME NEW on \in BOOLEAN, SetDiskReg(on) PROVE OK
  BY <1>7 DEF SetDiskReg, hostFiles, media, open, saves, HostOK, MediaOK, LinesOK, SessionOK
<1>8. CASE Reset
  <2>1. HostOK'
    BY <1>8 DEF Reset, hostFiles, HostOK
  <2>2. MediaOK'
    BY <1>8, SplicedType DEF Reset, MediaOK, saves
  <2>3. SessionOK'
    BY <1>8, ClosedType DEF Reset
  <2>4. LinesOK'
    BY <1>8 DEF Reset, LinesOK
  <2>. QED
    BY <2>1, <2>2, <2>3, <2>4
<1>9. ASSUME NEW f \in shelf, LoadDisk525(f) PROVE OK
  <2>1. HostOK' /\ saveResult' \in {"whole", "refused", "short"}
    BY <1>9, FlushType, FlushEnds DEF LoadDisk525
  <2>2. f \in Image
    BY Disk525Assumption DEF HostOK
  <2>3. MediaOK' /\ SessionOK'
    BY <1>9, <2>1, <2>2, MountedType DEF LoadDisk525
  <2>4. LinesOK'
    BY <1>9 DEF LoadDisk525, lines, LinesOK
  <2>. QED
    BY <2>1, <2>3, <2>4
<1>10. CASE EjectDisk525
  <2>1. HostOK' /\ MediaOK' /\ SessionOK'
    BY <1>10, FlushType, FlushEnds, EmptiedType DEF EjectDisk525
  <2>2. LinesOK'
    BY <1>10 DEF EjectDisk525, lines, LinesOK
  <2>. QED
    BY <2>1, <2>2
<1>11. CASE Exit
  <2>1. HostOK' /\ MediaOK' /\ SessionOK'
    BY <1>11, FlushType, FlushEnds, EmptiedType DEF Exit
  <2>2. LinesOK'
    <3>1. 0 \in Half /\ {} \subseteq Sensed /\ 0 \in {0, 1} /\ FALSE \in BOOLEAN
      BY Disk525Assumption DEF Half
    <3>. QED
      BY <1>11, <3>1 DEF Exit, LinesOK
  <2>. QED
    BY <2>1, <2>2
<1>12. CASE UNCHANGED driveVars
  BY <1>12 DEF driveVars, hostFiles, media, lines, open, saves, HostOK, MediaOK, LinesOK,
               SessionOK
<1>. HIDE DEF Guest, OK
<1>13. ASSUME DriveNext PROVE OK
  <2>1. ASSUME NEW magnet \in 0 .. 3, NEW op \in Ops(2 * magnet), Phase(magnet, FALSE, op)
        PROVE  OK
    BY <1>a, <1>1, <2>1
  <2>2. ASSUME NEW magnet \in 0 .. 3, NEW op \in Ops(2 * magnet + 1), Phase(magnet, TRUE, op)
        PROVE  OK
    BY <1>a, <1>1, <2>2
  <2>3. ASSUME NEW d \in {0, 1}, NEW op \in Ops(10 + d), SelectDrive(d, op) PROVE OK
    BY <1>a, <1>3, <2>3
  <2>4. ASSUME NEW op \in Ops(9), EnableOn(op) PROVE OK
    BY <1>a, <1>2, <2>4
  <2>5. ASSUME NEW op \in Ops(12), Q6Line(FALSE, op) PROVE OK
    BY <1>a, <1>4, <2>5
  <2>6. ASSUME NEW op \in Ops(13), Q6Line(TRUE, op) PROVE OK
    BY <1>a, <1>4, <2>6
  <2>7. ASSUME NEW op \in Ops(14), Q7Line(FALSE, op) PROVE OK
    BY <1>a, <1>5, <2>7
  <2>8. ASSUME NEW op \in Ops(15), Q7Line(TRUE, op) PROVE OK
    BY <1>a, <1>5, <2>8
  <2>9. (Reset \/ EjectDisk525 \/ Exit \/ EnableOff) => OK
    BY <1>6, <1>8, <1>10, <1>11 DEF OK
  <2>. QED
    BY <1>7, <1>9, <1>13, <2>1, <2>2, <2>3, <2>4, <2>5, <2>6, <2>7, <2>8, <2>9 DEF DriveNext
<1>. QED
  BY <1>12, <1>13 DEF OK

\* Every access, load, save and eject leaves a state of the drive's type.
THEOREM DriveTypeTheorem == DriveSpec => []DriveTypeOK
<1>. QED
  BY InitType, NextType, PTL DEF DriveSpec

-----------------------------------------------------------------------------
(* The medium against the host's file.                                     *)

\* The TRK or track of its file that position h of image f is stored in.
Home(f, h) == IF Images[f].kind = "woz" THEN Images[f].home[h] ELSE h \div 2

\* A save of f has one place for each position: no two positions of a WOZ
\* share a TRK, and a sector image is not read back past a MacBinary header.
Straight(f) ==
    /\ Images[f].kind = "woz" =>
         \A h \in Half, i \in Half :
            Images[f].home[h] = Images[f].home[i] /\ Images[f].home[h] # None => h = i
    /\ Images[f].kind = "sector" => Images[f].wrap # "macbinary"

\* Tracks sf, with the marks in dirty, of the mounted image against the tracks
\* tk of a file: a position without a mark is on the file, unless it is a sector
\* that does not decode; nothing is blank that the file has.
Agrees(sf, dirty, tk) ==
    \A h \in Slots(path525), s \in Sector :
       LET held == OnFile(path525, tk)[<<h, s>>]
       IN  /\ h \notin dirty =>
                \/ sf[h][s] = held
                \/ sf[h][s] = Bad /\ ~isWriteProtected /\ Images[path525].kind = "sector"
           /\ sf[h][s] = Blank => held = Blank

\* A position no TRK of the WOZ stands for has nothing to write on.
BareOutside(sf) ==
    woz => \A h \in Slots(path525), s \in Sector :
              Home(path525, h) \notin DOMAIN wozRaw => sf[h][s] = Blank

\* What a save composes from: the tracks a WOZ has in memory, else the file.
Source == IF woz THEN wozRaw ELSE files[path525]

\* The file of the mounted image has what the clean slots have: always until a
\* save is cut short, and afterwards once a retry wrote every track.
FileAgrees(sf, dirty, cut, tk) ==
    ~cut \/ (dirty = {} /\ Images[path525].kind # "sector") => Agrees(sf, dirty, tk)

MediumKept ==
    path525 # None =>
      /\ isWriteProtected => dirtyTracks = {} /\ ~wr525Active /\ ~cutShort
      /\ ~woz /\ ~cutShort => DOMAIN files[path525] = Trk(path525)
      /\ BareOutside(surface)
      /\ woz \/ ~cutShort => Agrees(surface, dirtyTracks, Source)
      /\ FileAgrees(surface, dirtyTracks, cutShort, files[path525])

\* The guest writes sectors that decode and sectors that do not, never a blank.
SessionWritten == sessionData \in [Sector -> Good \cup {Bad, None}]

\* No save puts a file in a MacBinary envelope.
WrapKept == \A f \in Image : wrap[f] = "macbinary" => Images[f].wrap = "macbinary"

MediumInv == DriveTypeOK /\ SessionUnderArm /\ SessionWritten /\ WrapKept /\ MediumKept

\* The positions of an image, and where each is stored.
LEMMA SlotPlace ==
    ASSUME NEW f \in Image, NEW h \in Slots(f)
    PROVE  /\ h \in Half /\ Slot(f, h) = h
           /\ Images[f].kind # "woz" => h = 2 * (h \div 2)
           /\ Home(f, h) # None => Home(f, h) \in Trk(f)
           /\ Images[f].kind # "woz" => Home(f, h) \in Trk(f) /\ Home(f, h) # None
<1>1. PICK i \in Half : h = Slot(f, i)
  BY DEF Slots
<1>2. i \in 0 .. LastHalf /\ LastHalf \in Nat
  BY Disk525Assumption DEF Half
<1>3. CASE Images[f].kind = "woz"
  <2>1. h = i
    BY <1>1, <1>3 DEF Slot
  <2>2. Images[f].home \in [Half -> Trk(f) \cup {None}]
    BY Disk525Assumption
  <2>. QED
    BY <1>3, <2>1, <2>2 DEF Slot, Home
<1>4. CASE Images[f].kind # "woz"
  <2>1. h = 2 * (i \div 2)
    BY <1>1, <1>4 DEF Slot
  <2>2. h \in 0 .. LastHalf /\ h \div 2 = i \div 2 /\ h \div 2 \in 0 .. LastHalf \div 2
    BY <1>2, <2>1
  <2>3. Trk(f) = 0 .. LastHalf \div 2 /\ None \notin Trk(f)
    BY <1>4, Disk525Assumption
  <2>. QED
    BY <1>4, <2>1, <2>2, <2>3 DEF Slot, Home, Half
<1>. QED
  BY <1>3, <1>4

LEMMA OnFileAt ==
    ASSUME NEW f, NEW tk, NEW h \in Slots(f), NEW s \in Sector
    PROVE  OnFile(f, tk)[<<h, s>>] =
             IF Home(f, h) \in DOMAIN tk THEN tk[Home(f, h)][s] ELSE Blank
BY DEF OnFile, Home

\* What the sectors are once the session is closed.
LEMMA SplicedAt ==
    ASSUME MediaOK, SessionOK, NEW h \in Half, NEW s \in Sector
    PROVE  Spliced[h][s] =
             IF wr525Active /\ Spliceable(sessionAt) /\ h = sessionAt /\ sessionData[s] # None
             THEN sessionData[s] ELSE surface[h][s]
<1> DEFINE new == [r \in Sector |-> IF sessionData[r] = None THEN surface[sessionAt][r]
                                   ELSE sessionData[r]]
<1>1. CASE wr525Active /\ Spliceable(sessionAt)
  <2>1. Spliced = [surface EXCEPT ![sessionAt] = new]
    BY <1>1 DEF Spliced
  <2>2. new[s] = IF sessionData[s] = None THEN surface[sessionAt][s] ELSE sessionData[s]
    OBVIOUS
  <2>. HIDE DEF new
  <2>3. Spliced[h] = IF h = sessionAt THEN new ELSE surface[h]
    BY <2>1 DEF MediaOK
  <2>. QED
    BY <1>1, <2>2, <2>3
<1>2. CASE ~(wr525Active /\ Spliceable(sessionAt))
  BY <1>2 DEF Spliced
<1>. QED
  BY <1>1, <1>2

\* Closing the session leaves a position outside the WOZ's TRKs as it is.
LEMMA SplicedBare ==
    ASSUME MediaOK, SessionOK, path525 # None, BareOutside(surface)
    PROVE  BareOutside(Spliced)
<1> SUFFICES ASSUME woz, NEW h \in Slots(path525), NEW s \in Sector,
                    Home(path525, h) \notin DOMAIN wozRaw
             PROVE  Spliced[h][s] = Blank
  BY DEF BareOutside
<1>1. h \in Half
  BY SlotPlace DEF MediaOK
<1>2. surface[h][s] = Blank
  BY DEF BareOutside
<1>3. ~(Spliceable(sessionAt) /\ h = sessionAt)
  BY DEF Spliceable, Home, woz
<1>. QED
  BY <1>1, <1>2, <1>3, SplicedAt

\* Closing the session keeps the tracks in agreement with a file.
LEMMA SplicedAgrees ==
    ASSUME MediaOK, SessionOK, SessionWritten, path525 # None, NEW tk,
           Agrees(surface, dirtyTracks, tk)
    PROVE  Agrees(Spliced, SplicedDirty, tk)
<1> SUFFICES ASSUME NEW h \in Slots(path525), NEW s \in Sector
             PROVE  LET held == OnFile(path525, tk)[<<h, s>>]
                    IN  /\ h \notin SplicedDirty =>
                             \/ Spliced[h][s] = held
                             \/ /\ Spliced[h][s] = Bad /\ ~isWriteProtected
                                /\ Images[path525].kind = "sector"
                        /\ Spliced[h][s] = Blank => held = Blank
  BY DEF Agrees
<1> DEFINE held == OnFile(path525, tk)[<<h, s>>]
           loose == ~isWriteProtected /\ Images[path525].kind = "sector"
<1>1. h \in Half
  BY SlotPlace DEF MediaOK
<1>2. /\ h \notin dirtyTracks => surface[h][s] = held \/ (surface[h][s] = Bad /\ loose)
      /\ surface[h][s] = Blank => held = Blank
  BY DEF Agrees
<1>. HIDE DEF held, loose
<1>3. Spliced[h][s] =
        IF wr525Active /\ Spliceable(sessionAt) /\ h = sessionAt /\ sessionData[s] # None
        THEN sessionData[s] ELSE surface[h][s]
  BY <1>1, SplicedAt
<1>4. h \notin SplicedDirty => h \notin dirtyTracks /\ Spliced[h] = surface[h]
  BY <1>1 DEF SplicedDirty
<1>5. sessionData[s] # Blank
  BY Disk525Assumption, GoodIsValue DEF SessionWritten
<1>6. /\ h \notin SplicedDirty => Spliced[h][s] = held \/ (Spliced[h][s] = Bad /\ loose)
      /\ Spliced[h][s] = Blank => held = Blank
  BY <1>2, <1>3, <1>4, <1>5
<1>. QED
  BY <1>6 DEF held, loose

\* With the session closed, the medium is what the invariant says of it.
LEMMA SplicedKept ==
    ASSUME MediaOK, SessionOK, SessionWritten, MediumKept, path525 # None
    PROVE  /\ isWriteProtected => SplicedDirty = {} /\ Spliced = surface /\ ~cutShort
           /\ ~woz /\ ~cutShort => DOMAIN files[path525] = Trk(path525)
           /\ BareOutside(Spliced)
           /\ woz \/ ~cutShort => Agrees(Spliced, SplicedDirty, Source)
           /\ FileAgrees(Spliced, SplicedDirty, cutShort, files[path525])
<1>1. isWriteProtected => Spliced = surface /\ SplicedDirty = {} /\ ~cutShort
  BY DEF MediumKept, Spliced, SplicedDirty
<1>2. BareOutside(Spliced)
  BY SplicedBare DEF MediumKept
<1>3. woz \/ ~cutShort => Agrees(Spliced, SplicedDirty, Source)
  BY SplicedAgrees DEF MediumKept
<1>4. SplicedDirty = {} => dirtyTracks = {}
  BY DEF SplicedDirty
<1>5. FileAgrees(Spliced, SplicedDirty, cutShort, files[path525])
  BY <1>4, SplicedAgrees DEF MediumKept, FileAgrees
<1>. QED
  BY <1>1, <1>2, <1>3, <1>5 DEF MediumKept

\* What a save composes has every position: the new contents where they decode,
\* the old where they do not.
LEMMA SavedAgrees ==
    ASSUME HostOK, MediaOK, SessionOK, WrapKept, path525 # None, Straight(path525),
           BareOutside(Spliced), ~isWriteProtected,
           ~(cutShort /\ Images[path525].kind = "sector"),
           ~woz /\ ~cutShort => DOMAIN files[path525] = Trk(path525),
           woz \/ ~cutShort => Agrees(Spliced, SplicedDirty, Source)
    PROVE  Agrees(Spliced, {}, Saved(path525))
<1> DEFINE f == path525
           loose == ~isWriteProtected /\ Images[f].kind = "sector"
<1> SUFFICES ASSUME NEW h \in Slots(f), NEW s \in Sector
             PROVE  LET held == OnFile(f, Saved(f))[<<h, s>>]
                    IN  /\ Spliced[h][s] = held \/ (Spliced[h][s] = Bad /\ loose)
                        /\ Spliced[h][s] = Blank => held = Blank
  BY DEF Agrees
<1> DEFINE t == Home(f, h)
           held == OnFile(f, Saved(f))[<<h, s>>]
           src == OnFile(f, Source)[<<h, s>>]
<1>1. f \in Image /\ Images[f].kind \in {"sector", "nib", "woz"}
  BY Disk525Assumption DEF MediaOK
<1>2. /\ h \in Half
      /\ Images[f].kind # "woz" => h = 2 * (h \div 2) /\ t \in Trk(f)
  BY <1>1, SlotPlace
<1>3. /\ held = IF t \in DOMAIN Saved(f) THEN Saved(f)[t][s] ELSE Blank
      /\ src = IF t \in DOMAIN Source THEN Source[t][s] ELSE Blank
  BY OnFileAt
<1>4. woz \/ ~cutShort =>
        /\ h \notin SplicedDirty => Spliced[h][s] = src \/ (Spliced[h][s] = Bad /\ loose)
        /\ Spliced[h][s] = Blank => src = Blank
  BY DEF Agrees
<1>5. CASE Images[f].kind = "woz"
  <2>1. woz /\ Source = wozRaw /\ ~loose
    BY <1>1, <1>5, Disk525Assumption DEF woz, Source
  <2>2. DOMAIN Saved(f) = DOMAIN wozRaw
    BY <1>5 DEF Saved
  <2> DEFINE From == {i \in SplicedDirty : Images[f].home[i] = t}
  <2>3. CASE t \notin DOMAIN wozRaw
    BY <1>3, <2>1, <2>2, <2>3 DEF BareOutside
  <2>4. CASE t \in DOMAIN wozRaw
    <3>1. Saved(f)[t] = IF From = {} THEN wozRaw[t] ELSE Spliced[Max(From)]
      BY <1>5, <2>4 DEF Saved
    <3>2. t = Images[f].home[h]
      BY <1>5 DEF Home
    <3>3. SplicedDirty \subseteq Half
      BY SplicedType
    <3>4. CASE From = {}
      <4>1. h \notin SplicedDirty
        BY <3>2, <3>4
      <4>. QED
        BY <1>3, <1>4, <2>1, <2>2, <2>4, <3>1, <3>4, <4>1
    <3>5. CASE From # {}
      <4>1. t \in Trk(f) /\ t # None
        BY <1>1, <1>5, <2>1, <2>4, FileTracksAre, Disk525Assumption DEF MediaOK, woz
      <4>2. Max(From) \in From
        BY <3>3, <3>5, MaxInside
      <4>3. Max(From) = h
        BY <1>2, <1>5, <3>2, <3>3, <4>1, <4>2 DEF Straight
      <4>4. Saved(f)[t] = Spliced[h]
        BY <3>1, <3>5, <4>3
      <4>. QED
        BY <1>3, <2>2, <2>4, <4>4
    <3>. QED
      BY <3>4, <3>5
  <2>. QED
    BY <2>3, <2>4
<1>6. CASE Images[f].kind = "nib"
  <2>1. DOMAIN Saved(f) = Trk(f) /\ t = h \div 2
    BY <1>6 DEF Saved, Home
  <2>2. Saved(f)[t] = Spliced[2 * t]
    BY <1>2, <1>6 DEF Saved
  <2>. QED
    BY <1>2, <1>3, <1>6, <2>1, <2>2
<1>7. CASE Images[f].kind = "sector"
  <2>1. t = h \div 2 /\ 2 * t = h /\ t \in Trk(f)
    BY <1>2, <1>7 DEF Home
  <2>2. wrap[f] # "macbinary"
    BY <1>1, <1>7 DEF WrapKept, Straight
  <2>3. ~woz /\ ~cutShort /\ Source = files[f] /\ DOMAIN files[f] = Trk(f)
    BY <1>7 DEF woz, Source
  <2>4. \A r \in Sector : Base(f, t, r) = files[f][t][r]
    BY <2>1, <2>2, <2>3 DEF Base
  <2>5. /\ DOMAIN Saved(f) = Trk(f)
        /\ Saved(f)[t] = IF 2 * t \in SplicedDirty THEN DecodedTrack(f, t)
                         ELSE [r \in Sector |-> Base(f, t, r)]
    BY <2>1, <1>7 DEF Saved
  <2>6. Spliced[h][s] \in Good \cup {Bad, Blank}
    BY <1>2, SplicedType DEF Value
  <2>7. src = files[f][t][s] /\ held = Saved(f)[t][s] /\ loose
    BY <1>3, <1>7, <2>1, <2>3, <2>5
  <2>8. CASE h \notin SplicedDirty
    <3>1. Saved(f)[t][s] = files[f][t][s]
      BY <2>1, <2>4, <2>5, <2>8
    <3>. QED
      BY <1>4, <2>3, <2>7, <2>8, <3>1
  <2>9. CASE h \in SplicedDirty
    <3>1. Saved(f)[t][s] = IF Spliced[h][s] \in Good THEN Spliced[h][s] ELSE files[f][t][s]
      BY <2>1, <2>4, <2>5, <2>9 DEF DecodedTrack
    <3>2. Blank \notin Good
      BY Disk525Assumption
    <3>. QED
      BY <1>4, <2>3, <2>6, <2>7, <3>1, <3>2
  <2>. QED
    BY <2>8, <2>9
<1>. QED
  BY <1>1, <1>5, <1>6, <1>7

\* Whatever becomes of the write, the medium and the file a flush leaves.
LEMMA FlushKept ==
    ASSUME HostOK, MediaOK, SessionOK, SessionWritten, WrapKept, MediumKept,
           path525 # None, Straight(path525), FlushDisk525
    PROVE  LET cut == cutShort \/ saveResult' = "short"
               raw == IF woz THEN FlushedRaw ELSE files'[path525]
           IN  /\ isWriteProtected => FlushedDirty = {} /\ ~cut
               /\ ~woz /\ ~cut => DOMAIN files'[path525] = Trk(path525)
               /\ BareOutside(Spliced)
               /\ woz => DOMAIN FlushedRaw = DOMAIN wozRaw
               /\ woz \/ ~cut => Agrees(Spliced, FlushedDirty, raw)
               /\ FileAgrees(Spliced, FlushedDirty, cut, files'[path525])
               /\ saveResult' = "whole" /\ ~(cutShort /\ Images[path525].kind = "sector") =>
                    Agrees(Spliced, {}, files'[path525])
               /\ saveResult' # "whole" => ~isWriteProtected
<1> DEFINE f == path525
           cut == cutShort \/ saveResult' = "short"
           raw == IF woz THEN FlushedRaw ELSE files'[f]
<1>1. /\ isWriteProtected => SplicedDirty = {} /\ Spliced = surface /\ ~cutShort
      /\ ~woz /\ ~cutShort => DOMAIN files[f] = Trk(f)
      /\ BareOutside(Spliced)
      /\ woz \/ ~cutShort => Agrees(Spliced, SplicedDirty, Source)
      /\ FileAgrees(Spliced, SplicedDirty, cutShort, files[f])
  BY SplicedKept
<1>2. /\ saveResult' \in {"whole", "refused", "short"}
      /\ ~Saves => saveResult' = "whole" /\ files' = files
      /\ Saves /\ saveResult' = "whole" => files'[f] = Saved(f)
      /\ saveResult' = "refused" => files' = files /\ Saves
      /\ saveResult' = "short" => Saves
  BY FlushEnds DEF FlushDisk525
<1>3. Saves <=> SplicedDirty # {} /\ ~isWriteProtected
  BY DEF Saves
<1>4. /\ woz => Images[f].kind = "woz" /\ DOMAIN Saved(f) = DOMAIN wozRaw
      /\ ~woz => Images[f].kind # "woz" /\ DOMAIN Saved(f) = Trk(f)
  BY DEF woz, Saved
<1>5. Saves /\ ~(cutShort /\ Images[f].kind = "sector") => Agrees(Spliced, {}, Saved(f))
  BY <1>1, <1>3, SavedAgrees
<1>6. CASE ~Saves
  <2>1. SplicedDirty = {} /\ FlushedDirty = {} /\ FlushedRaw = wozRaw
    BY <1>1, <1>3, <1>6 DEF FlushedDirty, FlushedRaw
  <2>2. raw = Source /\ (cut <=> cutShort) /\ files' = files /\ saveResult' = "whole"
    BY <1>2, <1>6, <2>1 DEF Source
  <2>. QED
    BY <1>1, <2>1, <2>2 DEF FileAgrees
<1>7. CASE Saves /\ saveResult' = "whole"
  <2>1. FlushedDirty = {} /\ files'[f] = Saved(f) /\ (cut <=> cutShort)
    BY <1>2, <1>7 DEF FlushedDirty
  <2>2. woz => FlushedRaw = Saved(f)
    BY <1>7 DEF FlushedRaw
  <2>3. raw = Saved(f)
    BY <2>1, <2>2
  <2>. QED
    BY <1>1, <1>3, <1>4, <1>5, <1>7, <2>1, <2>2, <2>3 DEF FileAgrees
<1>8. CASE Saves /\ saveResult' # "whole"
  <2>1. FlushedDirty = SplicedDirty /\ SplicedDirty # {}
    BY <1>3, <1>8 DEF FlushedDirty
  <2>2. woz => FlushedRaw = Saved(f) /\ Agrees(Spliced, {}, Saved(f))
    BY <1>4, <1>5, <1>8 DEF FlushedRaw
  <2>3. Agrees(Spliced, {}, Saved(f)) => Agrees(Spliced, SplicedDirty, Saved(f))
    BY DEF Agrees
  <2>4. ~cut => files' = files /\ ~cutShort
    BY <1>2, <1>8
  <2>5. ~woz /\ ~cut => Agrees(Spliced, SplicedDirty, raw)
    BY <1>1, <2>4 DEF Source
  <2>6. FileAgrees(Spliced, SplicedDirty, cut, files'[f])
    BY <1>1, <2>1, <2>4 DEF FileAgrees
  <2>. QED
    BY <1>1, <1>3, <1>4, <1>8, <2>1, <2>2, <2>3, <2>4, <2>5, <2>6
<1>. QED
  BY <1>6, <1>7, <1>8

\* The drive keeps its image, with the tracks, marks and bytes it has now.
LEMMA KeptMedium ==
    ASSUME path525' = path525,
           path525 # None =>
             /\ isWriteProtected => dirtyTracks' = {} /\ ~wr525Active' /\ ~cutShort'
             /\ ~woz /\ ~cutShort' => DOMAIN files'[path525] = Trk(path525)
             /\ BareOutside(surface')
             /\ woz => DOMAIN wozRaw' = DOMAIN wozRaw
             /\ woz \/ ~cutShort' =>
                  Agrees(surface', dirtyTracks', IF woz THEN wozRaw' ELSE files'[path525])
             /\ FileAgrees(surface', dirtyTracks', cutShort', files'[path525])
    PROVE  MediumKept'
<1>1. isWriteProtected' = isWriteProtected /\ woz' = woz
  BY DEF isWriteProtected, woz
<1>2. path525 # None => BareOutside(surface)'
  BY <1>1 DEF BareOutside
<1>3. Source' = IF woz THEN wozRaw' ELSE files'[path525]
  BY <1>1 DEF Source
<1>4. path525 # None /\ (woz \/ ~cutShort') => Agrees(surface, dirtyTracks, Source)'
  BY <1>1, <1>3 DEF Agrees
<1>5. path525 # None => FileAgrees(surface, dirtyTracks, cutShort, files[path525])'
  BY <1>1 DEF FileAgrees, Agrees
<1>. QED
  BY <1>1, <1>2, <1>4, <1>5 DEF MediumKept

\* Nothing of the drive and its files changes but the session.
LEMMA DataMedium ==
    ASSUME HostOK, MediaOK, SessionOK, SessionWritten, WrapKept, MediumKept,
           NEW op, NEW closed, NEW h, NEW en, NEW dr, NEW ph, NEW c6, NEW c7,
           op = None \/ op \in Sector \X (Good \cup {Bad}),
           closed \in BOOLEAN, DataPart(op, closed, h, en, dr, ph, c6, c7)
    PROVE  SessionWritten' /\ WrapKept' /\ MediumKept'
<1> DEFINE writes == /\ op # None /\ c7 /\ c6 /\ HeadSelected(en, dr, ph)
                     /\ path525 # None /\ ~isWriteProtected
           reads == op = None /\ ~c7 /\ ~c6 /\ HeadSelected(en, dr, ph)
           fresh == closed \/ ~wr525Active
           ends == closed \/ reads
           before == IF fresh THEN NoBytes ELSE sessionData
<1>1. /\ surface' = IF ends THEN Spliced ELSE surface
      /\ dirtyTracks' = IF ends THEN SplicedDirty ELSE dirtyTracks
      /\ wr525Active' = (writes \/ (wr525Active /\ ~ends))
      /\ sessionData' = IF writes THEN [before EXCEPT ![op[1]] = op[2]]
                        ELSE IF ends THEN NoBytes ELSE sessionData
      /\ UNCHANGED <<hostFiles, path525, wozRaw, saves>>
  BY DEF DataPart
<1>2. writes => op \in Sector \X (Good \cup {Bad}) /\ ~isWriteProtected
  OBVIOUS
<1>3. before \in [Sector -> Good \cup {Bad, None}] /\ NoBytes \in [Sector -> Good \cup {Bad, None}]
  BY DEF NoBytes, SessionWritten
<1>. HIDE DEF writes, reads, fresh, ends, before
<1>4. SessionWritten'
  <2>1. writes => op[1] \in Sector /\ op[2] \in Good \cup {Bad, None}
    BY <1>2
  <2>. QED
    BY <1>1, <1>3, <2>1 DEF SessionWritten
<1>5. WrapKept'
  BY <1>1 DEF hostFiles, WrapKept
<1>6. /\ path525' = path525 /\ files' = files /\ wozRaw' = wozRaw /\ cutShort' = cutShort
      /\ Source = IF woz THEN wozRaw' ELSE files'[path525]
  BY <1>1 DEF hostFiles, saves, Source
<1>7. ASSUME path525 # None
      PROVE  /\ isWriteProtected => dirtyTracks' = {} /\ ~wr525Active' /\ ~cutShort'
             /\ ~woz /\ ~cutShort' => DOMAIN files'[path525] = Trk(path525)
             /\ BareOutside(surface')
             /\ woz \/ ~cutShort' => Agrees(surface', dirtyTracks', Source)
             /\ FileAgrees(surface', dirtyTracks', cutShort', files'[path525])
  <2>1. CASE ends
    BY <1>1, <1>2, <1>6, <1>7, <2>1, SplicedKept DEF MediumKept
  <2>2. CASE ~ends
    BY <1>1, <1>2, <1>6, <1>7, <2>2 DEF MediumKept
  <2>. QED
    BY <2>1, <2>2
<1>8. MediumKept'
  BY <1>6, <1>7, KeptMedium
<1>. QED
  BY <1>4, <1>5, <1>8

\* A flush leaves the envelopes as the invariant wants them.
LEMMA FlushWraps ==
    ASSUME HostOK, MediaOK, WrapKept, FlushDisk525
    PROVE  WrapKept'
<1>1. CASE wrap' = wrap
  BY <1>1 DEF WrapKept
<1>2. CASE Saves /\ wrap' = [wrap EXCEPT ![path525] = SavedWrap(path525)]
  <2>1. SavedWrap(path525) = "macbinary" => wrap[path525] = "macbinary"
    BY DEF SavedWrap
  <2>. QED
    BY <1>2, <2>1 DEF HostOK, WrapKept
<1>. QED
  BY <1>1, <1>2, FlushEnds

\* The session is closed, and the medium flushed.
LEMMA FlushMedium ==
    ASSUME HostOK, MediaOK, SessionOK, SessionWritten, WrapKept, MediumKept,
           path525 # None => Straight(path525),
           FlushDisk525, SessionClosed, path525' = path525, surface' = Spliced,
           dirtyTracks' = FlushedDirty, wozRaw' = FlushedRaw,
           cutShort' = (cutShort \/ saveResult' = "short")
    PROVE  SessionWritten' /\ WrapKept' /\ MediumKept'
<1>1. SessionWritten'
  BY DEF SessionClosed, SessionWritten, NoBytes
<1>2. WrapKept'
  BY FlushWraps
<1>3. ~wr525Active'
  BY DEF SessionClosed
<1>4. MediumKept'
  BY <1>3, FlushKept, KeptMedium
<1>. QED
  BY <1>1, <1>2, <1>4

\* A loaded image is what its file has.
LEMMA LoadedMedium ==
    ASSUME NEW f \in Image, Mounted(f)
    PROVE  /\ MediumKept'
           /\ \A h \in Slots(f), s \in Sector :
                Loaded(f)[h][s] = OnFile(f, files'[f])[<<h, s>>]
<1>1. ASSUME NEW h \in Slots(f), NEW s \in Sector
      PROVE  /\ Loaded(f)[h][s] = OnFile(f, files'[f])[<<h, s>>]
             /\ Home(f, h) \notin DOMAIN files'[f] => Loaded(f)[h][s] = Blank
  <2>1. h \in Half /\ Slot(f, h) = h
    BY <1>1, SlotPlace
  <2>2. Loaded(f)[h] = IF Home(f, h) \notin DOMAIN files'[f] THEN Absent
                       ELSE files'[f][Home(f, h)]
    BY <2>1 DEF Loaded, Home
  <2>3. OnFile(f, files'[f])[<<h, s>>] = IF Home(f, h) \in DOMAIN files'[f]
                                         THEN files'[f][Home(f, h)][s] ELSE Blank
    BY <1>1, OnFileAt
  <2>. QED
    BY <2>2, <2>3 DEF Absent
<1>2. /\ path525' = f /\ surface' = Loaded(f) /\ dirtyTracks' = {} /\ ~cutShort' /\ ~wr525Active'
      /\ wozRaw' = IF Images[f].kind = "woz" THEN files'[f] ELSE <<>>
      /\ Loadable(f)
  BY DEF Mounted, SessionClosed
<1>3. woz' => wozRaw' = files'[f]
  BY <1>2 DEF woz
<1>4. Source' = files'[f]
  BY <1>2, <1>3 DEF Source
<1>5. Agrees(surface, dirtyTracks, files[f])'
  BY <1>1, <1>2 DEF Agrees
<1>6. BareOutside(surface)'
  BY <1>1, <1>2, <1>3 DEF BareOutside
<1>7. ~woz' => DOMAIN files'[f] = Trk(f)
  <2>1. ~woz' => Images[f].kind # "woz"
    BY <1>2, Disk525Assumption DEF woz
  <2>. QED
    BY <1>2, <2>1 DEF Loadable
<1>8. Agrees(surface, dirtyTracks, Source)'
  BY <1>4, <1>5 DEF Agrees
<1>9. FileAgrees(surface, dirtyTracks, cutShort, files[path525])'
  BY <1>2, <1>5 DEF FileAgrees
<1>. QED
  BY <1>1, <1>2, <1>6, <1>7, <1>8, <1>9 DEF MediumKept

LEMMA NextMedium ==
    ASSUME \A f \in Image : Straight(f), MediumInv, [DriveNext]_driveVars
    PROVE  MediumInv'
<1> DEFINE Guest(op) == op = None \/ op \in Sector \X (Good \cup {Bad})
           OK == SessionWritten' /\ WrapKept' /\ MediumKept'
<1>1. HostOK /\ MediaOK /\ LinesOK /\ SessionOK /\ SessionWritten /\ WrapKept /\ MediumKept
  BY TypeParts DEF MediumInv
<1>2. DriveTypeOK' /\ SessionUnderArm'
  BY NextType, NextSession DEF MediumInv
<1>3. path525 # None => path525 \in Image /\ Straight(path525)
  BY <1>1 DEF MediaOK
<1>a. ASSUME NEW offset, NEW op \in Ops(offset) PROVE Guest(op)
  BY <1>1, <1>a, OpsType
<1>b. ASSUME NEW op, Guest(op), NEW closed \in BOOLEAN, NEW h, NEW en, NEW dr, NEW ph,
             NEW c6, NEW c7, DataPart(op, closed, h, en, dr, ph, c6, c7)
      PROVE  OK
  BY <1>1, <1>b, DataMedium
<1>. SUFFICES OK
  BY <1>2 DEF MediumInv
<1>. HIDE DEF Guest, OK
<1>4. ASSUME NEW magnet \in 0 .. 3, NEW on \in BOOLEAN, NEW op, Guest(op), Phase(magnet, on, op)
      PROVE  OK
  <2> DEFINE ph == IF on THEN phases \cup ({magnet} \cap Sensed) ELSE phases \ {magnet}
             h == IF on /\ ~sel35 THEN Stepped(magnet) ELSE halfTrack
  <2>1. DataPart(op, on /\ ~sel35, h, enable, drive, ph, q6, q7)
    BY <1>4 DEF Phase
  <2>2. (on /\ ~sel35) \in BOOLEAN
    OBVIOUS
  <2>. HIDE DEF h, ph
  <2>. QED
    BY <1>4, <1>b, <2>1, <2>2
<1>5. ASSUME NEW op, Guest(op), EnableOn(op) PROVE OK
  BY <1>5, <1>b DEF EnableOn
<1>6. ASSUME NEW d, NEW op, Guest(op), SelectDrive(d, op) PROVE OK
  BY <1>6, <1>b DEF SelectDrive
<1>7. ASSUME NEW on, NEW op, Guest(op), Q6Line(on, op) PROVE OK
  BY <1>7, <1>b DEF Q6Line
<1>8. ASSUME NEW on, NEW op, Guest(op), Q7Line(on, op) PROVE OK
  <2>1. DataPart(op, ~on /\ q7 /\ ~sel35, halfTrack, enable, drive, phases, q6, on)
    BY <1>8 DEF Q7Line
  <2>2. (~on /\ q7 /\ ~sel35) \in BOOLEAN
    OBVIOUS
  <2>. QED
    BY <1>8, <1>b, <2>1, <2>2
<1>9. CASE UNCHANGED <<hostFiles, media, open, cutShort>>
  <2>1. SessionWritten' /\ WrapKept'
    BY <1>1, <1>9 DEF hostFiles, open, SessionWritten, WrapKept
  <2>2. /\ path525' = path525 /\ surface' = surface /\ dirtyTracks' = dirtyTracks
        /\ wozRaw' = wozRaw /\ files' = files /\ cutShort' = cutShort
        /\ wr525Active' = wr525Active
    BY <1>9 DEF hostFiles, media, open
  <2>3. Source = IF woz THEN wozRaw' ELSE files'[path525]
    BY <2>2 DEF Source
  <2>4. MediumKept'
    BY <1>1, <2>2, <2>3, KeptMedium DEF MediumKept
  <2>. QED
    BY <2>1, <2>4 DEF OK
<1>10. CASE EnableOff
  <2>1. CASE sel35
    BY <1>9, <1>10, <2>1 DEF EnableOff, media, saves
  <2>2. CASE ~sel35
    BY <1>1, <1>3, <1>10, <2>2, FlushMedium DEF EnableOff, OK
  <2>. QED
    BY <2>1, <2>2
<1>11. CASE Exit
  BY <1>1, <1>11, FlushWraps DEF Exit, Emptied, SessionClosed, NoBytes, SessionWritten,
                                 MediumKept, OK
<1>12. CASE Reset
  <2>1. /\ UNCHANGED hostFiles /\ path525' = path525 /\ surface' = Spliced
        /\ dirtyTracks' = SplicedDirty /\ SessionClosed /\ wozRaw' = wozRaw
        /\ cutShort' = cutShort
    BY <1>12 DEF Reset, saves
  <2>2. SessionWritten' /\ WrapKept'
    BY <1>1, <2>1 DEF SessionClosed, NoBytes, SessionWritten, WrapKept, hostFiles
  <2>3. files' = files /\ ~wr525Active' /\ Source = IF woz THEN wozRaw' ELSE files'[path525]
    BY <2>1 DEF SessionClosed, hostFiles, Source
  <2>4. MediumKept'
    BY <1>1, <2>1, <2>3, SplicedKept, KeptMedium
  <2>. QED
    BY <2>2, <2>4 DEF OK
<1>13. ASSUME NEW f \in shelf, LoadDisk525(f) PROVE OK
  <2>1. f \in Image
    BY <1>1, Disk525Assumption DEF HostOK
  <2>2. FlushDisk525 /\ Mounted(f)
    BY <1>13 DEF LoadDisk525
  <2>3. SessionWritten' /\ WrapKept'
    BY <1>1, <2>2, FlushWraps DEF Mounted, SessionClosed, NoBytes, SessionWritten
  <2>. QED
    BY <2>1, <2>2, <2>3, LoadedMedium DEF OK
<1>14. CASE EjectDisk525
  BY <1>1, <1>14, FlushWraps DEF EjectDisk525, Emptied, SessionClosed, NoBytes, SessionWritten,
                                 MediumKept, OK
<1>15. ASSUME DriveNext PROVE OK
  <2>1. ASSUME NEW magnet \in 0 .. 3, NEW op \in Ops(2 * magnet), Phase(magnet, FALSE, op)
        PROVE  OK
    BY <1>a, <1>4, <2>1
  <2>2. ASSUME NEW magnet \in 0 .. 3, NEW op \in Ops(2 * magnet + 1), Phase(magnet, TRUE, op)
        PROVE  OK
    BY <1>a, <1>4, <2>2
  <2>3. ASSUME NEW d \in {0, 1}, NEW op \in Ops(10 + d), SelectDrive(d, op) PROVE OK
    BY <1>a, <1>6, <2>3
  <2>4. ASSUME NEW op \in Ops(9), EnableOn(op) PROVE OK
    BY <1>a, <1>5, <2>4
  <2>5. ASSUME NEW op \in Ops(12), Q6Line(FALSE, op) PROVE OK
    BY <1>a, <1>7, <2>5
  <2>6. ASSUME NEW op \in Ops(13), Q6Line(TRUE, op) PROVE OK
    BY <1>a, <1>7, <2>6
  <2>7. ASSUME NEW op \in Ops(14), Q7Line(FALSE, op) PROVE OK
    BY <1>a, <1>8, <2>7
  <2>8. ASSUME NEW op \in Ops(15), Q7Line(TRUE, op) PROVE OK
    BY <1>a, <1>8, <2>8
  <2>9. ASSUME NEW on \in BOOLEAN, SetDiskReg(on) PROVE OK
    BY <1>9, <2>9 DEF SetDiskReg, saves
  <2>. QED
    BY <1>10, <1>11, <1>12, <1>13, <1>14, <1>15, <2>1, <2>2, <2>3, <2>4, <2>5, <2>6, <2>7,
       <2>8, <2>9 DEF DriveNext
<1>. QED
  BY <1>9, <1>15 DEF driveVars, saves

LEMMA InitMedium == DriveInit => MediumInv
<1> SUFFICES ASSUME DriveInit PROVE MediumInv
  OBVIOUS
<1>1. DriveTypeOK /\ SessionUnderArm
  BY InitType DEF DriveInit, SessionUnderArm
<1>. QED
  BY <1>1 DEF MediumInv, DriveInit, SessionWritten, WrapKept, MediumKept, NoBytes

\* When every image has one place for each position, what carries no dirty
\* mark is on the host's file, so that motor-off, eject and exit may skip it:
\* whatever saves were refused or cut short, and whenever they are tried again,
\* but while a save that was cut short waits for its retry, and for a sector
\* image after it.
THEOREM CleanIsSavedTheorem ==
    ASSUME \A f \in Image : Straight(f)
    PROVE  DriveSpec => []CleanIsSaved
<1>1. MediumInv /\ [DriveNext]_driveVars => MediumInv'
  BY NextMedium
<1>2. MediumInv => CleanIsSaved
  <2> SUFFICES ASSUME MediumInv, path525 # None,
                      cutShort => dirtyTracks = {} /\ Images[path525].kind # "sector",
                      NEW h \in Slots(path525), h \notin dirtyTracks, NEW s \in Sector,
                      surface[h][s] \in Good
               PROVE  /\ Home(path525, h) \in DOMAIN files[path525]
                      /\ files[path525][Home(path525, h)][s] = surface[h][s]
    BY DEF CleanIsSaved, Home, woz
  <2>1. cutShort \in BOOLEAN
    BY DEF MediumInv, DriveTypeOK
  <2>2. Agrees(surface, dirtyTracks, files[path525])
    BY <2>1 DEF MediumInv, MediumKept, FileAgrees
  <2>3. surface[h][s] = OnFile(path525, files[path525])[<<h, s>>]
    BY <2>2, Disk525Assumption DEF Agrees
  <2>4. Blank \notin Good
    BY Disk525Assumption
  <2>. QED
    BY <2>3, <2>4, OnFileAt
<1>. QED
  BY <1>1, <1>2, InitMedium, PTL DEF DriveSpec

-----------------------------------------------------------------------------
(* What the owner of an image sees of it.                                  *)

\* The sectors of image f, mounted or not.
LEMMA SeenAt ==
    ASSUME NEW f, NEW h \in Slots(f), NEW s \in Sector
    PROVE  SeenOf(f)[<<h, s>>] = IF f = path525 THEN Spliced[h][s]
                                 ELSE OnFile(f, files[f])[<<h, s>>]
BY DEF SeenOf, OnFile

LEMMA SeenAtNext ==
    ASSUME NEW f, NEW h \in Slots(f), NEW s \in Sector
    PROVE  SeenOf(f)'[<<h, s>>] = IF f = path525' THEN Spliced'[h][s]
                                  ELSE OnFile(f, files'[f])[<<h, s>>]
BY DEF SeenOf, OnFile

\* Two views of an image are functions of the same positions.
LEMMA SeenDomain ==
    ASSUME NEW f
    PROVE  /\ DOMAIN SeenOf(f) = Slots(f) \X Sector
           /\ DOMAIN (SeenOf(f)') = Slots(f) \X Sector
           /\ SeenOf(f) = [p \in Slots(f) \X Sector |-> SeenOf(f)[p]]
           /\ SeenOf(f)' = [p \in Slots(f) \X Sector |-> SeenOf(f)'[p]]
<1>1. SeenOf(f) = IF f = path525 THEN [p \in Slots(f) \X Sector |-> Spliced[p[1]][p[2]]]
                  ELSE OnFile(f, files[f])
  BY DEF SeenOf
<1>2. SeenOf(f)' = IF f = path525' THEN [p \in Slots(f) \X Sector |-> Spliced'[p[1]][p[2]]]
                   ELSE OnFile(f, files'[f])
  BY DEF SeenOf
<1>. QED
  BY <1>1, <1>2 DEF OnFile

LEMMA SameFunction ==
    ASSUME NEW D, NEW A, NEW B, A = [p \in D |-> A[p]], B = [p \in D |-> B[p]],
           \A p \in D : A[p] = B[p]
    PROVE  A = B
<1>1. [p \in D |-> A[p]] = [p \in D |-> B[p]]
  OBVIOUS
<1>. QED
  BY <1>1

\* An image nothing touched is seen as before.
LEMMA SeenSame ==
    ASSUME NEW f, \A h \in Slots(f), s \in Sector : SeenOf(f)'[<<h, s>>] = SeenOf(f)[<<h, s>>]
    PROVE  SeenOf(f)' = SeenOf(f)
<1>1. ASSUME NEW p \in Slots(f) \X Sector PROVE SeenOf(f)'[p] = SeenOf(f)[p]
  <2>1. p = <<p[1], p[2]>> /\ p[1] \in Slots(f) /\ p[2] \in Sector
    OBVIOUS
  <2>. QED
    BY <2>1
<1> DEFINE D == Slots(f) \X Sector
<1>2. /\ SeenOf(f) = [p \in D |-> SeenOf(f)[p]]
      /\ SeenOf(f)' = [p \in D |-> SeenOf(f)'[p]]
      /\ \A p \in D : SeenOf(f)'[p] = SeenOf(f)[p]
  BY <1>1, SeenDomain
<1>. HIDE DEF D
<1>. QED
  BY <1>2, SameFunction

\* One access of the guest changes at most one sector of the tracks: the one a
\* write of it is for, at the session's position.
LEMMA DataSpliced ==
    ASSUME HostOK, MediaOK, SessionOK, MediaOK', SessionOK',
           NEW op, NEW closed, NEW h, NEW en, NEW dr, NEW ph, NEW c6, NEW c7,
           op = None \/ op \in Sector \X (Good \cup {Bad}),
           closed \in BOOLEAN, DataPart(op, closed, h, en, dr, ph, c6, c7)
    PROVE  \/ Spliced' = Spliced
           \/ /\ c6 /\ c7 /\ HeadSelected(en, dr, ph) /\ ~isWriteProtected
              /\ path525 # None /\ wr525Active'
              /\ \E r \in Sector :
                   /\ Spliced'[sessionAt'][r] # Spliced[sessionAt'][r] =>
                        Spliced'[sessionAt'][r] = sessionData'[r]
                   /\ \A k \in Half, s \in Sector :
                        k # sessionAt' \/ s # r => Spliced'[k][s] = Spliced[k][s]
<1> DEFINE writes == /\ op # None /\ c7 /\ c6 /\ HeadSelected(en, dr, ph)
                     /\ path525 # None /\ ~isWriteProtected
           reads == op = None /\ ~c7 /\ ~c6 /\ HeadSelected(en, dr, ph)
           fresh == closed \/ ~wr525Active
           ends == closed \/ reads
           before == IF fresh THEN NoBytes ELSE sessionData
<1>1. /\ surface' = IF ends THEN Spliced ELSE surface
      /\ wr525Active' = (writes \/ (wr525Active /\ ~ends))
      /\ sessionAt' = IF writes /\ fresh THEN Slot(path525, h) ELSE sessionAt
      /\ sessionData' = IF writes THEN [before EXCEPT ![op[1]] = op[2]]
                        ELSE IF ends THEN NoBytes ELSE sessionData
      /\ UNCHANGED <<hostFiles, path525, wozRaw>>
  BY DEF DataPart
<1>2. writes => /\ op \in Sector \X (Good \cup {Bad}) /\ op # None
                /\ ~isWriteProtected /\ ~reads /\ path525 # None
                /\ c6 /\ c7 /\ HeadSelected(en, dr, ph)
  OBVIOUS
<1>3. before \in [Sector -> Value \cup {None}]
  BY DEF NoBytes, SessionOK
<1>4. \A i : Spliceable(i)' = Spliceable(i)
  BY <1>1 DEF Spliceable, woz
<1>5. /\ fresh <=> (closed \/ ~wr525Active)
      /\ ends <=> (closed \/ reads)
      /\ before = IF fresh THEN NoBytes ELSE sessionData
  OBVIOUS
<1>. HIDE DEF writes, reads, fresh, ends, before
<1>6. ~wr525Active => Spliced = surface
  BY DEF Spliced
<1>7. ~wr525Active' => Spliced' = surface'
  BY DEF Spliced
<1>8. CASE ~writes /\ ends
  BY <1>1, <1>7, <1>8
<1>9. CASE ~writes /\ ~ends
  <2>1. /\ surface' = surface /\ wr525Active' = wr525Active /\ sessionAt' = sessionAt
        /\ sessionData' = sessionData
    BY <1>1, <1>9 DEF SessionOK
  <2>. QED
    BY <1>4, <2>1 DEF Spliced
<1>10. CASE writes
  <2>1. op[1] \in Sector /\ ~isWriteProtected /\ wr525Active' /\ sessionAt' \in Half
    BY <1>1, <1>2, <1>10 DEF SessionOK
  <2>2. \A s \in Sector : s # op[1] => sessionData'[s] = before[s]
    BY <1>1, <1>3, <1>10
  <2>3. ASSUME NEW k \in Half, NEW s \in Sector
        PROVE  Spliced'[k][s] =
                 IF Spliceable(sessionAt') /\ k = sessionAt' /\ sessionData'[s] # None
                 THEN sessionData'[s] ELSE surface'[k][s]
    <3> DEFINE new == [r \in Sector |-> IF sessionData'[r] = None THEN surface'[sessionAt'][r]
                                       ELSE sessionData'[r]]
    <3>1. CASE Spliceable(sessionAt')
      <4>1. Spliced' = [surface' EXCEPT ![sessionAt'] = new]
        BY <1>4, <2>1, <3>1 DEF Spliced
      <4>2. new[s] = IF sessionData'[s] = None THEN surface'[sessionAt'][s] ELSE sessionData'[s]
        OBVIOUS
      <4>. HIDE DEF new
      <4>3. Spliced'[k] = IF k = sessionAt' THEN new ELSE surface'[k]
        BY <4>1 DEF MediaOK
      <4>. QED
        BY <3>1, <4>2, <4>3
    <3>2. CASE ~Spliceable(sessionAt')
      BY <1>4, <3>2 DEF Spliced
    <3>. QED
      BY <3>1, <3>2
  <2>4. ASSUME NEW k \in Half, NEW s \in Sector, k # sessionAt' \/ s # op[1]
        PROVE  Spliced'[k][s] = Spliced[k][s]
    <3>1. CASE fresh
      <4>1. surface' = Spliced
        BY <1>1, <1>2, <1>5, <1>6, <1>10, <3>1
      <4>2. before[s] = None
        BY <1>5, <3>1 DEF NoBytes
      <4>. QED
        BY <2>2, <2>3, <2>4, <4>1, <4>2
    <3>2. CASE ~fresh
      <4>1. surface' = surface /\ sessionAt' = sessionAt /\ wr525Active /\ before = sessionData
        BY <1>1, <1>2, <1>5, <1>10, <3>2 DEF SessionOK
      <4>2. Spliced[k][s] =
              IF wr525Active /\ Spliceable(sessionAt) /\ k = sessionAt /\ sessionData[s] # None
              THEN sessionData[s] ELSE surface[k][s]
        BY SplicedAt
      <4>. QED
        BY <2>2, <2>3, <2>4, <4>1, <4>2
    <3>. QED
      BY <3>1, <3>2
  <2>5. ASSUME Spliced'[sessionAt'][op[1]] # Spliced[sessionAt'][op[1]]
        PROVE  Spliced'[sessionAt'][op[1]] = sessionData'[op[1]]
    <3>1. sessionData'[op[1]] = op[2] /\ op[2] # None
      BY <1>1, <1>2, <1>3, <1>10, <2>1, GoodIsValue, Disk525Assumption
    <3>2. CASE Spliceable(sessionAt')
      BY <2>1, <2>3, <3>1, <3>2
    <3>3. CASE ~Spliceable(sessionAt')
      <4>1. Spliced' = surface'
        BY <1>4, <3>3 DEF Spliced
      <4>2. surface' = Spliced
        <5>1. CASE fresh
          BY <1>1, <1>2, <1>5, <1>6, <1>10, <5>1
        <5>2. CASE ~fresh
          BY <1>1, <1>2, <1>5, <1>10, <3>3, <5>2 DEF Spliced
        <5>. QED
          BY <5>1, <5>2
      <4>. QED
        BY <2>5, <4>1, <4>2
    <3>. QED
      BY <3>2, <3>3
  <2>. QED
    BY <1>2, <1>10, <2>1, <2>4, <2>5
<1>. QED
  BY <1>8, <1>9, <1>10

\* A view that differs at one sector at most differs at one of its own.
LEMMA OneSector ==
    ASSUME NEW f, NEW i, NEW r, SeenOf(f) # SeenOf(f)',
           \A h \in Slots(f), s \in Sector :
              h # i \/ s # r => SeenOf(f)'[<<h, s>>] = SeenOf(f)[<<h, s>>]
    PROVE  /\ i \in Slots(f) /\ r \in Sector
           /\ SeenOf(f)'[<<i, r>>] # SeenOf(f)[<<i, r>>]
           /\ SeenOf(f)' = [SeenOf(f) EXCEPT ![<<i, r>>] = SeenOf(f)'[<<i, r>>]]
<1>1. i \in Slots(f) /\ r \in Sector /\ SeenOf(f)'[<<i, r>>] # SeenOf(f)[<<i, r>>]
  BY SeenSame
<1> DEFINE D == Slots(f) \X Sector
           new == [SeenOf(f) EXCEPT ![<<i, r>>] = SeenOf(f)'[<<i, r>>]]
<1>2. /\ DOMAIN SeenOf(f) = D /\ <<i, r>> \in D
      /\ SeenOf(f) = [p \in D |-> SeenOf(f)[p]]
      /\ SeenOf(f)' = [p \in D |-> SeenOf(f)'[p]]
  BY <1>1, SeenDomain
<1>3. ASSUME NEW p \in D PROVE SeenOf(f)'[p] = new[p]
  <2>1. p = <<p[1], p[2]>> /\ p[1] \in Slots(f) /\ p[2] \in Sector
    OBVIOUS
  <2>2. p # <<i, r>> => p[1] # i \/ p[2] # r
    BY <2>1
  <2>3. p # <<i, r>> => SeenOf(f)'[p] = SeenOf(f)[p]
    BY <2>1, <2>2
  <2>4. new[p] = IF p = <<i, r>> THEN SeenOf(f)'[<<i, r>>] ELSE SeenOf(f)[p]
    BY <1>2
  <2>. QED
    BY <2>3, <2>4
<1>4. new = [p \in D |-> new[p]]
  BY <1>2
<1>. HIDE DEF D, new
<1>5. SeenOf(f)' = new
  BY <1>2, <1>3, <1>4, SameFunction
<1>. QED
  BY <1>1, <1>5 DEF new

\* The clause of OwnerStep for one image.
Entitled(f) ==
    SeenOf(f)' # SeenOf(f) =>
      /\ f = path525 /\ ~Images[f].protected
      /\ GuestWrote(f) \/ (~wr525Active' /\ (LeftWhole(f) \/ LeftLost(f)))

\* An image out of the drive, whose file stays, is seen as before.
LEMMA OutsideSame ==
    ASSUME NEW f, f # path525, f # path525', files'[f] = files[f]
    PROVE  SeenOf(f)' = SeenOf(f)
BY DEF SeenOf

\* The mounted image, whose tracks stay once the session is counted.
LEMMA InsideSame ==
    ASSUME NEW f, f = path525, f = path525', Spliced' = Spliced
    PROVE  SeenOf(f)' = SeenOf(f)
<1>1. ASSUME NEW h \in Slots(f), NEW s \in Sector
      PROVE  SeenOf(f)'[<<h, s>>] = SeenOf(f)[<<h, s>>]
  BY SeenAt, SeenAtNext
<1>. QED
  BY <1>1, SeenSame

LEMMA DataOwner ==
    ASSUME HostOK, MediaOK, SessionOK, MediaOK', SessionOK', SessionUnderArm', NEW f \in Image,
           NEW op, NEW closed,
           op = None \/ op \in Sector \X (Good \cup {Bad}), closed \in BOOLEAN,
           DataPart(op, closed, halfTrack', enable', drive', phases', q6', q7')
    PROVE  Entitled(f)
<1>1. UNCHANGED <<hostFiles, path525, sel35>>
  BY DEF DataPart
<1>2. CASE f # path525
  <2>1. SeenOf(f)' = SeenOf(f)
    BY <1>1, <1>2, OutsideSame DEF hostFiles
  <2>. QED
    BY <2>1 DEF Entitled
<1>3. CASE f = path525 /\ Spliced' = Spliced
  <2>1. SeenOf(f)' = SeenOf(f)
    BY <1>1, <1>3, InsideSame
  <2>. QED
    BY <2>1 DEF Entitled
<1>4. CASE f = path525 /\ Spliced' # Spliced
  <2> DEFINE i == sessionAt'
  <2>1. /\ q6' /\ q7' /\ HeadSelected(enable', drive', phases') /\ ~isWriteProtected
        /\ path525 # None /\ wr525Active'
    BY <1>4, DataSpliced
  <2>2. PICK r \in Sector :
           /\ Spliced'[i][r] # Spliced[i][r] => Spliced'[i][r] = sessionData'[r]
           /\ \A k \in Half, s \in Sector : k # i \/ s # r => Spliced'[k][s] = Spliced[k][s]
    BY <1>4, DataSpliced
  <2>3. ASSUME NEW k \in Slots(f), NEW s \in Sector
        PROVE  /\ SeenOf(f)[<<k, s>>] = Spliced[k][s] /\ SeenOf(f)'[<<k, s>>] = Spliced'[k][s]
               /\ k \in Half
    BY <1>1, <1>4, SlotPlace, SeenAt, SeenAtNext
  <2>4. ASSUME NEW k \in Slots(f), NEW s \in Sector, k # i \/ s # r
        PROVE  SeenOf(f)'[<<k, s>>] = SeenOf(f)[<<k, s>>]
    BY <2>2, <2>3, <2>4
  <2>5. i = Slot(f, halfTrack')
    BY <1>1, <1>4, <2>1 DEF SessionUnderArm, Slot
  <2>6. ASSUME SeenOf(f)' # SeenOf(f)
        PROVE  SeenOf(f)' = [SeenOf(f) EXCEPT ![<<Slot(f, halfTrack'), r>>] = sessionData'[r]]
    <3>. HIDE DEF i
    <3>1. /\ i \in Slots(f) /\ SeenOf(f)'[<<i, r>>] # SeenOf(f)[<<i, r>>]
          /\ SeenOf(f)' = [SeenOf(f) EXCEPT ![<<i, r>>] = SeenOf(f)'[<<i, r>>]]
      BY <2>4, <2>6, OneSector
    <3>2. SeenOf(f)'[<<i, r>>] = sessionData'[r]
      BY <2>2, <2>3, <3>1
    <3>. QED
      BY <2>5, <3>1, <3>2
  <2>7. ~sel35'
    BY <1>1, <2>1 DEF HeadSelected
  <2>8. SeenOf(f)' # SeenOf(f) => GuestWrote(f)
    BY <1>1, <1>4, <2>1, <2>6, <2>7 DEF GuestWrote
  <2>9. ~Images[f].protected
    BY <1>4, <2>1 DEF isWriteProtected
  <2>. QED
    BY <1>4, <2>8, <2>9 DEF Entitled
<1>. QED
  BY <1>2, <1>3, <1>4

\* The drive closes the session, saves or not, and keeps its image.
LEMMA KeptOwner ==
    ASSUME NEW f \in Image, path525' = path525, surface' = Spliced, SessionClosed,
           \A g \in Image : g # path525 => files'[g] = files[g]
    PROVE  Entitled(f)
<1>1. Spliced' = Spliced
  BY DEF Spliced, SessionClosed
<1>2. SeenOf(f)' = SeenOf(f)
  BY <1>1, InsideSame, OutsideSame
<1>. QED
  BY <1>2 DEF Entitled

\* A flush touches the file of the mounted image only.
LEMMA FlushOthers ==
    ASSUME HostOK, MediaOK, FlushDisk525, NEW g \in Image, g # path525
    PROVE  files'[g] = files[g]
BY FlushEnds

\* The image leaves the drive, or is loaded again: it is seen as the flush
\* left its file.
LEMMA LeftOwner ==
    ASSUME NEW f \in Image, f = path525, HostOK, MediaOK, SessionOK, SessionWritten, WrapKept,
           MediumKept, Straight(f), FlushDisk525, SessionClosed,
           \A h \in Slots(f), s \in Sector :
              SeenOf(f)'[<<h, s>>] = OnFile(f, files'[f])[<<h, s>>]
    PROVE  Entitled(f)
<1>1. path525 # None /\ ~wr525Active'
  BY Disk525Assumption DEF SessionClosed
<1>2. CASE LeftLost(f)
  <2>1. ~isWriteProtected
    BY <1>1, <1>2, FlushKept DEF LeftLost, MediumKept
  <2>. QED
    BY <1>1, <1>2, <2>1 DEF Entitled, isWriteProtected
<1>3. CASE ~LeftLost(f)
  <2>1. Agrees(Spliced, {}, files'[f])
    BY <1>1, <1>3, FlushKept DEF LeftLost
  <2>2. ASSUME NEW h \in Slots(f), NEW s \in Sector,
               SeenOf(f)[<<h, s>>] # SeenOf(f)'[<<h, s>>]
        PROVE  SeenOf(f)[<<h, s>>] = Bad /\ ~isWriteProtected /\ Images[f].kind = "sector"
    <3>1. SeenOf(f)[<<h, s>>] = Spliced[h][s]
      BY SeenAt
    <3>. QED
      BY <2>1, <2>2, <3>1 DEF Agrees
  <2>3. ASSUME NEW p \in DOMAIN SeenOf(f), SeenOf(f)[p] # SeenOf(f)'[p]
        PROVE  SeenOf(f)[p] = Bad
    <3>1. p \in Slots(f) \X Sector
      BY SeenDomain
    <3>2. p = <<p[1], p[2]>> /\ p[1] \in Slots(f) /\ p[2] \in Sector
      BY <3>1
    <3>. QED
      BY <2>2, <2>3, <3>2
  <2>4. SeenOf(f)' # SeenOf(f) => ~isWriteProtected /\ Images[f].kind = "sector"
    BY <2>2, SeenSame
  <2>. QED
    BY <1>1, <2>3, <2>4 DEF Entitled, LeftWhole, isWriteProtected
<1>. QED
  BY <1>2, <1>3

\* What leaves the drive is its file from then on.
LEMMA EmptiedOwner ==
    ASSUME NEW f \in Image, HostOK, MediaOK, SessionOK, SessionWritten, WrapKept, MediumKept,
           Straight(f), FlushDisk525, Emptied
    PROVE  Entitled(f)
<1>1. path525' = None /\ SessionClosed /\ f # None
  BY Disk525Assumption DEF Emptied
<1>2. CASE f = path525
  <2>1. ASSUME NEW h \in Slots(f), NEW s \in Sector
        PROVE  SeenOf(f)'[<<h, s>>] = OnFile(f, files'[f])[<<h, s>>]
    BY <1>1, SeenAtNext
  <2>. QED
    BY <1>1, <1>2, <2>1, LeftOwner
<1>3. CASE f # path525
  <2>1. SeenOf(f)' = SeenOf(f)
    BY <1>1, <1>3, FlushOthers, OutsideSame
  <2>. QED
    BY <2>1 DEF Entitled
<1>. QED
  BY <1>2, <1>3

LEMMA NextOwner ==
    ASSUME \A f \in Image : Straight(f), MediumInv, MediumInv', [DriveNext]_driveVars
    PROVE  [OwnerStep]_driveVars
<1>1. /\ HostOK /\ MediaOK /\ LinesOK /\ SessionOK /\ SessionWritten /\ WrapKept /\ MediumKept
      /\ HostOK' /\ MediaOK' /\ SessionOK' /\ SessionUnderArm'
  BY TypeParts DEF MediumInv, DriveTypeOK, HostOK, MediaOK, SessionOK
<1>2. CASE UNCHANGED driveVars
  BY <1>2
<1>3. CASE UNCHANGED <<hostFiles, media, open>>
  BY <1>3 DEF OwnerStep
<1>. SUFFICES ASSUME DriveNext, ~UNCHANGED <<hostFiles, media, open>>, NEW f \in shelf
              PROVE  Entitled(f)
  BY <1>2 DEF OwnerStep, Entitled
<1>4. f \in Image /\ shelf \subseteq Image
  BY <1>1, Disk525Assumption DEF HostOK
<1> DEFINE Guest(op) == op = None \/ op \in Sector \X (Good \cup {Bad})
<1>a. ASSUME NEW offset, NEW op \in Ops(offset) PROVE Guest(op)
  BY <1>1, <1>a, OpsType
<1>b. ASSUME NEW op, Guest(op), NEW closed \in BOOLEAN,
             DataPart(op, closed, halfTrack', enable', drive', phases', q6', q7')
      PROVE  Entitled(f)
  BY <1>1, <1>4, <1>b, DataOwner
<1>. HIDE DEF Guest
<1>5. ASSUME NEW magnet \in 0 .. 3, NEW on \in BOOLEAN, NEW op, Guest(op), Phase(magnet, on, op)
      PROVE  Entitled(f)
  <2>1. DataPart(op, on /\ ~sel35, halfTrack', enable', drive', phases', q6', q7')
    BY <1>5 DEF Phase
  <2>2. (on /\ ~sel35) \in BOOLEAN
    OBVIOUS
  <2>. QED
    BY <1>5, <1>b, <2>1, <2>2
<1>6. ASSUME NEW op, Guest(op), EnableOn(op) PROVE Entitled(f)
  <2>1. DataPart(op, FALSE, halfTrack', enable', drive', phases', q6', q7')
    BY <1>6 DEF EnableOn
  <2>. QED
    BY <1>6, <1>b, <2>1
<1>7. ASSUME NEW d, NEW op, Guest(op), SelectDrive(d, op) PROVE Entitled(f)
  <2>1. DataPart(op, FALSE, halfTrack', enable', drive', phases', q6', q7')
    BY <1>7 DEF SelectDrive
  <2>. QED
    BY <1>7, <1>b, <2>1
<1>8. ASSUME NEW on, NEW op, Guest(op), Q6Line(on, op) PROVE Entitled(f)
  <2>1. DataPart(op, FALSE, halfTrack', enable', drive', phases', q6', q7')
    BY <1>8 DEF Q6Line
  <2>. QED
    BY <1>8, <1>b, <2>1
<1>9. ASSUME NEW on, NEW op, Guest(op), Q7Line(on, op) PROVE Entitled(f)
  <2>1. DataPart(op, ~on /\ q7 /\ ~sel35, halfTrack', enable', drive', phases', q6', q7')
    BY <1>9 DEF Q7Line
  <2>2. (~on /\ q7 /\ ~sel35) \in BOOLEAN
    OBVIOUS
  <2>. QED
    BY <1>9, <1>b, <2>1, <2>2
<1>10. CASE EnableOff
  <2>1. ~sel35
    BY <1>10 DEF EnableOff, media
  <2>2. FlushDisk525 /\ path525' = path525 /\ surface' = Spliced /\ SessionClosed
    BY <1>10, <2>1 DEF EnableOff
  <2>. QED
    BY <1>1, <1>4, <2>2, FlushOthers, KeptOwner
<1>11. CASE Exit \/ EjectDisk525
  BY <1>1, <1>4, <1>11, EmptiedOwner DEF Exit, EjectDisk525
<1>12. CASE Reset
  BY <1>1, <1>4, <1>12, KeptOwner DEF Reset, hostFiles
<1>13. ASSUME NEW g \in shelf, LoadDisk525(g) PROVE Entitled(f)
  <2>1. /\ FlushDisk525 /\ Mounted(g) /\ path525' = g /\ surface' = Loaded(g)
        /\ SessionClosed /\ g \in Image
    BY <1>4, <1>13 DEF LoadDisk525, Mounted
  <2>2. Spliced' = Loaded(g)
    BY <2>1 DEF Spliced, SessionClosed
  <2>3. ASSUME NEW h \in Slots(f), NEW s \in Sector
        PROVE  SeenOf(f)'[<<h, s>>] = OnFile(f, files'[f])[<<h, s>>]
    <3>1. f = g => Loaded(g)[h][s] = OnFile(f, files'[f])[<<h, s>>]
      BY <1>4, <2>1, LoadedMedium
    <3>. QED
      BY <2>1, <2>2, <3>1, SeenAtNext
  <2>4. CASE f = path525
    BY <1>1, <1>4, <2>1, <2>3, <2>4, LeftOwner
  <2>5. CASE f # path525
    <3>1. files'[f] = files[f]
      BY <1>1, <1>4, <2>1, <2>5, FlushOthers
    <3>2. ASSUME NEW h \in Slots(f), NEW s \in Sector
          PROVE  SeenOf(f)'[<<h, s>>] = SeenOf(f)[<<h, s>>]
      BY <2>3, <2>5, <3>1, SeenAt
    <3>3. SeenOf(f)' = SeenOf(f)
      BY <3>2, SeenSame
    <3>. QED
      BY <3>3 DEF Entitled
  <2>. QED
    BY <2>4, <2>5
<1>15. ASSUME NEW magnet \in 0 .. 3, NEW op \in Ops(2 * magnet), Phase(magnet, FALSE, op)
       PROVE  Entitled(f)
  BY <1>a, <1>5, <1>15
<1>16. ASSUME NEW magnet \in 0 .. 3, NEW op \in Ops(2 * magnet + 1), Phase(magnet, TRUE, op)
       PROVE  Entitled(f)
  BY <1>a, <1>5, <1>16
<1>17. ASSUME NEW d \in {0, 1}, NEW op \in Ops(10 + d), SelectDrive(d, op) PROVE Entitled(f)
  BY <1>a, <1>7, <1>17
<1>18. ASSUME NEW op \in Ops(9), EnableOn(op) PROVE Entitled(f)
  BY <1>a, <1>6, <1>18
<1>19. ASSUME NEW op \in Ops(12), Q6Line(FALSE, op) PROVE Entitled(f)
  BY <1>a, <1>8, <1>19
<1>20. ASSUME NEW op \in Ops(13), Q6Line(TRUE, op) PROVE Entitled(f)
  BY <1>a, <1>8, <1>20
<1>21. ASSUME NEW op \in Ops(14), Q7Line(FALSE, op) PROVE Entitled(f)
  BY <1>a, <1>9, <1>21
<1>22. ASSUME NEW op \in Ops(15), Q7Line(TRUE, op) PROVE Entitled(f)
  BY <1>a, <1>9, <1>22
<1>23. ~ \E on \in BOOLEAN : SetDiskReg(on)
  BY DEF SetDiskReg
<1>. QED
  BY <1>10, <1>11, <1>12, <1>13, <1>15, <1>16, <1>17, <1>18, <1>19, <1>20, <1>21,
     <1>22, <1>23 DEF DriveNext

\* When every image has one place for each position, swaps, flushes, failed
\* saves, resets and arm steps change no image but the one in the drive, and
\* that one only by what the guest writes under the arm, by the sectors it left
\* undecodable and by a save the host failed; a protected one stays as it is.
THEOREM OwnerKeepsContentsTheorem ==
    ASSUME \A f \in Image : Straight(f)
    PROVE  DriveSpec => OwnerKeepsContents
<1>1. MediumInv /\ [DriveNext]_driveVars => MediumInv'
  BY NextMedium
<1>2. MediumInv /\ MediumInv' /\ [DriveNext]_driveVars => [OwnerStep]_driveVars
  BY NextOwner
<1>. QED
  BY <1>1, <1>2, InitMedium, PTL DEF DriveSpec, OwnerKeepsContents

=============================================================================

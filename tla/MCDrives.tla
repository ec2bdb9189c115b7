------------------------------ MODULE MCDrives ------------------------------
(* The media for TLC, one behaviour of it at a time: `part` says which, the *)
(* others stay as they start, those instantiated here at 0.  "store" is    *)
(* Sony35 as it stands: two raw images written back, mounted writable or   *)
(* read-only.  "sealed" is a drive of its own with a raw and a WOZ image, an *)
(* image reinserted over itself, and write-back off.                       *)
EXTENDS MCSony35, MCDisk525

VARIABLES
    part,
    sealedStore, sealedFmt, sealedPath, sealedWozBacked, sealedWriteProt,   \* Sealed
    sealedMotorOn, sealedCyl, sealedTrk, sealedImg, sealedWozBits, sealedTrkDirty,
    sealedWrActive, sealedWrTrk, sealedWrVal,
    format, file, track, nibbles, told, hit,                            \* Gcr
    kind, cyc, cells, bitPos, startBit, cellSession, splices            \* CellSplice

sealedVars ==
    <<sealedStore, sealedFmt, sealedPath, sealedWozBacked, sealedWriteProt, sealedMotorOn,
      sealedCyl, sealedTrk, sealedImg, sealedWozBits, sealedTrkDirty, sealedWrActive,
      sealedWrTrk, sealedWrVal>>
gcrVars == <<format, file, track, nibbles, told, hit>>
spliceVars == <<kind, cyc, cells, bitPos, startBit, cellSession, splices>>
drivesVars == <<part, vars, sealedVars, driveVars, gcrVars, spliceVars>>

-----------------------------------------------------------------------------
(* The instances.                                                          *)

Sealed == INSTANCE Sony35 WITH
    Disks <- RawAndWoz, WriteBack <- FALSE, Mounts <- Writable, Remount <- TRUE,
    store <- sealedStore, fmt <- sealedFmt, path <- sealedPath,
    wozBacked <- sealedWozBacked, writeProt <- sealedWriteProt, motorOn <- sealedMotorOn,
    cyl <- sealedCyl, trk <- sealedTrk, img <- sealedImg, wozBits <- sealedWozBits,
    trkDirty <- sealedTrkDirty, wrActive <- sealedWrActive, wrTrk <- sealedWrTrk,
    wrVal <- sealedWrVal

G == INSTANCE Gcr WITH
    Third <- 3, Fifth <- 1, Tracks <- {17}, Payloads <- <<73, 200>>,
    Damages <- {150}, DamagedFields <- {"data"}, GuestSectors <- {5}

\* Nibbles of four cells, sync gaps of two: tracks whose gap wraps the index,
\* and whose gap is at its start.
S == INSTANCE CellSplice WITH
    ByteBits <- 4, SyncMinRun <- 2, CellTimes <- {8},
    NibbleTracks <- {<<15, 9, 13, 15>>, <<15, 15, 10, 9>>},
    Written <- {9, 15}, MaxSession <- 3, MaxSplices <- 1,
    surface <- cells, session <- cellSession

-----------------------------------------------------------------------------
SealedIdle ==
    /\ sealedStore = 0 /\ sealedFmt = 0 /\ sealedPath = 0 /\ sealedWozBacked = 0
    /\ sealedWriteProt = 0 /\ sealedMotorOn = 0 /\ sealedCyl = 0 /\ sealedTrk = 0
    /\ sealedImg = 0 /\ sealedWozBits = 0 /\ sealedTrkDirty = 0 /\ sealedWrActive = 0
    /\ sealedWrTrk = 0 /\ sealedWrVal = 0
GcrIdle == format = 0 /\ file = 0 /\ track = 0 /\ nibbles = 0 /\ told = 0 /\ hit = 0
SpliceIdle ==
    /\ kind = 0 /\ cyc = 0 /\ cells = 0 /\ bitPos = 0 /\ startBit = 0 /\ cellSession = 0
    /\ splices = 0

DrivesInit ==
    /\ part \in {"store", "sealed", "drive525", "track", "cells"}
    /\ Init
    /\ IF part = "sealed" THEN Sealed!Init ELSE SealedIdle
    /\ DriveInit /\ (part # "drive525" => shelf = {"dos"})
    /\ IF part = "track" THEN G!GcrInit ELSE GcrIdle
    /\ IF part = "cells" THEN S!SpliceInit ELSE SpliceIdle

DrivesNext ==
    /\ UNCHANGED part
    /\ \/ /\ part = "store" /\ Next
          /\ UNCHANGED <<sealedVars, driveVars, gcrVars, spliceVars>>
       \/ /\ part = "sealed" /\ Sealed!Next
          /\ UNCHANGED <<vars, driveVars, gcrVars, spliceVars>>
       \/ /\ part = "drive525" /\ DriveNext
          /\ UNCHANGED <<vars, sealedVars, gcrVars, spliceVars>>
       \/ /\ part = "track" /\ G!GcrNext
          /\ UNCHANGED <<vars, sealedVars, driveVars, spliceVars>>
       \/ /\ part = "cells" /\ S!SpliceNext
          /\ UNCHANGED <<vars, sealedVars, driveVars, gcrVars>>

DrivesSpec == DrivesInit /\ [][DrivesNext]_drivesVars

-----------------------------------------------------------------------------
(* The properties of the parts; a part that is not the behaviour's has     *)
(* nothing to say.                                                         *)

\* Sony35: with write-back off no host file is touched.
SealedUntouched == Sealed!HostUntouched

\* Gcr: a save gives every sector back as written, one with a damaged data field
\* right or old.
SectorsSurvive == part = "track" => G!SectorsSurvive

\* CellSplice: a closed write session lands cell for cell where the head was.
SessionLands == [][part = "cells" => S!LandStep]_<<part, spliceVars>>
=============================================================================

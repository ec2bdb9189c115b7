----------------------------- MODULE CellSplice -----------------------------
(***************************************************************************)
(* Bit cells under the 5.25" head: a nibble track expanded to cells, with  *)
(* two zero cells after each sync nibble, or the cells of a WOZ track; the *)
(* head reading bytes out of them; and a write session turned into flux    *)
(* times (Iwm.cpp) and spliced back into cells or nibbles (DiskImage.cpp). *)
(* The elastic pacing of reads, which only repeats bytes, is left out.     *)
(***************************************************************************)
EXTENDS Integers, Sequences, FiniteSets, SequencesExt

CONSTANTS
    ByteBits,   \* data cells of a disk byte (8)
    SyncMinRun, \* $FFs in a row that make a sync gap (kSyncMinRun, 5)
    CellTimes,  \* LSS cycles per cell of the WOZ images (lssCyclesPerCell())
    NibbleTracks,   \* bound: tracks, as sequences of bytes
    Written,    \* bound: bytes the guest writes
    MaxSession, \* bound: bytes in a session
    MaxSplices  \* bound: sessions

VARIABLES
    kind,       \* "woz", "nib" or "sector": what backs the track
    cyc,        \* LSS cycles per cell of this image
    surface,    \* bitStream[qt] of a WOZ, tracks[t] of the others
    bitPos,     \* bitPos525_, the head's cell
    startBit, session,  \* wr525StartBit_, wr525_
    splices     \* sessions closed so far, counted for the bound

spliceVars == <<kind, cyc, surface, bitPos, startBit, session, splices>>

kLssPerCell == 8
SyncPad == <<0, 0>>
Sync == 2 ^ ByteBits - 1
Bits(v) == [k \in 1 .. ByteBits |-> (v \div (2 ^ (ByteBits - k))) % 2]

-----------------------------------------------------------------------------
\* Byte i of sq belongs to a run of SyncMinRun $FFs.
InSyncRun(sq, i) ==
    \E a \in 1 .. Len(sq) - SyncMinRun + 1 :
      /\ i \in a .. a + SyncMinRun - 1
      /\ \A k \in a .. a + SyncMinRun - 1 : sq[k] = Sync

\* computeCellWidths(): runs wrap the index; a .nib has no sync semantics.
SyncOnTrack(nb) ==
    IF kind = "nib" THEN {}
    ELSE {i \in DOMAIN nb : InSyncRun(nb \o nb \o nb, i + Len(nb))}

\* endWrite525()'s rule over the session alone.
SyncInSession(bytes) == {i \in DOMAIN bytes : InSyncRun(bytes, i)}

Expanded(bytes, sync) ==
    FlattenSeq([i \in DOMAIN bytes |->
                  IF i \in sync THEN Bits(bytes[i]) \o SyncPad ELSE Bits(bytes[i])])

\* expandTrackBits(): the cells of the track.
Cells(srf) == IF kind = "woz" THEN srf ELSE Expanded(srf, SyncOnTrack(srf))

\* Mutant of CellStart: cells packed eight to a nibble whatever the sync gaps.
CellStartNaive(nb, i) == ByteBits * (i - 1)

\* The timeline's cell where nibble i starts, from 0.
CellStart(nb, i) ==
    ByteBits * (i - 1) + Len(SyncPad) * Cardinality({j \in SyncOnTrack(nb) : j < i})

\* writeFlux(): the window [from, to) of LSS cycles is replaced by `flux`; a
\* window across the index is split there.  A cell partly covered may only
\* gain a transition.
RECURSIVE WriteFlux(_, _, _, _)
WriteFlux(srf, from, to, flux) ==
    LET period == Len(Cells(srf)) * cyc
        start == from % period
        end == start + (to - from)
        origin == from - start
        split == origin + period
        firstCell == start \div cyc
        lastCell == (end + cyc - 1) \div cyc
        Lit(c) == \E t \in flux : ((t - origin) % period) \div cyc = c
        Partial(c) == \/ c = firstCell /\ start % cyc # 0
                      \/ c = lastCell - 1 /\ end % cyc # 0
        Merged(c, old) ==
            IF c \notin firstCell .. lastCell - 1 \/ (Partial(c) /\ ~Lit(c)) THEN old
            ELSE IF Lit(c) THEN 1 ELSE 0
        MergedByte(i) ==
            LET bit == [k \in 1 .. ByteBits |-> Merged(CellStart(srf, i) + k - 1, Bits(srf[i])[k])]
                value[k \in 0 .. ByteBits] == IF k = 0 THEN 0 ELSE 2 * value[k - 1] + bit[k]
            IN  value[ByteBits]
    IN  IF to <= from THEN srf
        ELSE IF end > period
        THEN WriteFlux(WriteFlux(srf, from, split, {t \in flux : t < split}),
                       split, to, {t \in flux : t >= split})
        ELSE [i \in DOMAIN srf |-> IF kind = "woz" THEN Merged(i - 1, srf[i]) ELSE MergedByte(i)]

\* The session's cells, and endWrite525(): one transition in the middle of
\* each 1 cell, at eight cycles per cell whatever the image's timing.
SessionCells == Expanded(session, SyncInSession(session))
EndWrite525 ==
    LET start == startBit * kLssPerCell
        ones == {i \in DOMAIN SessionCells : SessionCells[i] = 1}
    IN  WriteFlux(surface, start, start + Len(SessionCells) * kLssPerCell,
                  {start + (i - 1) * kLssPerCell + kLssPerCell \div 2 : i \in ones})

\* readNibble525()'s shifter from cell pos on: leading zero cells are skipped
\* up to the guard, past which the head hears noise.
Noise == -1
ReadAt(cells, pos) ==
    LET n == Len(cells)
        At(k) == cells[((pos + k) % n) + 1]
        guard == 10 * ByteBits
        ones == {k \in 0 .. guard - ByteBits : At(k) = 1 /\ \A j \in 0 .. k - 1 : At(j) = 0}
    IN  IF ones = {} THEN [byte |-> Noise, pos |-> (pos + guard) % n]
        ELSE LET k == CHOOSE k \in ones : TRUE
                 value[j \in 0 .. ByteBits] ==
                     IF j = 0 THEN 0 ELSE 2 * value[j - 1] + At(k + j - 1)
             IN  [byte |-> value[ByteBits], pos |-> (pos + k + ByteBits) % n]

-----------------------------------------------------------------------------
SpliceInit ==
    /\ kind \in {"woz", "nib", "sector"}
    /\ cyc \in (IF kind = "woz" THEN CellTimes ELSE {kLssPerCell})
    /\ \E nb \in NibbleTracks :
         surface = IF kind = "woz" THEN Expanded(nb, SyncInSession(nb)) ELSE nb
    /\ bitPos \in 0 .. Len(Cells(surface)) - 1
    /\ startBit = 0 /\ session = <<>> /\ splices = 0

\* writeNibble525(): the head moves eight cells on, sync or not.
WriteNibble(v) ==
    /\ Len(session) < MaxSession /\ splices < MaxSplices
    /\ startBit' = IF session = <<>> THEN bitPos ELSE startBit
    /\ session' = Append(session, v)
    /\ bitPos' = (bitPos + ByteBits) % Len(Cells(surface))
    /\ UNCHANGED <<kind, cyc, surface, splices>>

\* Q7 falls, or ENABLE, or the arm moves.
EndWrite ==
    /\ session # <<>>
    /\ surface' = EndWrite525
    /\ session' = <<>> /\ splices' = splices + 1
    /\ UNCHANGED <<kind, cyc, startBit, bitPos>>

\* A data read closes the session, then shifts in a byte.
ReadNibble ==
    /\ surface' = IF session = <<>> THEN surface ELSE EndWrite525
    /\ session' = <<>>
    /\ splices' = IF session = <<>> THEN splices ELSE splices + 1
    /\ bitPos' = ReadAt(Cells(surface'), bitPos).pos
    /\ UNCHANGED <<kind, cyc, startBit>>

SpliceNext == (\E v \in Written : WriteNibble(v)) \/ EndWrite \/ ReadNibble
SpliceSpec == SpliceInit /\ [][SpliceNext]_spliceVars

-----------------------------------------------------------------------------
\* The bytes read from cell pos on.
Heard(cells, pos, n) ==
    LET at[k \in 0 .. n] == IF k = 0 THEN [byte |-> 0, pos |-> pos] ELSE ReadAt(cells, at[k - 1].pos)
    IN  [k \in 1 .. n |-> at[k].byte]

\* The track's cells with the session's laid over them, the last lap on top.
Overlay ==
    LET old == Cells(surface)
        over(i) == {k \in DOMAIN SessionCells : (startBit + k - 1) % Len(old) = i - 1}
    IN  [i \in DOMAIN old |->
           IF over(i) = {} THEN old[i]
           ELSE SessionCells[CHOOSE k \in over(i) : \A j \in over(i) : j <= k]]

\* Cells a nibble track has no room for: the padding after a sync.
PadCells ==
    IF kind = "woz" THEN {}
    ELSE {CellStart(surface, i) + ByteBits + k : i \in SyncOnTrack(surface), k \in {1, 2}}

SyncLayout(srf) == IF kind = "woz" THEN {} ELSE SyncOnTrack(srf)

\* A closed session is on the track where the head was, cell for cell, across
\* the index too, and nowhere else, unless it moves the sync gaps of a nibble
\* track; and reading from its first cell gives the guest's bytes back.
\* endWrite525() and expandTrackBits() must share the sync rule for it.
LandStep ==
    session # <<>> /\ session' = <<>> =>
      LET n == Len(Cells(surface))
          fits == startBit + Len(SessionCells) <= n
          new == Cells(surface')
      IN  /\ SyncLayout(surface') = SyncLayout(surface) /\ (fits \/ kind # "sector") =>
               /\ \A i \in DOMAIN new \ PadCells : new[i] = Overlay[i]
               /\ new = Overlay /\ Len(SessionCells) <= n =>
                    Heard(new, startBit, Len(session)) = session
          /\ kind # "woz" /\ fits =>
               \A i \in DOMAIN surface :
                 CellStart(surface, i) + ByteBits <= startBit
                   \/ CellStart(surface, i) >= startBit + Len(SessionCells)
                 => surface'[i] = surface[i]
SessionLands == [][LandStep]_spliceVars

=============================================================================

-------------------------------- MODULE Gcr --------------------------------
(***************************************************************************)
(* Group code recording of DiskImage.cpp: sectors nibblized onto a track   *)
(* (6-and-2, and 5-and-3 for 13-sector disks), found again by the decoder  *)
(* saveDirty() uses, and the sector skews of DOS and ProDOS images.        *)
(*                                                                         *)
(* The state is one track of an image: the file's sectors, the nibbles on  *)
(* the surface, which the guest rewrites sector by sector and damages one  *)
(* nibble at a time, and the file again after a save.  Sectors are 3*Third *)
(* - 2 bytes long, or 5*Fifth + 1 (256 = 3*86 - 2 = 5*51 + 1).             *)
(***************************************************************************)
EXTENDS Integers, Sequences, SequencesExt, Bitwise

CONSTANTS
    Third,          \* nibbles of a 6-and-2 field that pack low bits (86)
    Fifth,          \* groups of a 5-and-3 field (51)
    Tracks,         \* bound: track numbers nibblized
    Payloads,       \* bound: fillers, giving byte i of a sector from i
    Damages,        \* bound: nibbles a fault leaves in place of another
    DamagedFields,  \* bound: fields faults hit, of "address" and "data"
    GuestSectors    \* bound: sectors the guest rewrites, and that faults hit

VARIABLES
    format,     \* "dos", "prodos" or "dos13": sectorOrder, sectorsPerTrack_
    file,       \* the image's sectors of the track, by file position
    track,      \* the track's number
    nibbles,    \* tracks[track]
    told,       \* what the guest last wrote, by address-field sector number
    hit         \* sectors whose fields a fault damaged

gcrVars == <<format, file, track, nibbles, told, hit>>

-----------------------------------------------------------------------------
kGcrTable ==
    <<150, 151, 154, 155, 157, 158, 159, 166, 167, 171, 172, 173, 174, 175, 178, 179,
      180, 181, 182, 183, 185, 186, 187, 188, 189, 190, 191, 203, 205, 206, 207, 211,
      214, 215, 217, 218, 219, 220, 221, 222, 223, 229, 230, 231, 233, 234, 235, 236,
      237, 238, 239, 242, 243, 244, 245, 246, 247, 249, 250, 251, 252, 253, 254, 255>>

kTranslate5 ==
    <<171, 173, 174, 175, 181, 182, 183, 186, 187, 189, 190, 191, 214, 215, 218, 219,
      221, 222, 223, 234, 235, 237, 238, 239, 245, 246, 247, 250, 251, 253, 254, 255>>

\* Disk bytes to values; a byte outside the table is invalid.
Invalid == 255
Inverse256(table) ==
    [b \in 0 .. 255 |-> LET At == {i \in DOMAIN table : table[i] = b}
                        IN  IF At = {} THEN Invalid ELSE (CHOOSE i \in At : TRUE) - 1]
kGcrInverse == Inverse256(kGcrTable)
kUntranslate5 == Inverse256(kTranslate5)

kDos33LogicalForPhysical ==
    <<0, 7, 14, 6, 13, 5, 12, 4, 11, 3, 10, 2, 9, 1, 8, 15>>
kProDosLogicalForPhysical ==
    <<0, 8, 1, 9, 2, 10, 3, 11, 4, 12, 5, 13, 6, 14, 7, 15>>

SectorCount(fm) == IF fm = "dos13" THEN 13 ELSE 16
SectorsOf(fm) == 0 .. SectorCount(fm) - 1
Bytes(fm) == IF fm = "dos13" THEN 5 * Fifth + 1 ELSE 3 * Third - 2

\* The file position of the sector an address field calls s.
FilePosition(fm, s) ==
    CASE fm = "dos" -> kDos33LogicalForPhysical[s + 1]
      [] fm = "prodos" -> kProDosLogicalForPhysical[s + 1]
      [] fm = "dos13" -> s

\* The sector number of the i-th sector around the track.
Interleaved(fm, i) == IF fm = "dos13" THEN (i * 10) % 13 ELSE i

-----------------------------------------------------------------------------
(* Encoding.                                                               *)

volume == 254
write4and4(b) == <<((b \div 2) & 85) | 170, (b & 85) | 170>>
decode4and4(p, q) == ((p * 2) & 170) | (q & 85)
rev2(b) == 2 * (b % 2) + b \div 2

AddressMark(fm) == <<213, 170, IF fm = "dos13" THEN 181 ELSE 150>>
DataMark == <<213, 170, 173>>
Epilogue == <<222, 170, 235>>
Gap(n) == [i \in 1 .. n |-> 255]

writeAddressField(fm, tr, s) ==
    AddressMark(fm) \o write4and4(volume) \o write4and4(tr) \o write4and4(s)
        \o write4and4((volume ^^ tr) ^^ s) \o Epilogue

\* Each value is recorded XORed with the one before, the last one alone.
Chained(values, table) ==
    [n \in 1 .. Len(values) + 1 |->
       table[((IF n = 1 THEN 0 ELSE values[n - 1])
              ^^ (IF n > Len(values) THEN 0 ELSE values[n])) + 1]]

\* The low bit pairs of bytes i, i + Third and i + 2*Third, each swapped.
LowPairs(src, i) ==
    rev2(src[i] % 4)
      + (IF i + Third <= Len(src) THEN 4 * rev2(src[i + Third] % 4) ELSE 0)
      + (IF i + 2 * Third <= Len(src) THEN 16 * rev2(src[i + 2 * Third] % 4) ELSE 0)

\* 6-and-2: low pairs first, then the high six bits.
writeDataField(src) ==
    DataMark
      \o Chained([n \in 1 .. Third + Len(src) |->
                    IF n <= Third THEN LowPairs(src, n) ELSE src[n - Third] \div 4],
                 kGcrTable)
      \o Epilogue

\* Byte k of group j, both from 0.
Group(src, j, k) == src[5 * j + k + 1]
BitOf(b, n) == (b \div (2 ^ n)) % 2

\* 5-and-3: the last byte's low bits, three passes of low triples, five of
\* high bits from the last group down, the last byte's high bits.
writeDataField13(src) ==
    LET Low(k, j) == 4 * (Group(src, j, k) % 8) + 2 * BitOf(Group(src, j, 3), 2 - k)
                       + BitOf(Group(src, j, 4), 2 - k)
        last == src[Len(src)]
        values == [n \in 1 .. 8 * Fifth + 2 |->
                     IF n = 1 THEN last % 8
                     ELSE IF n <= 3 * Fifth + 1
                          THEN Low(2 - (n - 2) \div Fifth, (n - 2) % Fifth)
                     ELSE IF n <= 8 * Fifth + 1
                          THEN LET m == n - 3 * Fifth - 2
                               IN  Group(src, Fifth - 1 - (m % Fifth), m \div Fifth) \div 8
                     ELSE last \div 8]
    IN  DataMark \o Chained(values, kTranslate5) \o Epilogue

DataField(fm, src) == IF fm = "dos13" THEN writeDataField13(src) ELSE writeDataField(src)

\* nibblizeTrack(), nibblizeTrack13(): gap, address, gap, data for each sector;
\* what is left of the track stays sync.
Nibblized(fm, tr, sectors) ==
    FlattenSeq([i \in 1 .. SectorCount(fm) |->
        LET s == Interleaved(fm, i - 1)
        IN  Gap(14) \o writeAddressField(fm, tr, s) \o Gap(5)
              \o DataField(fm, sectors[FilePosition(fm, s)])]) \o Gap(20)

-----------------------------------------------------------------------------
(* Decoding.                                                               *)

\* The track read from position i on, wrapping at its end.
At(nb, i) == nb[((i - 1) % Len(nb)) + 1]
Matches(nb, i, mark) == \A k \in 1 .. 3 : At(nb, i + k - 1) = mark[k]

\* Mutant of Unchained: the checksum nibble is not compared.
UnchainedTrusting(nb, d, count, inv) ==
    LET cur[n \in 0 .. count] ==
            IF n = 0 THEN 0 ELSE cur[n - 1] ^^ inv[At(nb, d + n - 1)]
        raw == {inv[At(nb, d + n - 1)] : n \in 1 .. count}
    IN  IF Invalid \in raw THEN <<>> ELSE [n \in 1 .. count |-> cur[n]]

\* The `count` values chained at d, or <<>>: an invalid nibble or a checksum
\* that does not cancel.
Unchained(nb, d, count, inv) ==
    LET cur[n \in 0 .. count] ==
            IF n = 0 THEN 0 ELSE cur[n - 1] ^^ inv[At(nb, d + n - 1)]
        raw == {inv[At(nb, d + n - 1)] : n \in 1 .. count + 1}
    IN  IF Invalid \in raw \/ inv[At(nb, d + count)] # cur[count] THEN <<>>
        ELSE [n \in 1 .. count |-> cur[n]]

\* decodeTrack()'s recombination of one data field at d, <<>> when it is bad.
Decoded62(nb, d) ==
    LET v == Unchained(nb, d, Third + Bytes("dos"), kGcrInverse)
    IN  IF v = <<>> THEN <<>>
        ELSE [b \in 1 .. Bytes("dos") |->
                LET pack == v[((b - 1) % Third) + 1]
                IN  4 * v[Third + b] + rev2((pack \div (4 ^ ((b - 1) \div Third))) % 4)]

Decoded53(nb, d) ==
    LET nv == Unchained(nb, d, 8 * Fifth + 2, kUntranslate5)
        Tri(k, j) == nv[2 + (2 - k) * Fifth + j]
        Hi(k, j) == nv[3 * Fifth + 2 + k * Fifth + (Fifth - 1 - j)]
        Byte(j, k) ==
            8 * Hi(k, j) +
              (CASE k < 3 -> Tri(k, j) \div 4
                 [] k = 3 -> 4 * BitOf(Tri(0, j), 1) + 2 * BitOf(Tri(1, j), 1) + BitOf(Tri(2, j), 1)
                 [] k = 4 -> 4 * BitOf(Tri(0, j), 0) + 2 * BitOf(Tri(1, j), 0) + BitOf(Tri(2, j), 0))
    IN  IF nv = <<>> THEN <<>>
        ELSE [b \in 1 .. 5 * Fifth + 1 |->
                IF b = 5 * Fifth + 1 THEN 8 * nv[8 * Fifth + 2] + nv[1]
                ELSE Byte((b - 1) \div 5, (b - 1) % 5)]

FieldLength(fm) == IF fm = "dos13" THEN 8 * Fifth + 3 ELSE Third + Bytes(fm) + 1

\* The scan of decodeTrack() and decodeTrack13(): two laps of the track, mark
\* by mark, keeping the sector number of the last address field (whose checksum
\* is not looked at); a data field counts only after one, and what lies inside
\* a field is skipped.
Scan(fm, nb, sectors) ==
    LET IsAddress(i) == Matches(nb, i, AddressMark(fm))
        marks == SelectSeq([i \in 1 .. 2 * Len(nb) |-> i],
                           LAMBDA i : IsAddress(i) \/ Matches(nb, i, DataMark))
        After(st, i) ==
            IF i < st.next THEN st
            ELSE IF IsAddress(i)
            THEN [st EXCEPT !.next = i + 14, !.cur = decode4and4(At(nb, i + 7), At(nb, i + 8))]
            ELSE IF st.cur \notin SectorsOf(fm) THEN st
            ELSE LET bytes == IF fm = "dos13" THEN Decoded53(nb, i + 3) ELSE Decoded62(nb, i + 3)
                 IN  [next |-> i + 6 + FieldLength(fm), cur |-> -1,
                      out |-> IF bytes = <<>> THEN st.out ELSE [st.out EXCEPT ![st.cur] = bytes]]
        scan[k \in 0 .. Len(marks)] ==
            IF k = 0 THEN [next |-> 1, cur |-> -1, out |-> sectors]
            ELSE After(scan[k - 1], marks[k])
    IN  scan[Len(marks)].out

\* saveDirty() of the track: sectors start as the file has them, the decoded
\* ones replace them, and all go back to their file positions.
SavedFile(fm, nb, old) ==
    LET sectors == Scan(fm, nb, [s \in SectorsOf(fm) |-> old[FilePosition(fm, s)]])
    IN  [p \in SectorsOf(fm) |->
           sectors[CHOOSE s \in SectorsOf(fm) : FilePosition(fm, s) = p]]

-----------------------------------------------------------------------------
SectorBytes(fm, fill, salt) ==
    [i \in 1 .. Bytes(fm) |-> (Payloads[fill] * i + 37 * salt) % 256]

\* An image of every format, loaded.
GcrInit ==
    /\ format \in {"dos", "prodos", "dos13"}
    /\ track \in Tracks
    /\ file = [p \in SectorsOf(format) |-> SectorBytes(format, 1, p)]
    /\ nibbles = Nibblized(format, track, file)
    /\ told = [s \in SectorsOf(format) |-> file[FilePosition(format, s)]]
    /\ hit = {}

\* Where the fields of sector s start: after its gap, its address and a gap.
AddressAt(s) ==
    LET lap == CHOOSE i \in 0 .. SectorCount(format) - 1 : Interleaved(format, i) = s
    IN  lap * (39 + FieldLength(format)) + 15
DataAt(s) == AddressAt(s) + 19

\* The guest rewrites the data field of s in place.
GuestWrite(s, fill) ==
    /\ hit = {}
    /\ LET src == SectorBytes(format, fill, s + 1)
           field == DataField(format, src)
           d == DataAt(s)
       IN  /\ nibbles' = [n \in DOMAIN nibbles |->
                            IF n \in d .. d + Len(field) - 1 THEN field[n - d + 1]
                            ELSE nibbles[n]]
           /\ told' = [told EXCEPT ![s] = src]
    /\ UNCHANGED <<format, file, track, hit>>

\* A fault, or a splice that missed, leaves one wrong nibble in a field of s.
Damage(s, n, v) ==
    /\ hit = {} /\ nibbles[n] # v
    /\ \/ /\ "address" \in DamagedFields
          /\ n \in AddressAt(s) .. AddressAt(s) + 10
       \/ /\ "data" \in DamagedFields
          /\ n \in DataAt(s) .. DataAt(s) + 2 + FieldLength(format)
    /\ nibbles' = [nibbles EXCEPT ![n] = v]
    /\ hit' = {s}
    /\ UNCHANGED <<format, file, track, told>>

\* saveDirty() and a fresh load of the file it wrote.
SaveAndReload ==
    /\ file' = SavedFile(format, nibbles, file)
    /\ nibbles' = Nibblized(format, track, file')
    /\ told' = [s \in SectorsOf(format) |-> file'[FilePosition(format, s)]]
    /\ hit' = {}
    /\ UNCHANGED <<format, track>>

GcrNext ==
    \/ \E s \in GuestSectors :
         \/ \E fill \in DOMAIN Payloads : GuestWrite(s, fill)
         \/ \E n \in DOMAIN nibbles, v \in Damages : Damage(s, n, v)
    \/ SaveAndReload

GcrSpec == GcrInit /\ [][GcrNext]_gcrVars

-----------------------------------------------------------------------------
(* Properties.                                                             *)

\* A save gives every sector back as the guest wrote it, at the file position
\* its format keeps it; a sector with a damaged nibble in its data field comes
\* back either right or as the file had it, never as anything else (the data
\* half of DiskImage.h:515-518), and the damage never reaches another sector.
\* Address fields stay whole: the decoder does not look at their checksum.
SectorsSurvive ==
    LET back == SavedFile(format, nibbles, file)
    IN  \A s \in SectorsOf(format) :
          LET p == FilePosition(format, s)
          IN  back[p] = told[s] \/ (s \in hit /\ back[p] = file[p])

=============================================================================

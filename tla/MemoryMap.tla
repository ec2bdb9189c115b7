----------------------------- MODULE MemoryMap -----------------------------
(***************************************************************************)
(* Address decoding of the IIgs: which memory cell a CPU read or write of  *)
(* (bank, offset) reaches under every setting of the //e soft switches,    *)
(* the language card, SHADOW ($C035), SPEED ($C036), NEWVIDEO ($C029) and  *)
(* STATEREG ($C068).  Source: IIgsMemory.cpp read8, write8 and what they   *)
(* call.                                                                   *)
(*                                                                         *)
(* Offsets are classes the decoder tells apart; $D000-$DFFF is cut at      *)
(* $D0FF as the window $C000-$CFFF it folds into is.  The contents of the  *)
(* cells are left out: the model is of where accesses go.                  *)
(***************************************************************************)
EXTENDS Integers, Sequences

CONSTANTS
    TopBank,        \* the last fast bank ($7F)
    Populated,      \* number of fast banks with RAM behind them
    Rom03,          \* TRUE: romBankBase_ = $FC
    ShadowValues,   \* bound: the settings of $C035 the guest writes
    StateValues,    \* bound: the values the guest writes to $C068
    MaxTrail        \* bound: odd $C08x accesses in a row that are looked at

Inhibit == {"text1", "text2", "hires1", "hires2", "shr", "auxhires", "iolc"}
StateBit == {"altzp", "page2", "ramrd", "ramwrt", "rdrom", "bank2"}

ASSUME BankAssumption ==
    /\ TopBank \in Nat /\ Populated \in Nat
    /\ TopBank % 2 = 1 /\ Populated % 2 = 0
    /\ 0 < Populated /\ Populated <= TopBank + 1 /\ TopBank < 224

ASSUME InputAssumption ==
    /\ Rom03 \in BOOLEAN /\ MaxTrail \in Nat
    /\ ShadowValues \subseteq SUBSET Inhibit
    /\ StateValues \subseteq SUBSET StateBit

FastBank == 0 .. TopBank
E0 == 224
E1 == 225
SlowBank == {E0, E1}

\* $0000-01FF, the two text pages, the two hi-res pages, $6000-9FFF, the rest
\* below $C000, $C000-C0FF, $C100-CFFF, $D000-D0FF, $D100-DFFF, $E000-FFFF.
Video == {"text1", "text2", "hires1", "hires2", "shr"}
CWindow == {"c0", "c1"}
DBank == {"d0", "d1"}
High == CWindow \cup DBank \cup {"e"}
Offset == Video \cup High \cup {"zp", "plain"}

Address == (FastBank \cup SlowBank) \X Offset

VARIABLES
    sw,         \* store80_, ramrd_, ramwrt_, altzp_, page2_, hires_
    lcRamRead, lcRamWrite, lcBank2, lcPreWrite,
    shadow,     \* the inhibit bits of shadow_
    allBanks,   \* speed_ b4: shadow-all
    bankLatch,  \* newvideo_ b0
    lcTrail     \* the odd $C08x accesses since the last even one or the reset

languageCard == <<lcRamRead, lcRamWrite, lcBank2, lcPreWrite, lcTrail>>
fpi == <<shadow, allBanks, bankLatch>>
mapVars == <<sw, languageCard, fpi>>

Switch == {"store80", "ramrd", "ramwrt", "altzp", "page2", "hires"}

MapTypeOK ==
    /\ sw \in [Switch -> BOOLEAN]
    /\ lcRamRead \in BOOLEAN /\ lcRamWrite \in BOOLEAN
    /\ lcBank2 \in BOOLEAN /\ lcPreWrite \in BOOLEAN
    /\ shadow \subseteq Inhibit /\ allBanks \in BOOLEAN /\ bankLatch \in BOOLEAN
    /\ lcTrail \in [even : BOOLEAN, odd : Seq({"read", "write"})]
    /\ Len(lcTrail.odd) <= MaxTrail

MapInit ==
    /\ sw = [s \in Switch |-> FALSE]
    /\ lcRamRead = FALSE /\ lcRamWrite = TRUE
    /\ lcBank2 = TRUE /\ lcPreWrite = FALSE
    /\ shadow = {} /\ allBanks = FALSE /\ bankLatch = TRUE
    /\ lcTrail = [even |-> FALSE, odd |-> <<>>]

-----------------------------------------------------------------------------
(* Decoding.  A cell is <<"fast", bank, offset>> or <<"slow", side, offset>>, *)
(* side 0 being main memory; ROM, slot ROM, I/O and nothing are homes too. *)

Aux(b) == IF b THEN 1 ELSE 0

\* physBank01(): the //e main/aux redirection, as 0 or 1.
PhysBank01(off, writing) ==
    Aux(CASE off = "zp" -> sw["altzp"]
          [] sw["store80"] /\ (off = "text1" \/ (sw["hires"] /\ off = "hires1")) -> sw["page2"]
          [] off \in High -> FALSE
          [] OTHER -> IF writing THEN sw["ramwrt"] ELSE sw["ramrd"])

\* fastCell(): banks beyond the installed RAM mirror down.
FastCell(bank, off) == <<"fast", bank % Populated, off>>

\* The window $C000-$CFFF below a $Dxxx offset.
Window(off) == IF off = "d0" THEN "c0" ELSE "c1"

\* Mutant of Fold: the single bank $E000-$FFFF folds too.
FoldHigh(off, folds) == IF folds THEN Window(off) ELSE off

\* One of the two $Dxxx banks lives in the window; $E000-$FFFF is single.
Fold(off, folds) == IF off \in DBank /\ folds THEN Window(off) ELSE off

\* lcRead() and lcWrite() with the card in: even banks follow ALTZP, the odd
\* bank is aux; bank 1 of $Dxxx is in the window.
LcCell(bank, off) ==
    FastCell(IF bank % 2 = 1 THEN bank ELSE bank + Aux(sw["altzp"]), Fold(off, ~lcBank2))

\* slowLcRead() and slowLcWrite(): here it is bank 2 that is in the window.
SlowLcCell(bank, off) ==
    <<"slow", Aux(bank = E1 \/ sw["altzp"]), Fold(off, lcBank2)>>

Bank01Like(bank) == bank <= 1 \/ allBanks

\* Mutant of SlowSide: only reads look at the latch.
SlowSideReads(bank, off, writing) ==
    IF bank = E0 \/ (~bankLatch /\ ~writing) THEN PhysBank01(off, writing) ELSE 1

\* $E0 is switched as bank $00, $E1 is aux; the latch off makes both $E0.
SlowSide(bank, off, writing) ==
    IF bank = E0 \/ ~bankLatch THEN PhysBank01(off, writing) ELSE 1

\* The fast cell of a plain access to a bank like $00 or $01.
RedirectedCell(bank, off, writing) ==
    FastCell(IF bank % 2 = 1 THEN bank ELSE bank + PhysBank01(off, writing), off)

\* The decoding read8() and write8() share: `lc` is whether the language card
\* answers with its RAM, else with `without`.
Decode(bank, off, writing, lc, without) ==
    CASE bank \in SlowBank ->
           CASE off = "c0" -> <<"io">>
             [] off = "c1" -> <<"slotrom">>
             [] off \in DBank \cup {"e"} -> IF lc THEN SlowLcCell(bank, off) ELSE without
             [] OTHER -> <<"slow", SlowSide(bank, off, writing), off>>
      [] bank \in FastBank ->
           IF ~Bank01Like(bank)
           THEN IF bank < Populated THEN FastCell(bank, off) ELSE <<"none">>
           ELSE CASE "iolc" \notin shadow /\ off = "c0" -> <<"io">>
                  [] "iolc" \notin shadow /\ off = "c1" -> <<"slotrom">>
                  [] "iolc" \notin shadow /\ off \in DBank \cup {"e"} ->
                       IF lc THEN LcCell(bank, off) ELSE without
                  [] OTHER -> RedirectedCell(bank, off, writing)

\* read8(): ROM shows through a card that is not read-enabled.
ReadHome(bank, off) == Decode(bank, off, FALSE, lcRamRead, <<"rom">>)

\* write8(): a card that is not write-enabled drops the write.
WriteHome(bank, off) == Decode(bank, off, TRUE, lcRamWrite, <<"none">>)

\* Mutant of Shadows: a hi-res page bit inhibits the Super Hi-Res buffer too.
ShadowsNoShr(side, off) ==
    CASE off = "text1" -> "text1" \notin shadow
      [] off = "text2" -> Rom03 /\ "text2" \notin shadow
      [] off \in {"hires1", "hires2"} ->
           off \notin shadow /\ (side = 1 => "auxhires" \notin shadow)
      [] off = "shr" -> side = 1 /\ "shr" \notin shadow
      [] OTHER -> FALSE

\* maybeShadow(): does a write of a fast cell on this side reach the slow copy?
Shadows(side, off) ==
    LET shr == side = 1 /\ "shr" \notin shadow
    IN  CASE off = "text1" -> "text1" \notin shadow
          [] off = "text2" -> Rom03 /\ "text2" \notin shadow
          [] off \in {"hires1", "hires2"} ->
               (off \notin shadow /\ (side = 1 => "auxhires" \notin shadow)) \/ shr
          [] off = "shr" -> shr
          [] OTHER -> FALSE

\* The slow cells a write to a fast bank reaches besides its home: the copy of
\* the cell the redirection has chosen.
ShadowCells(bank, off) ==
    LET side == IF bank % 2 = 1 THEN 1 ELSE PhysBank01(off, TRUE)
    IN  IF Bank01Like(bank) /\ Shadows(side, off) THEN {<<"slow", side, off>>} ELSE {}

-----------------------------------------------------------------------------
(* What the guest does.                                                    *)

\* $C000-$C009 writes, $C054-$C057 accesses.
SetSwitch(s, on) ==
    /\ sw' = [sw EXCEPT ![s] = on]
    /\ UNCHANGED <<languageCard, fpi>>

\* The odd accesses looked at, an even one starting over.
Trail(odd, writing) ==
    IF ~odd THEN [even |-> TRUE, odd |-> <<>>]
    ELSE [lcTrail EXCEPT !.odd = Append(@, IF writing THEN "write" ELSE "read")]

\* Mutant of LcSwitch: an odd write leaves the pre-write flip-flop alone.
LcSwitchSticky(b0, b1, b3, writing) ==
    /\ b0 => Len(lcTrail.odd) < MaxTrail
    /\ lcBank2' = ~b3
    /\ lcRamRead' = (b0 = b1)
    /\ lcRamWrite' = (b0 /\ (lcRamWrite \/ (~writing /\ lcPreWrite)))
    /\ lcPreWrite' = (b0 /\ (lcPreWrite \/ ~writing))
    /\ lcTrail' = Trail(b0, writing)
    /\ UNCHANGED <<sw, fpi>>

\* lcSwitch(): an access to $C080-$C08F with address bits 0, 1 and 3.
LcSwitch(b0, b1, b3, writing) ==
    /\ b0 => Len(lcTrail.odd) < MaxTrail
    /\ lcBank2' = ~b3
    /\ lcRamRead' = (b0 = b1)
    /\ lcRamWrite' = (b0 /\ (lcRamWrite \/ (~writing /\ lcPreWrite)))
    /\ lcPreWrite' = (b0 /\ ~writing)
    /\ lcTrail' = Trail(b0, writing)
    /\ UNCHANGED <<sw, fpi>>

\* $C035 and $C036 writes.
WriteShadow(v) ==
    /\ shadow' = v
    /\ UNCHANGED <<sw, languageCard, allBanks, bankLatch>>

WriteSpeed(all) ==
    /\ allBanks' = all
    /\ UNCHANGED <<sw, languageCard, shadow, bankLatch>>

\* $C029 write.
WriteNewVideo(latch) ==
    /\ bankLatch' = latch
    /\ UNCHANGED <<sw, languageCard, shadow, allBanks>>

\* Mutant of StateReg: the language card's bit reads as it is named.
StateRegPlain ==
    {s \in {"altzp", "page2", "ramrd", "ramwrt"} : sw[s]}
        \cup {b \in {"rdrom"} : lcRamRead} \cup {b \in {"bank2"} : lcBank2}

\* $C068 read: the switches, composed.
StateReg ==
    {s \in {"altzp", "page2", "ramrd", "ramwrt"} : sw[s]}
        \cup {b \in {"rdrom"} : ~lcRamRead} \cup {b \in {"bank2"} : lcBank2}

\* $C068 write.
WriteStateReg(v) ==
    /\ sw' = [s \in Switch |->
                IF s \in {"altzp", "page2", "ramrd", "ramwrt"} THEN s \in v ELSE sw[s]]
    /\ lcRamRead' = ("rdrom" \notin v)
    /\ lcBank2' = ("bank2" \in v)
    /\ UNCHANGED <<lcRamWrite, lcPreWrite, lcTrail, fpi>>

\* softReset(), the decoder's part.
SoftReset ==
    /\ sw' = [s \in Switch |-> FALSE]
    /\ lcRamRead' = FALSE /\ lcRamWrite' = TRUE
    /\ lcBank2' = TRUE /\ lcPreWrite' = FALSE
    /\ shadow' = {} /\ allBanks' = FALSE /\ bankLatch' = TRUE
    /\ lcTrail' = [even |-> FALSE, odd |-> <<>>]

MapNext ==
    \/ \E s \in Switch, on \in BOOLEAN : SetSwitch(s, on)
    \/ \E b0, b1, b3, writing \in BOOLEAN : LcSwitch(b0, b1, b3, writing)
    \/ \E v \in ShadowValues : WriteShadow(v)
    \/ \E all \in BOOLEAN : WriteSpeed(all)
    \/ \E latch \in BOOLEAN : WriteNewVideo(latch)
    \/ \E v \in StateValues : WriteStateReg(v)
    \/ SoftReset

MapSpec == MapInit /\ [][MapNext]_mapVars

-----------------------------------------------------------------------------
(* Properties.                                                             *)

\* Where an access may end: in its own pair of banks, at its own offset, or,
\* for $Dxxx through the language card, in the window below.
InPlace(bank, off, home) ==
    /\ home[1] = "fast" => /\ bank \in FastBank
                           /\ home[2] \div 2 = bank \div 2
                           /\ home[3] \in {off} \cup {Window(d) : d \in {off} \cap DBank}
    /\ home[1] = "slow" => /\ bank \in SlowBank
                           /\ home[3] \in {off} \cup {Window(d) : d \in {off} \cap DBank}

\* No access strays into another pair of banks or another part of its bank,
\* as long as the bank is populated (read8, write8, lcRead, slowLcRead).  A
\* bank with no RAM is exempt only while shadow-all gives it bank $00's map.
HomesInPlace ==
    \A a \in Address :
      (a[1] \in FastBank => a[1] < Populated \/ ~allBanks) =>
        /\ InPlace(a[1], a[2], ReadHome(a[1], a[2]))
        /\ InPlace(a[1], a[2], WriteHome(a[1], a[2]))

\* With reads and writes switched alike and the language card fully in, a read
\* finds what the last write through the same address left: read8() and
\* write8() decode alike under every other switch.
ReadsSeeWrites ==
    sw["ramrd"] = sw["ramwrt"] /\ lcRamRead /\ lcRamWrite =>
      \A a \in Address : ReadHome(a[1], a[2]) = WriteHome(a[1], a[2])

\* Program and Mega II agree on the screen: a shadowed write through bank $00
\* or $01 reaches the very slow cell a write of the same offset through $E0 or
\* $E1 reaches ("switched exactly like bank $00", IIgsMemory.cpp:1385-1388), and
\* drawing the Super Hi-Res buffer in bank $01 reaches it whatever the hi-res
\* page bits say (IIgsMemory.cpp:1336-1343).
SameScreen ==
    /\ \A off \in Video : ShadowCells(0, off) \subseteq {WriteHome(E0, off)}
    /\ bankLatch =>
         \A off \in Video :
           /\ ShadowCells(1, off) \subseteq {WriteHome(E1, off)}
           /\ off \in {"hires1", "hires2", "shr"} /\ "shr" \notin shadow =>
                ShadowCells(1, off) = {WriteHome(E1, off)}

\* The language card accepts writes only as the reset left it, or after two
\* odd reads with no other $C08x access between them ("Write-enable needs two
\* consecutive odd READS; any WRITE access clears the pre-write flip-flop",
\* IIgsMemory.cpp:1009-1011), and keeps accepting them until an even access.
EnableEarned ==
    LET odd == lcTrail.odd
    IN  lcRamWrite <=>
          \/ ~lcTrail.even
          \/ \E i \in 1 .. Len(odd) - 1 : odd[i] = "read" /\ odd[i + 1] = "read"

\* STATEREG saves the map: a written value reads back as written, and a handler
\* that reads it and writes it back leaves every address its home.
RestoreStep ==
    \A v \in StateValues :
      WriteStateReg(v) =>
        /\ StateReg' = v
        /\ v = StateReg =>
             \A a \in Address : /\ ReadHome(a[1], a[2])' = ReadHome(a[1], a[2])
                                /\ WriteHome(a[1], a[2])' = WriteHome(a[1], a[2])
RestoreKeepsMap == [][RestoreStep]_mapVars

=============================================================================

----------------------------- MODULE Bus_proofs ------------------------------
(***************************************************************************)
(* Proofs about the bus: where the accesses go (MemoryMap) and what they   *)
(* cost (BusTiming).                                                       *)
(*                                                                         *)
(* MemoryMap, for every number of fast banks, of populated ones and either *)
(* ROM: the type of the switches, where accesses end, that reads and writes *)
(* decode alike, the screen's two copies, the language card's write enable, *)
(* and STATEREG's save and restore.                                        *)
(*                                                                         *)
(* BusTiming, for every clock, instruction length and mix of accesses: the *)
(* phase of each access of a fast instruction, and the grid a slow         *)
(* instruction keeps to.  A number is taken apart once, as a multiple of the *)
(* period and a phase; the loop of slowCyclesTicks is followed by induction, *)
(* in the form of a set that contains 0 and successors.                    *)
(***************************************************************************)
EXTENDS MemoryMap, BusTiming, WellFoundedInduction, TLAPS

-----------------------------------------------------------------------------
(* Types.                                                                  *)

LEMMA FreshTrail ==
    ASSUME NEW even \in BOOLEAN
    PROVE  /\ [even |-> even, odd |-> <<>>] \in [even : BOOLEAN, odd : Seq({"read", "write"})]
           /\ Len([even |-> even, odd |-> <<>>].odd) <= MaxTrail
<1>1. <<>> \in Seq({"read", "write"}) /\ Len(<<>>) = 0 /\ MaxTrail \in Nat
    BY InputAssumption
<1>. QED
    BY <1>1

LEMMA NoSwitch == [s \in Switch |-> FALSE] \in [Switch -> BOOLEAN]
OBVIOUS

\* The trail of odd accesses after an access.
LEMMA TrailType ==
    ASSUME MapTypeOK, NEW odd \in BOOLEAN, NEW writing \in BOOLEAN,
           odd => Len(lcTrail.odd) < MaxTrail
    PROVE  /\ Trail(odd, writing) \in [even : BOOLEAN, odd : Seq({"read", "write"})]
           /\ Len(Trail(odd, writing).odd) <= MaxTrail
           /\ odd => /\ Trail(odd, writing).even = lcTrail.even
                     /\ Trail(odd, writing).odd
                          = Append(lcTrail.odd, IF writing THEN "write" ELSE "read")
<1>1. CASE odd
    <2> DEFINE how == IF writing THEN "write" ELSE "read"
    <2>1. how \in {"read", "write"}
        OBVIOUS
    <2>2. lcTrail \in [even : BOOLEAN, odd : Seq({"read", "write"})] /\ MaxTrail \in Nat
        BY InputAssumption DEF MapTypeOK
    <2>3. Trail(odd, writing) = [lcTrail EXCEPT !.odd = Append(@, how)]
        BY <1>1 DEF Trail
    <2>. HIDE DEF how
    <2>4. /\ Append(lcTrail.odd, how) \in Seq({"read", "write"})
          /\ Len(Append(lcTrail.odd, how)) = Len(lcTrail.odd) + 1 /\ Len(lcTrail.odd) \in Nat
        BY <2>1, <2>2
    <2>5. /\ Trail(odd, writing) \in [even : BOOLEAN, odd : Seq({"read", "write"})]
          /\ Trail(odd, writing).even = lcTrail.even
          /\ Trail(odd, writing).odd = Append(lcTrail.odd, how)
        BY <2>2, <2>3, <2>4
    <2>6. Len(Trail(odd, writing).odd) <= MaxTrail
        <3>1. Len(lcTrail.odd) < MaxTrail
            BY <1>1
        <3>2. Len(Trail(odd, writing).odd) = Len(lcTrail.odd) + 1
            BY <2>4, <2>5
        <3>3. MaxTrail \in Nat /\ Len(lcTrail.odd) \in Nat
            BY <2>2, <2>4
        <3>. QED
            BY <3>1, <3>2, <3>3
    <2>. QED
        BY <2>5, <2>6 DEF how
<1>2. CASE ~odd
    <2>1. Trail(odd, writing) = [even |-> TRUE, odd |-> <<>>]
        BY <1>2 DEF Trail
    <2>. QED
        BY <1>2, <2>1, FreshTrail
<1>. QED
    BY <1>1, <1>2

LEMMA InitMapType == MapInit => MapTypeOK
BY NoSwitch, FreshTrail DEF MapInit, MapTypeOK

LEMMA NextMapType == MapTypeOK /\ [MapNext]_mapVars => MapTypeOK'
<1> SUFFICES ASSUME MapTypeOK, [MapNext]_mapVars PROVE MapTypeOK'
    OBVIOUS
<1> USE DEF languageCard, fpi
<1>1. ASSUME NEW s \in Switch, NEW on \in BOOLEAN, SetSwitch(s, on) PROVE MapTypeOK'
    BY <1>1 DEF SetSwitch, MapTypeOK
<1>2. ASSUME NEW b0 \in BOOLEAN, NEW b1 \in BOOLEAN, NEW b3 \in BOOLEAN, NEW writing \in BOOLEAN,
             LcSwitch(b0, b1, b3, writing)
      PROVE  MapTypeOK'
    <2>1. /\ lcTrail' \in [even : BOOLEAN, odd : Seq({"read", "write"})]
          /\ Len(lcTrail'.odd) <= MaxTrail
        BY <1>2, TrailType DEF LcSwitch
    <2>2. /\ lcRamRead' \in BOOLEAN /\ lcRamWrite' \in BOOLEAN
          /\ lcBank2' \in BOOLEAN /\ lcPreWrite' \in BOOLEAN
          /\ UNCHANGED <<sw, fpi>>
        BY <1>2 DEF LcSwitch
    <2>. QED
        BY <2>1, <2>2 DEF MapTypeOK
<1>3. ASSUME NEW v \in ShadowValues, WriteShadow(v) PROVE MapTypeOK'
    BY <1>3, InputAssumption DEF WriteShadow, MapTypeOK
<1>4. ASSUME NEW on \in BOOLEAN, WriteSpeed(on) \/ WriteNewVideo(on) PROVE MapTypeOK'
    BY <1>4 DEF WriteSpeed, WriteNewVideo, MapTypeOK
<1>5. ASSUME NEW v \in StateValues, WriteStateReg(v) PROVE MapTypeOK'
    <2>1. sw' \in [Switch -> BOOLEAN]
        <3> DEFINE value(s) ==
                  IF s \in {"altzp", "page2", "ramrd", "ramwrt"} THEN s \in v ELSE sw[s]
        <3>1. sw' = [s \in Switch |-> value(s)]
            BY <1>5 DEF WriteStateReg
        <3>2. \A s \in Switch : sw[s] \in BOOLEAN
            BY DEF MapTypeOK
        <3>3. ASSUME NEW s \in Switch PROVE value(s) \in BOOLEAN
            <4>1. CASE s \in {"altzp", "page2", "ramrd", "ramwrt"}
                BY <4>1
            <4>2. CASE s \notin {"altzp", "page2", "ramrd", "ramwrt"}
                BY <3>2, <4>2
            <4>. QED
                BY <4>1, <4>2
        <3>. HIDE DEF value
        <3>. QED
            BY <3>1, <3>3
    <2>2. /\ lcRamRead' \in BOOLEAN /\ lcBank2' \in BOOLEAN
          /\ UNCHANGED <<lcRamWrite, lcPreWrite, lcTrail, fpi>>
        BY <1>5 DEF WriteStateReg
    <2>. QED
        BY <2>1, <2>2 DEF MapTypeOK
<1>6. CASE SoftReset
    BY <1>6, NoSwitch, FreshTrail DEF SoftReset, MapTypeOK
<1>7. CASE UNCHANGED mapVars
    BY <1>7 DEF mapVars, MapTypeOK
<1>. QED
    BY <1>1, <1>2, <1>3, <1>4, <1>5, <1>6, <1>7 DEF MapNext

\* Every switch of the decoder keeps its type.
THEOREM MapTypeCorrect == MapSpec => []MapTypeOK
<1>. QED
    BY InitMapType, NextMapType, PTL DEF MapSpec

-----------------------------------------------------------------------------
(* Where an access ends.                                                   *)

\* The part of its bank a folded offset names.
LEMMA FoldInPlace ==
    ASSUME NEW off \in Offset, NEW folds \in BOOLEAN
    PROVE  Fold(off, folds) \in {off} \cup {Window(d) : d \in {off} \cap DBank}
<1>1. CASE off \in DBank /\ folds
    BY <1>1 DEF Fold
<1>2. CASE ~(off \in DBank /\ folds)
    BY <1>2 DEF Fold
<1>. QED
    BY <1>1, <1>2

LEMMA SideType ==
    ASSUME NEW off, NEW writing
    PROVE  PhysBank01(off, writing) \in 0 .. 1
BY DEF PhysBank01, Aux

\* Banks come in pairs, and RAM in whole pairs.
LEMMA PairKept ==
    ASSUME NEW bank \in Nat, NEW n \in Nat, n % 2 = 0, bank < n, NEW aux \in 0 .. 1,
           bank % 2 = 1 => aux = 0
    PROVE  (bank + aux) % n = bank + aux /\ (bank + aux) \div 2 = bank \div 2
<1>1. bank + aux < n
    <2>1. CASE aux = 0
        BY <2>1
    <2>2. CASE aux = 1
        <3>1. bank % 2 = 0
            BY <2>2
        <3>2. bank + 1 # n
            BY <3>1
        <3>. QED
            BY <2>2, <3>2
    <2>. QED
        BY <2>1, <2>2
<1>2. (bank + aux) % n = bank + aux
    <2>1. \A m \in Nat : m < n => m % n = m
        OBVIOUS
    <2>. QED
        BY <1>1, <2>1
<1>3. (bank + aux) \div 2 = bank \div 2
    OBVIOUS
<1>. QED
    BY <1>2, <1>3

\* A fast cell of the bank, or of the aux bank beside an even one, is in place.
LEMMA FastInPlace ==
    ASSUME NEW bank \in FastBank, bank < Populated, NEW off \in Offset, NEW aux \in 0 .. 1,
           bank % 2 = 1 => aux = 0,
           NEW part \in {off} \cup {Window(d) : d \in {off} \cap DBank}
    PROVE  InPlace(bank, off, FastCell(bank + aux, part))
<1>1. Populated \in Nat /\ Populated % 2 = 0 /\ bank \in Nat
    BY BankAssumption DEF FastBank
<1>2. ((bank + aux) % Populated) \div 2 = bank \div 2
    BY <1>1, PairKept
<1>. QED
    BY <1>2 DEF InPlace, FastCell

LEMMA SlowInPlace ==
    ASSUME NEW bank \in SlowBank, NEW off \in Offset, NEW side,
           NEW part \in {off} \cup {Window(d) : d \in {off} \cap DBank}
    PROVE  InPlace(bank, off, <<"slow", side, part>>)
BY DEF InPlace

LEMMA ElsewhereInPlace ==
    ASSUME NEW bank, NEW off,
           NEW home \in {<<"io">>, <<"slotrom">>, <<"rom">>, <<"none">>}
    PROVE  InPlace(bank, off, home)
BY DEF InPlace

LEMMA BanksApart ==
    ASSUME NEW bank
    PROVE  bank \in FastBank => bank \in Nat /\ bank \notin SlowBank
BY BankAssumption DEF FastBank, SlowBank, E0, E1

\* What Decode() gives in the Mega II's banks, and in the fast ones.
LEMMA DecodeSlow ==
    ASSUME NEW bank \in SlowBank, NEW off \in Offset, NEW writing \in BOOLEAN,
           NEW lc \in BOOLEAN, NEW without
    PROVE  /\ off = "c0" => Decode(bank, off, writing, lc, without) = <<"io">>
           /\ off = "c1" => Decode(bank, off, writing, lc, without) = <<"slotrom">>
           /\ off \in DBank \cup {"e"} =>
                Decode(bank, off, writing, lc, without)
                  = IF lc THEN SlowLcCell(bank, off) ELSE without
           /\ off \notin DBank \cup {"c0", "c1", "e"} =>
                Decode(bank, off, writing, lc, without)
                  = <<"slow", SlowSide(bank, off, writing), off>>
<1>0. bank \notin FastBank
    BY BanksApart
<1>1. CASE off = "c0"
    BY <1>0, <1>1 DEF Decode, DBank
<1>2. CASE off = "c1"
    BY <1>0, <1>2 DEF Decode, DBank
<1>3. CASE off \in DBank \cup {"e"}
    BY <1>0, <1>3 DEF Decode, DBank
<1>4. CASE off \notin DBank \cup {"c0", "c1", "e"}
    BY <1>0, <1>4 DEF Decode
<1>. QED
    BY <1>1, <1>2, <1>3, <1>4

LEMMA DecodeFast ==
    ASSUME NEW bank \in FastBank, NEW off \in Offset, NEW writing \in BOOLEAN,
           NEW lc \in BOOLEAN, NEW without
    PROVE  /\ ~Bank01Like(bank) =>
                Decode(bank, off, writing, lc, without)
                  = IF bank < Populated THEN FastCell(bank, off) ELSE <<"none">>
           /\ Bank01Like(bank) /\ "iolc" \in shadow =>
                Decode(bank, off, writing, lc, without) = RedirectedCell(bank, off, writing)
           /\ Bank01Like(bank) /\ "iolc" \notin shadow =>
                /\ off = "c0" => Decode(bank, off, writing, lc, without) = <<"io">>
                /\ off = "c1" => Decode(bank, off, writing, lc, without) = <<"slotrom">>
                /\ off \in DBank \cup {"e"} =>
                     Decode(bank, off, writing, lc, without)
                       = IF lc THEN LcCell(bank, off) ELSE without
                /\ off \notin DBank \cup {"c0", "c1", "e"} =>
                     Decode(bank, off, writing, lc, without)
                       = RedirectedCell(bank, off, writing)
<1>0. bank \notin SlowBank
    BY BanksApart
<1>1. CASE ~Bank01Like(bank)
    BY <1>0, <1>1 DEF Decode
<1>2. CASE Bank01Like(bank) /\ "iolc" \in shadow
    BY <1>0, <1>2 DEF Decode
<1>3. CASE Bank01Like(bank) /\ "iolc" \notin shadow
    <2>1. CASE off = "c0"
        BY <1>0, <1>3, <2>1 DEF Decode, DBank
    <2>2. CASE off = "c1"
        BY <1>0, <1>3, <2>2 DEF Decode, DBank
    <2>3. CASE off \in DBank \cup {"e"}
        BY <1>0, <1>3, <2>3 DEF Decode, DBank
    <2>4. CASE off \notin DBank \cup {"c0", "c1", "e"}
        BY <1>0, <1>3, <2>4 DEF Decode
    <2>. QED
        BY <2>1, <2>2, <2>3, <2>4
<1>. QED
    BY <1>1, <1>2, <1>3

\* Every home is in place.
LEMMA DecodeInPlace ==
    ASSUME MapTypeOK, NEW bank \in FastBank \cup SlowBank, NEW off \in Offset,
           NEW writing \in BOOLEAN, NEW lc \in BOOLEAN, NEW without \in {<<"rom">>, <<"none">>},
           bank \in FastBank => bank < Populated \/ ~allBanks
    PROVE  InPlace(bank, off, Decode(bank, off, writing, lc, without))
<1> DEFINE home == Decode(bank, off, writing, lc, without)
<1>1. CASE bank \in SlowBank
    <2>1. \/ home \in {<<"io">>, <<"slotrom">>, <<"rom">>, <<"none">>}
          \/ home = SlowLcCell(bank, off)
          \/ home = <<"slow", SlowSide(bank, off, writing), off>>
        BY <1>1, DecodeSlow
    <2>2. Fold(off, lcBank2) \in {off} \cup {Window(d) : d \in {off} \cap DBank}
        BY FoldInPlace DEF MapTypeOK
    <2>. HIDE DEF home
    <2>. QED
        BY <1>1, <2>1, <2>2, SlowInPlace, ElsewhereInPlace DEF SlowLcCell, home
<1>2. CASE bank \in FastBank
    <2>0. bank \notin SlowBank /\ bank \in Nat
        BY <1>2, BanksApart
    <2>1. \/ home \in {<<"io">>, <<"slotrom">>, <<"rom">>, <<"none">>}
          \/ home = FastCell(bank, off) /\ bank < Populated
          \/ home = LcCell(bank, off) /\ Bank01Like(bank)
          \/ home = RedirectedCell(bank, off, writing) /\ Bank01Like(bank)
        BY <1>2, DecodeFast
    <2>2. Bank01Like(bank) => bank < Populated
        BY <1>2, <2>0, BankAssumption DEF Bank01Like
    <2>3. CASE home = FastCell(bank, off) /\ bank < Populated
        <3>1. bank + 0 = bank /\ 0 \in 0 .. 1
            BY <2>0
        <3>2. InPlace(bank, off, FastCell(bank + 0, off))
            BY <1>2, <2>3, <3>1, FastInPlace
        <3>. QED
            BY <2>3, <3>1, <3>2
    <2>4. CASE home = LcCell(bank, off) /\ Bank01Like(bank)
        <3>1. PICK aux \in 0 .. 1 :
                 /\ bank % 2 = 1 => aux = 0
                 /\ LcCell(bank, off) = FastCell(bank + aux, Fold(off, ~lcBank2))
            BY <2>0 DEF LcCell, Aux
        <3>2. Fold(off, ~lcBank2) \in {off} \cup {Window(d) : d \in {off} \cap DBank}
            BY FoldInPlace DEF MapTypeOK
        <3>. QED
            BY <1>2, <2>2, <2>4, <3>1, <3>2, FastInPlace
    <2>5. CASE home = RedirectedCell(bank, off, writing) /\ Bank01Like(bank)
        <3>1. PICK aux \in 0 .. 1 :
                 (bank % 2 = 1 => aux = 0)
                 /\ RedirectedCell(bank, off, writing) = FastCell(bank + aux, off)
            BY <2>0, SideType DEF RedirectedCell
        <3>. QED
            BY <1>2, <2>2, <2>5, <3>1, FastInPlace
    <2>. HIDE DEF home
    <2>. QED
        BY <2>1, <2>3, <2>4, <2>5, ElsewhereInPlace DEF home
<1>. QED
    BY <1>1, <1>2

LEMMA InPlaceAlways == MapTypeOK => HomesInPlace
<1> SUFFICES ASSUME MapTypeOK, NEW bank \in FastBank \cup SlowBank, NEW off \in Offset,
                    bank \in FastBank => bank < Populated \/ ~allBanks
             PROVE  /\ InPlace(bank, off, ReadHome(bank, off))
                    /\ InPlace(bank, off, WriteHome(bank, off))
    BY DEF HomesInPlace, Address
<1>1. lcRamRead \in BOOLEAN /\ lcRamWrite \in BOOLEAN
    BY DEF MapTypeOK
<1>. QED
    BY <1>1, DecodeInPlace DEF ReadHome, WriteHome

\* No access strays into another pair of banks or another part of its bank.
THEOREM HomesInPlaceHold == MapSpec => []HomesInPlace
<1>. QED
    BY InPlaceAlways, MapTypeCorrect, PTL

-----------------------------------------------------------------------------
(* Reads, writes and the screen.                                           *)

LEMMA LikeAlways == MapTypeOK => ReadsSeeWrites
<1> SUFFICES ASSUME MapTypeOK, sw["ramrd"] = sw["ramwrt"],
                    NEW bank \in FastBank \cup SlowBank, NEW off \in Offset
             PROVE  lcRamRead /\ lcRamWrite => ReadHome(bank, off) = WriteHome(bank, off)
    BY DEF ReadsSeeWrites, Address
<1>1. PICK w1 \in BOOLEAN, w2 \in BOOLEAN : w1 = FALSE /\ w2 = TRUE
    OBVIOUS
<1>2. PhysBank01(off, w1) = PhysBank01(off, w2)
    BY <1>1 DEF PhysBank01
<1>3. SlowSide(bank, off, w1) = SlowSide(bank, off, w2)
    BY <1>2 DEF SlowSide
<1>4. RedirectedCell(bank, off, w1) = RedirectedCell(bank, off, w2)
    BY <1>2 DEF RedirectedCell
<1>5. PICK in1 \in BOOLEAN, in2 \in BOOLEAN : in1 = lcRamRead /\ in2 = lcRamWrite
    BY DEF MapTypeOK
<1>6. in1 /\ in2 => Decode(bank, off, w1, in1, <<"rom">>) = Decode(bank, off, w2, in2, <<"none">>)
    <2>1. CASE bank \in SlowBank
        <3>1. CASE off = "c0"
            <4>1. Decode(bank, off, w1, in1, <<"rom">>) = <<"io">>
                BY <2>1, <3>1, DecodeSlow
            <4>2. Decode(bank, off, w2, in2, <<"none">>) = <<"io">>
                BY <2>1, <3>1, DecodeSlow
            <4>. QED
                BY <4>1, <4>2
        <3>2. CASE off = "c1"
            <4>1. Decode(bank, off, w1, in1, <<"rom">>) = <<"slotrom">>
                BY <2>1, <3>2, DecodeSlow
            <4>2. Decode(bank, off, w2, in2, <<"none">>) = <<"slotrom">>
                BY <2>1, <3>2, DecodeSlow
            <4>. QED
                BY <4>1, <4>2
        <3>3. CASE off \in DBank \cup {"e"}
            <4>1. Decode(bank, off, w1, in1, <<"rom">>)
                    = IF in1 THEN SlowLcCell(bank, off) ELSE <<"rom">>
                BY <2>1, <3>3, DecodeSlow
            <4>2. Decode(bank, off, w2, in2, <<"none">>)
                    = IF in2 THEN SlowLcCell(bank, off) ELSE <<"none">>
                BY <2>1, <3>3, DecodeSlow
            <4>. QED
                BY <4>1, <4>2
        <3>4. CASE off \notin DBank \cup {"c0", "c1", "e"}
            <4>1. Decode(bank, off, w1, in1, <<"rom">>) = <<"slow", SlowSide(bank, off, w1), off>>
                BY <2>1, <3>4, DecodeSlow
            <4>2. Decode(bank, off, w2, in2, <<"none">>) = <<"slow", SlowSide(bank, off, w2), off>>
                BY <2>1, <3>4, DecodeSlow
            <4>. QED
                BY <1>3, <4>1, <4>2
        <3>. QED
            BY <3>1, <3>2, <3>3, <3>4
    <2>2. CASE bank \in FastBank /\ ~Bank01Like(bank)
        <3> DEFINE ram == IF bank < Populated THEN FastCell(bank, off) ELSE <<"none">>
        <3>1. Decode(bank, off, w1, in1, <<"rom">>) = ram
            BY <2>2, DecodeFast
        <3>2. Decode(bank, off, w2, in2, <<"none">>) = ram
            BY <2>2, DecodeFast
        <3>. HIDE DEF ram
        <3>. QED
            BY <3>1, <3>2
    <2>3. CASE bank \in FastBank /\ Bank01Like(bank) /\ "iolc" \in shadow
        <3>1. Decode(bank, off, w1, in1, <<"rom">>) = RedirectedCell(bank, off, w1)
            BY <2>3, DecodeFast
        <3>2. Decode(bank, off, w2, in2, <<"none">>) = RedirectedCell(bank, off, w2)
            BY <2>3, DecodeFast
        <3>. QED
            BY <1>4, <3>1, <3>2
    <2>4. CASE bank \in FastBank /\ Bank01Like(bank) /\ "iolc" \notin shadow
        <3>1. CASE off = "c0"
            <4>1. Decode(bank, off, w1, in1, <<"rom">>) = <<"io">>
                BY <2>4, <3>1, DecodeFast
            <4>2. Decode(bank, off, w2, in2, <<"none">>) = <<"io">>
                BY <2>4, <3>1, DecodeFast
            <4>. QED
                BY <4>1, <4>2
        <3>2. CASE off = "c1"
            <4>1. Decode(bank, off, w1, in1, <<"rom">>) = <<"slotrom">>
                BY <2>4, <3>2, DecodeFast
            <4>2. Decode(bank, off, w2, in2, <<"none">>) = <<"slotrom">>
                BY <2>4, <3>2, DecodeFast
            <4>. QED
                BY <4>1, <4>2
        <3>3. CASE off \in DBank \cup {"e"}
            <4>1. Decode(bank, off, w1, in1, <<"rom">>)
                    = IF in1 THEN LcCell(bank, off) ELSE <<"rom">>
                BY <2>4, <3>3, DecodeFast
            <4>2. Decode(bank, off, w2, in2, <<"none">>)
                    = IF in2 THEN LcCell(bank, off) ELSE <<"none">>
                BY <2>4, <3>3, DecodeFast
            <4>. QED
                BY <4>1, <4>2
        <3>4. CASE off \notin DBank \cup {"c0", "c1", "e"}
            <4>1. Decode(bank, off, w1, in1, <<"rom">>) = RedirectedCell(bank, off, w1)
                BY <2>4, <3>4, DecodeFast
            <4>2. Decode(bank, off, w2, in2, <<"none">>) = RedirectedCell(bank, off, w2)
                BY <2>4, <3>4, DecodeFast
            <4>. QED
                BY <1>4, <4>1, <4>2
        <3>. QED
            BY <3>1, <3>2, <3>3, <3>4
    <2>. QED
        BY <2>1, <2>2, <2>3, <2>4
<1>. QED
    BY <1>1, <1>5, <1>6 DEF ReadHome, WriteHome

\* Under like switches a read finds the last write.
THEOREM ReadsSeeWritesHolds == MapSpec => []ReadsSeeWrites
<1>. QED
    BY LikeAlways, MapTypeCorrect, PTL

LEMMA ScreenAlways == SameScreen
<1>1. ASSUME NEW off \in Video, NEW bank \in SlowBank
      PROVE  WriteHome(bank, off) = <<"slow", SlowSide(bank, off, TRUE), off>>
    <2>1. bank \notin FastBank /\ off \notin DBank \cup {"c0", "c1", "e"}
        BY BanksApart DEF Video, DBank
    <2>. QED
        BY <2>1 DEF WriteHome, Decode
<1>2. ASSUME NEW off \in Video PROVE ShadowCells(0, off) \subseteq {WriteHome(E0, off)}
    <2>1. WriteHome(E0, off) = <<"slow", PhysBank01(off, TRUE), off>>
        BY <1>1 DEF SlowSide, SlowBank
    <2>2. 0 % 2 # 1
        OBVIOUS
    <2>. QED
        BY <2>1, <2>2 DEF ShadowCells
<1>3. ASSUME bankLatch, NEW off \in Video PROVE WriteHome(E1, off) = <<"slow", 1, off>>
    <2>1. WriteHome(E1, off) = <<"slow", SlowSide(E1, off, TRUE), off>>
        BY <1>1 DEF SlowBank
    <2>2. E1 # E0
        BY DEF E0, E1
    <2>. QED
        BY <1>3, <2>1, <2>2 DEF SlowSide
<1>4. ASSUME NEW off \in Video
      PROVE  ShadowCells(1, off) = IF Shadows(1, off) THEN {<<"slow", 1, off>>} ELSE {}
    <2>1. 1 % 2 = 1
        OBVIOUS
    <2>. QED
        BY <2>1 DEF ShadowCells, Bank01Like
<1>5. ASSUME NEW off \in {"hires1", "hires2", "shr"}, "shr" \notin shadow PROVE Shadows(1, off)
    BY <1>5 DEF Shadows
<1>. QED
    BY <1>2, <1>3, <1>4, <1>5 DEF SameScreen

\* The screen drawn in fast RAM is the one the Mega II scans.
THEOREM SameScreenHolds == MapSpec => []SameScreen
<1>. QED
    BY ScreenAlways, PTL

-----------------------------------------------------------------------------
(* The language card's write enable.                                       *)

\* The flip-flop is armed exactly after an odd read.
ArmedByRead ==
    lcPreWrite <=> /\ Len(lcTrail.odd) > 0
                   /\ lcTrail.odd[Len(lcTrail.odd)] = "read"

Paired(odd) == \E i \in 1 .. Len(odd) - 1 : odd[i] = "read" /\ odd[i + 1] = "read"

\* One more access pairs up if it and the last one are reads.
LEMMA PairedNext ==
    ASSUME NEW odd \in Seq({"read", "write"}), NEW how \in {"read", "write"}
    PROVE  /\ Len(Append(odd, how)) = Len(odd) + 1
           /\ Append(odd, how)[Len(odd) + 1] = how
           /\ Paired(Append(odd, how)) <=>
                \/ Paired(odd)
                \/ how = "read" /\ Len(odd) > 0 /\ odd[Len(odd)] = "read"
<1> DEFINE more == Append(odd, how)
           n == Len(odd)
<1>1. /\ n \in Nat /\ Len(more) = n + 1 /\ more[n + 1] = how
      /\ \A i \in 1 .. n : more[i] = odd[i]
    OBVIOUS
<1>. HIDE DEF more, n
<1>2. ASSUME NEW i \in 1 .. n, more[i] = "read", more[i + 1] = "read"
      PROVE  Paired(odd) \/ (how = "read" /\ n > 0 /\ odd[n] = "read")
    <2>1. CASE i = n
        BY <1>1, <1>2, <2>1
    <2>2. CASE i # n
        BY <1>1, <1>2, <2>2 DEF Paired, n
    <2>. QED
        BY <2>1, <2>2
<1>3. ASSUME NEW i \in 1 .. n - 1, odd[i] = "read", odd[i + 1] = "read"
      PROVE  Paired(more)
    BY <1>1, <1>3 DEF Paired
<1>4. ASSUME how = "read", n > 0, odd[n] = "read" PROVE Paired(more)
    <2>1. n \in 1 .. Len(more) - 1 /\ more[n] = "read" /\ more[n + 1] = "read"
        BY <1>1, <1>4
    <2>. QED
        BY <2>1 DEF Paired
<1>5. Paired(more) => \E i \in 1 .. n : more[i] = "read" /\ more[i + 1] = "read"
    BY <1>1 DEF Paired
<1>6. Paired(odd) => \E i \in 1 .. n - 1 : odd[i] = "read" /\ odd[i + 1] = "read"
    BY DEF Paired, n
<1>. QED
    BY <1>1, <1>2, <1>3, <1>4, <1>5, <1>6 DEF more, n

EarnedInv == ArmedByRead /\ EnableEarned

LEMMA NextEarned ==
    ASSUME MapTypeOK, EarnedInv, [MapNext]_mapVars
    PROVE  EarnedInv'
<1> USE DEF EarnedInv, languageCard
<1>1. ASSUME NEW b0 \in BOOLEAN, NEW b1 \in BOOLEAN, NEW b3 \in BOOLEAN, NEW writing \in BOOLEAN,
             LcSwitch(b0, b1, b3, writing)
      PROVE  EarnedInv'
    <2> DEFINE how == IF writing THEN "write" ELSE "read"
    <2>0. /\ lcRamWrite' = (b0 /\ (lcRamWrite \/ (~writing /\ lcPreWrite)))
          /\ lcPreWrite' = (b0 /\ ~writing)
          /\ lcTrail' = Trail(b0, writing)
        BY <1>1 DEF LcSwitch
    <2>1. CASE b0
        <3>1. lcTrail'.even = lcTrail.even /\ lcTrail'.odd = Append(lcTrail.odd, how)
            BY <1>1, <2>0, <2>1, TrailType DEF LcSwitch
        <3>2. lcTrail.odd \in Seq({"read", "write"}) /\ how \in {"read", "write"}
            BY DEF MapTypeOK
        <3>3. how = "read" <=> ~writing
            OBVIOUS
        <3>. HIDE DEF how
        <3>4. /\ Len(lcTrail'.odd) = Len(lcTrail.odd) + 1
              /\ lcTrail'.odd[Len(lcTrail.odd) + 1] = how
              /\ Paired(lcTrail'.odd) <=>
                   \/ Paired(lcTrail.odd)
                   \/ /\ how = "read" /\ Len(lcTrail.odd) > 0
                      /\ lcTrail.odd[Len(lcTrail.odd)] = "read"
            BY <3>1, <3>2, PairedNext
        <3>5. Len(lcTrail.odd) \in Nat
            BY <3>2
        <3>6. ArmedByRead'
            <4>1. lcPreWrite' <=> how = "read"
                BY <2>0, <2>1, <3>3
            <4>2. Len(lcTrail'.odd) > 0 /\ lcTrail'.odd[Len(lcTrail'.odd)] = how
                BY <3>4, <3>5
            <4>. QED
                BY <4>1, <4>2 DEF ArmedByRead
        <3>7. lcRamWrite <=> (~lcTrail.even \/ Paired(lcTrail.odd))
            BY DEF EnableEarned, Paired
        <3>8. lcRamWrite' <=> (~lcTrail'.even \/ Paired(lcTrail'.odd))
            BY <2>0, <2>1, <3>1, <3>3, <3>4, <3>7 DEF ArmedByRead
        <3>9. EnableEarned'
            BY <3>8 DEF EnableEarned, Paired
        <3>. QED
            BY <3>6, <3>9
    <2>2. CASE ~b0
        <3>1. /\ lcTrail' = [even |-> TRUE, odd |-> <<>>]
              /\ ~lcRamWrite' /\ ~lcPreWrite'
            BY <2>0, <2>2 DEF Trail
        <3>. QED
            BY <3>1 DEF ArmedByRead, EnableEarned
    <2>. QED
        BY <2>1, <2>2
<1>2. CASE UNCHANGED <<lcRamWrite, lcPreWrite, lcTrail>>
    BY <1>2 DEF ArmedByRead, EnableEarned
<1>3. CASE SoftReset
    BY <1>3 DEF SoftReset, ArmedByRead, EnableEarned
<1>. QED
    BY <1>1, <1>2, <1>3
       DEF MapNext, SetSwitch, WriteShadow, WriteSpeed, WriteNewVideo, WriteStateReg, mapVars

\* The card accepts writes only as the reset left it or after two odd reads in
\* a row, and keeps accepting them until an even access.
THEOREM EnableEarnedHolds == MapSpec => []EnableEarned
<1>1. MapInit => EarnedInv
    BY DEF MapInit, EarnedInv, ArmedByRead, EnableEarned
<1>2. MapTypeOK /\ EarnedInv /\ [MapNext]_mapVars => EarnedInv'
    BY NextEarned
<1>3. EarnedInv => EnableEarned
    BY DEF EarnedInv
<1>. QED
    BY <1>1, <1>2, <1>3, MapTypeCorrect, PTL DEF MapSpec

-----------------------------------------------------------------------------
(* STATEREG.                                                               *)

LEMMA RestoreExact ==
    ASSUME MapTypeOK, NEW v \in StateValues, WriteStateReg(v)
    PROVE  StateReg' = v
<1>1. v \subseteq StateBit
    BY InputAssumption
<1>2. /\ \A s \in {"altzp", "page2", "ramrd", "ramwrt"} : sw'[s] = (s \in v)
      /\ lcRamRead' = ("rdrom" \notin v) /\ lcBank2' = ("bank2" \in v)
    BY DEF WriteStateReg, Switch
<1>. QED
    BY <1>1, <1>2 DEF StateReg, StateBit

\* Writing back what was read moves nothing.
LEMMA RestoreSame ==
    ASSUME MapTypeOK, WriteStateReg(StateReg)
    PROVE  UNCHANGED mapVars
<1> DEFINE four == {"altzp", "page2", "ramrd", "ramwrt"}
<1>1. \A s \in four : s \in StateReg <=> sw[s]
    BY DEF StateReg
<1>2. ("rdrom" \in StateReg <=> ~lcRamRead) /\ ("bank2" \in StateReg <=> lcBank2)
    BY DEF StateReg
<1>3. sw' = sw
    <2>1. sw' = [s \in Switch |-> IF s \in four THEN s \in StateReg ELSE sw[s]]
        BY DEF WriteStateReg
    <2>2. sw \in [Switch -> BOOLEAN]
        BY DEF MapTypeOK
    <2>3. \A s \in Switch : (IF s \in four THEN s \in StateReg ELSE sw[s]) = sw[s]
        BY <1>1, <2>2
    <2>4. sw' = [s \in Switch |-> sw[s]]
        BY <2>1, <2>3
    <2>5. sw = [s \in Switch |-> sw[s]]
        BY <2>2
    <2>. QED
        BY <2>4, <2>5
<1>4. lcRamRead' = lcRamRead /\ lcBank2' = lcBank2
    BY <1>2 DEF WriteStateReg, MapTypeOK
<1>. QED
    BY <1>3, <1>4 DEF WriteStateReg, mapVars, languageCard

LEMMA HomesFollow ==
    ASSUME UNCHANGED mapVars, NEW bank, NEW off
    PROVE  /\ ReadHome(bank, off)' = ReadHome(bank, off)
           /\ WriteHome(bank, off)' = WriteHome(bank, off)
BY DEF mapVars, languageCard, fpi, ReadHome, WriteHome, Decode, SlowLcCell, LcCell, SlowSide,
       RedirectedCell, PhysBank01, Bank01Like, Fold, FastCell

\* STATEREG reads back as written, and writing back what it read leaves every
\* address its home.
THEOREM RestoreKeepsMapHolds == MapSpec => RestoreKeepsMap
<1>1. ASSUME MapTypeOK, [MapNext]_mapVars PROVE [RestoreStep]_mapVars
    BY <1>1, RestoreExact, RestoreSame, HomesFollow DEF RestoreStep
<1>. QED
    BY <1>1, MapTypeCorrect, PTL DEF MapSpec, RestoreKeepsMap

-----------------------------------------------------------------------------
(* Induction.                                                              *)

\* A set with 0 and the successor of each of its numbers has every number.
LEMMA SetInduction ==
    ASSUME NEW T, 0 \in T, \A n \in T \cap Nat : n + 1 \in T
    PROVE  Nat \subseteq T
<1> DEFINE R == {p \in Nat \X Nat : p[1] < p[2]}
           U == Nat \ T
<1>1. IsWellFoundedOn(R, Nat)
  BY NatLessThanWellFounded DEF OpToRel
<1>. SUFFICES ASSUME U # {} PROVE FALSE
  OBVIOUS
<1>2. U \subseteq Nat
  OBVIOUS
<1> HIDE DEF U, R
<1>3. PICK x \in U : \A y \in U : ~ (<<y, x>> \in R)
  BY <1>1, <1>2, WFMin
<1>4. x \in Nat /\ x \notin T
  BY DEF U
<1>5. x - 1 \in Nat /\ <<x - 1, x>> \in R
  BY <1>4 DEF R
<1>6. x - 1 \in T
  BY <1>3, <1>5 DEF U
<1>7. (x - 1) + 1 \in T
  BY <1>5, <1>6
<1>. QED
  BY <1>4, <1>7

-----------------------------------------------------------------------------
(* Quotients and remainders.                                               *)

\* A tick is a number of lines and a phase of the line.
LEMMA LinePhase ==
    ASSUME NEW t \in Nat
    PROVE  \E l \in Nat, p \in 0 .. 911 : t = 912 * l + p
<1>1. t \div 912 \in Nat /\ t % 912 \in 0 .. 911 /\ t = 912 * (t \div 912) + (t % 912)
  OBVIOUS
<1>. QED
  BY <1>1

\* And a number of refresh periods and a phase of the period.
LEMMA RefreshPhase ==
    ASSUME NEW t \in Nat
    PROVE  \E q \in Nat, p \in 0 .. 49 : t = 50 * q + p
<1>1. t \div 50 \in Nat /\ t % 50 \in 0 .. 49 /\ t = 50 * (t \div 50) + (t % 50)
  OBVIOUS
<1>. QED
  BY <1>1

LEMMA Constants ==
    /\ kNormalSlowTicks = 14 /\ kLongSlowTicks = 16 /\ kMasterPerLine = 912
    /\ kFastCycleTicks = 5 /\ kRefreshPeriodTicks = 50 /\ kRefreshStart = 45
BY DEF kNormalSlowTicks, kLongSlowTicks, kMasterPerLine, kFastCycleTicks, kRefreshPeriodTicks,
       kRefreshStart

\* Slot s of line l: where it starts, and the slots before it.
SlotStart(l, s) == 912 * l + 14 * s
SlotIndex(l, s) == 65 * l + s

\* A slot starts on the grid, and as many slots begin before it as its index.
LEMMA GridPoint ==
    ASSUME NEW l \in Nat, NEW s \in 0 .. 64
    PROVE  OnGrid(SlotStart(l, s)) /\ CyclesBefore(SlotStart(l, s)) = SlotIndex(l, s)
<1>1. 14 * s \in 0 .. 911 /\ 14 * s <= 896
  OBVIOUS
<1>2. (912 * l + 14 * s) \div 912 = l /\ (912 * l + 14 * s) % 912 = 14 * s
  BY <1>1
<1>3. (14 * s) % 14 = 0 /\ ((14 * s) + 13) \div 14 = s
  OBVIOUS
<1>. QED
  BY <1>1, <1>2, <1>3, Constants DEF OnGrid, CyclesBefore, SlotStart, SlotIndex

-----------------------------------------------------------------------------
(* The two kinds of access.                                                *)

\* A Mega II access ends on the grid, one Mega II cycle later.
LEMMA SlowCycle ==
    ASSUME NEW t \in Nat
    PROVE  /\ slowCycleTicks(t) \in Nat
           /\ OnGrid(t + slowCycleTicks(t))
           /\ CyclesBefore(t + slowCycleTicks(t)) = CyclesBefore(t) + 1
<1>1. PICK l \in Nat, p \in 0 .. 911 : t = 912 * l + p
  BY LinePhase
<1>2. t \div 912 = l /\ t % 912 = p
  BY <1>1
<1>3. CASE p <= 896
  <2> DEFINE s == (p + 13) \div 14
  <2>1. s \in 0 .. 64 /\ p <= 14 * s
    BY <1>3
  <2> HIDE DEF s
  <2>2. nextSlowCycleStart(t) = 912 * l + 14 * s
    BY <1>2, <1>3, <2>1, Constants DEF nextSlowCycleStart, s
  <2>3. CyclesBefore(t) = 65 * l + s
    BY <1>2, <1>3, <2>1, Constants DEF CyclesBefore, s
  <2>4. (912 * l + 14 * s) % 912 = 14 * s
    BY <2>1
  <2>5. CASE s = 64
    <3>1. slowCycleTicks(t) = (14 * s - p) + 16
      BY <1>1, <2>1, <2>2, <2>4, <2>5, Constants DEF slowCycleTicks, slowCycleWidth
    <3>2. t + slowCycleTicks(t) = SlotStart(l + 1, 0)
      BY <1>1, <2>5, <3>1 DEF SlotStart
    <3>3. l + 1 \in Nat /\ 0 \in 0 .. 64
      OBVIOUS
    <3>4. OnGrid(SlotStart(l + 1, 0)) /\ CyclesBefore(SlotStart(l + 1, 0)) = SlotIndex(l + 1, 0)
      BY <3>3, GridPoint, Zenon
    <3>. QED
      BY <2>1, <2>3, <2>5, <3>1, <3>2, <3>4 DEF SlotIndex
  <2>6. CASE s # 64
    <3>1. slowCycleTicks(t) = (14 * s - p) + 14
      BY <1>1, <2>1, <2>2, <2>4, <2>6, Constants DEF slowCycleTicks, slowCycleWidth
    <3>2. s + 1 \in 0 .. 64
      BY <2>1, <2>6
    <3>3. t + slowCycleTicks(t) = SlotStart(l, s + 1)
      BY <1>1, <2>1, <3>1 DEF SlotStart
    <3>4. OnGrid(SlotStart(l, s + 1)) /\ CyclesBefore(SlotStart(l, s + 1)) = SlotIndex(l, s + 1)
      BY <3>2, GridPoint, Zenon
    <3>. QED
      BY <2>1, <2>3, <3>1, <3>3, <3>4 DEF SlotIndex
  <2>. QED
    BY <2>5, <2>6
<1>4. CASE p > 896
  <2>1. nextSlowCycleStart(t) = 912 * (l + 1)
    BY <1>2, <1>4, Constants DEF nextSlowCycleStart
  <2>2. CyclesBefore(t) = 65 * l + 65
    BY <1>2, <1>4, Constants DEF CyclesBefore
  <2>3. (912 * (l + 1) + 0) % 912 = 0
    OBVIOUS
  <2>4. slowCycleTicks(t) = (912 - p) + 14
    BY <1>1, <2>1, <2>3, Constants DEF slowCycleTicks, slowCycleWidth
  <2>5. t + slowCycleTicks(t) = SlotStart(l + 1, 1)
    BY <1>1, <2>4 DEF SlotStart
  <2>6. OnGrid(SlotStart(l + 1, 1)) /\ CyclesBefore(SlotStart(l + 1, 1)) = SlotIndex(l + 1, 1)
    <3>1. l + 1 \in Nat /\ 1 \in 0 .. 64
      OBVIOUS
    <3>. QED
      BY <3>1, GridPoint, ZenonT(60)
  <2>. QED
    BY <2>2, <2>4, <2>5, <2>6 DEF SlotIndex
<1>. QED
  BY <1>3, <1>4

\* A fast RAM access takes five ticks free of refresh, the last of its own.
LEMMA DramCycle ==
    ASSUME NEW t \in Nat
    PROVE  /\ fastDramCycleTicks(t) \in Nat
           /\ UsableBefore(t + fastDramCycleTicks(t)) = UsableBefore(t) + 5
           /\ ~Refreshing((t + fastDramCycleTicks(t)) - 1)
<1>1. PICK q \in Nat, p \in 0 .. 49 : t = 50 * q + p
  BY RefreshPhase
<1>2. t \div 50 = q /\ t % 50 = p
  BY <1>1
<1>3. ASSUME NEW k \in Nat, NEW r \in 1 .. 45
      PROVE  UsableBefore(50 * k + r) = 45 * k + r /\ ~Refreshing((50 * k + r) - 1)
  <2>1. (50 * k + r) \div 50 = k /\ (50 * k + r) % 50 = r
    OBVIOUS
  <2>2. (50 * k + (r - 1)) % 50 = r - 1
    OBVIOUS
  <2>. QED
    BY <2>1, <2>2 DEF UsableBefore, Refreshing
<1>4. UsableBefore(t) = 45 * q + (IF p > 45 THEN 45 ELSE p)
  BY <1>2 DEF UsableBefore
<1>5. CASE p >= 45
  <2>1. fastDramCycleTicks(t) = (50 - p) + 5 /\ t + fastDramCycleTicks(t) = 50 * (q + 1) + 5
    BY <1>1, <1>2, <1>5, Constants DEF fastDramCycleTicks
  <2>2. q + 1 \in Nat /\ 5 \in 1 .. 45
    OBVIOUS
  <2>3. UsableBefore(50 * (q + 1) + 5) = 45 * (q + 1) + 5 /\ ~Refreshing((50 * (q + 1) + 5) - 1)
    BY <1>3, <2>2, Zenon
  <2>. QED
    BY <1>4, <1>5, <2>1, <2>3
<1>6. CASE p > 40 /\ p < 45
  <2>1. fastDramCycleTicks(t) = 10 /\ t + fastDramCycleTicks(t) = 50 * (q + 1) + (p - 40)
    BY <1>1, <1>2, <1>6, Constants DEF fastDramCycleTicks
  <2>2. q + 1 \in Nat /\ p - 40 \in 1 .. 45
    BY <1>6
  <2>3. /\ UsableBefore(50 * (q + 1) + (p - 40)) = 45 * (q + 1) + (p - 40)
        /\ ~Refreshing((50 * (q + 1) + (p - 40)) - 1)
    BY <1>3, <2>2, Zenon
  <2>. QED
    BY <1>4, <1>6, <2>1, <2>3
<1>7. CASE p <= 40
  <2>1. fastDramCycleTicks(t) = 5 /\ t + fastDramCycleTicks(t) = 50 * q + (p + 5)
    BY <1>1, <1>2, <1>7, Constants DEF fastDramCycleTicks
  <2>2. p + 5 \in 1 .. 45
    BY <1>7
  <2>3. UsableBefore(50 * q + (p + 5)) = 45 * q + (p + 5) /\ ~Refreshing((50 * q + (p + 5)) - 1)
    BY <1>3, <2>2, Zenon
  <2>. QED
    BY <1>4, <1>7, <2>1, <2>3
<1>. QED
  BY <1>5, <1>6, <1>7

\* What a charge adds is a number of ticks.
LEMMA TicksType == ASSUME NEW kind, NEW t \in Nat PROVE Ticks(kind, t) \in Nat
<1>1. CASE kind = "slow"
  BY <1>1, SlowCycle DEF Ticks
<1>2. CASE kind = "dram"
  BY <1>2, DramCycle DEF Ticks
<1>3. CASE kind \notin {"slow", "dram"}
  BY <1>3, Constants DEF Ticks
<1>. QED
  BY <1>1, <1>2, <1>3

-----------------------------------------------------------------------------
(* The cycles of a slow instruction.                                       *)

\* What the loop of slowCyclesTicks keeps in its ticks for n cycles from t.
Loop(t, n, f) ==
    [k \in 0 .. n |-> IF k = 0 THEN 0 ELSE f[k - 1] + slowCycleTicks(t + f[k - 1])]

\* There is such a function,
LEMMA LoopExists ==
    ASSUME NEW t \in Nat, NEW n \in Nat
    PROVE  \E f : f = Loop(t, n, f)
<1> DEFINE T == {m \in Nat : \E f : f = Loop(t, m, f)}
<1>1. 0 \in T
  <2> DEFINE g == [k \in 0 .. 0 |-> 0]
  <2>1. g = Loop(t, 0, g)
    BY DEF Loop
  <2>. QED
    BY <2>1
<1>2. ASSUME NEW m \in T \cap Nat PROVE m + 1 \in T
  <2>1. PICK f : f = Loop(t, m, f)
    BY <1>2
  <2> DEFINE g == [k \in 0 .. m + 1 |->
                     IF k <= m THEN f[k] ELSE f[m] + slowCycleTicks(t + f[m])]
  <2>2. ASSUME NEW k \in 0 .. m + 1
        PROVE  g[k] = IF k = 0 THEN 0 ELSE g[k - 1] + slowCycleTicks(t + g[k - 1])
    <3>1. CASE k = 0
      <4>1. f[0] = 0
        BY <2>1 DEF Loop
      <4>. QED
        BY <3>1, <4>1
    <3>2. CASE k \in 1 .. m
      <4>1. f[k] = f[k - 1] + slowCycleTicks(t + f[k - 1])
        <5>1. k \in 0 .. m /\ k # 0
          BY <3>2
        <5>. QED
          BY <2>1, <5>1 DEF Loop
      <4>2. g[k] = f[k] /\ g[k - 1] = f[k - 1]
        BY <3>2
      <4>. QED
        BY <3>2, <4>1, <4>2
    <3>3. CASE k = m + 1
      <4>1. g[k] = f[m] + slowCycleTicks(t + f[m]) /\ g[k - 1] = f[m]
        BY <3>3
      <4>. QED
        BY <3>3, <4>1
    <3>. QED
      BY <3>1, <3>2, <3>3
  <2>3. g = Loop(t, m + 1, g)
    <3> HIDE DEF g
    <3>1. g = [k \in 0 .. m + 1 |-> g[k]]
      BY DEF g
    <3>. QED
      BY <2>2, <3>1 DEF Loop
  <2>4. m + 1 \in Nat
    OBVIOUS
  <2>. QED
    BY <2>3, <2>4
<1>. HIDE DEF T
<1>3. Nat \subseteq T
  BY <1>1, <1>2, SetInduction
<1>. QED
  BY <1>3 DEF T

\* and after k turns it has k whole Mega II cycles.
LEMMA LoopCounts ==
    ASSUME NEW t \in Nat, NEW n \in Nat, NEW f, f = Loop(t, n, f), NEW k \in 0 .. n
    PROVE  /\ f[k] \in Nat
           /\ CyclesBefore(t + f[k]) = CyclesBefore(t) + k
           /\ k > 0 => OnGrid(t + f[k])
<1> DEFINE P(m) == /\ f[m] \in Nat
                   /\ CyclesBefore(t + f[m]) = CyclesBefore(t) + m
                   /\ m > 0 => OnGrid(t + f[m])
           T == {m \in Nat : m <= n => P(m)}
<1>1. 0 \in T
  <2>1. f[0] = 0
    BY DEF Loop
  <2>2. CyclesBefore(t) \in Int
    BY Constants DEF CyclesBefore
  <2>. QED
    BY <2>1, <2>2
<1>2. ASSUME NEW m \in T \cap Nat PROVE m + 1 \in T
  <2>1. m + 1 \in Nat
    OBVIOUS
  <2>2. ASSUME m + 1 <= n PROVE P(m + 1)
    <3>1. f[m] \in Nat /\ CyclesBefore(t + f[m]) = CyclesBefore(t) + m
      BY <1>2, <2>2
    <3> DEFINE u == t + f[m]
    <3>2. u \in Nat
      BY <3>1
    <3>3. f[m + 1] = f[m] + slowCycleTicks(u)
      <4>1. m + 1 \in 0 .. n /\ m + 1 # 0 /\ (m + 1) - 1 = m
        BY <2>2
      <4>. QED
        BY <4>1 DEF Loop
    <3>. HIDE DEF u
    <3>4. /\ slowCycleTicks(u) \in Nat
          /\ OnGrid(u + slowCycleTicks(u))
          /\ CyclesBefore(u + slowCycleTicks(u)) = CyclesBefore(u) + 1
      BY <3>2, SlowCycle
    <3>5. t + f[m + 1] = u + slowCycleTicks(u)
      BY <3>1, <3>3, <3>4 DEF u
    <3>6. CyclesBefore(t) \in Int
      BY Constants DEF CyclesBefore
    <3>7. CyclesBefore(u) = CyclesBefore(t) + m
      BY <3>1 DEF u
    <3>. QED
      BY <3>1, <3>3, <3>4, <3>5, <3>6, <3>7
  <2>. QED
    BY <2>1, <2>2
<1>. HIDE DEF T
<1>3. Nat \subseteq T
  BY <1>1, <1>2, SetInduction
<1>4. k \in Nat /\ k <= n
  OBVIOUS
<1>. QED
  BY <1>3, <1>4 DEF T

\* A slow instruction of n cycles takes n whole Mega II cycles.
LEMMA SlowCycles ==
    ASSUME NEW t \in Nat, NEW n \in Nat
    PROVE  /\ slowCyclesTicks(t, n) \in Nat
           /\ CyclesBefore(t + slowCyclesTicks(t, n)) = CyclesBefore(t) + n
           /\ n > 0 => OnGrid(t + slowCyclesTicks(t, n))
<1> DEFINE g == CHOOSE f : f = Loop(t, n, f)
<1>1. slowCyclesTicks(t, n) = g[n]
  BY DEF slowCyclesTicks, Loop
<1>2. g = Loop(t, n, g)
  BY LoopExists
<1>3. n \in 0 .. n
  OBVIOUS
<1>. HIDE DEF g
<1>. QED
  BY <1>1, <1>2, <1>3, LoopCounts

-----------------------------------------------------------------------------
(* The invariant: what tick() will bill agrees with where the bus is.      *)

TypeInv ==
    /\ clock \in Nat /\ cycles \in Nat /\ busCursor \in Nat /\ busPenalty \in Nat
    /\ speedFast \in BOOLEAN /\ busActive \in BOOLEAN /\ startedFast \in BOOLEAN

\* Between instructions nothing is charged; in a fast one, before a vector is
\* pulled or a block copied, the cursor is the bill so far; in a slow one the
\* cursor stays.
CursorInv ==
    /\ ~busActive => busCursor = 0 /\ busPenalty = 0 /\ cycles = 0 /\ ending = "no"
    /\ busActive /\ startedFast /\ ending = "no" => busCursor = 5 * cycles + busPenalty
    /\ busActive /\ ~startedFast => busCursor = 0 /\ busPenalty = 0

IInv == TypeInv /\ CursorInv

\* A slow access is never billed below the five ticks of a fast cycle.
LEMMA TicksAtLeastFive == ASSUME NEW kind, NEW t \in Nat PROVE Ticks(kind, t) >= 5
<1>1. slowCycleTicks(t) >= 5
  <2> DEFINE l == t \div 912
             p == t % 912
  <2>1. l \in Nat /\ p \in 0 .. 911 /\ t = 912 * l + p
    OBVIOUS
  <2>2. nextSlowCycleStart(t) \in Nat /\ nextSlowCycleStart(t) >= t
    <3>1. CASE p <= 896
      <4>1. ((p + 13) \div 14) * 14 >= p /\ ((p + 13) \div 14) \in Nat
        BY <2>1
      <4>2. nextSlowCycleStart(t) = l * 912 + ((p + 13) \div 14) * 14
        BY <3>1, Constants DEF nextSlowCycleStart
      <4>. HIDE DEF l, p
      <4>. QED
        BY <2>1, <4>1, <4>2
    <3>2. CASE p > 896
      <4>1. nextSlowCycleStart(t) = (l + 1) * 912
        BY <3>2, Constants DEF nextSlowCycleStart
      <4>. HIDE DEF l, p
      <4>. QED
        BY <2>1, <4>1
    <3>. HIDE DEF p
    <3>. QED
      BY <2>1, <3>1, <3>2
  <2>. QED
    BY <2>2, Constants DEF slowCycleTicks, slowCycleWidth
<1>2. fastDramCycleTicks(t) >= 5
  BY Constants DEF fastDramCycleTicks
<1>. QED
  BY <1>1, <1>2, Constants DEF Ticks

\* A charge keeps the cursor and the bill apart by the same amount.
LEMMA ChargeKeeps ==
    ASSUME TypeInv, NEW kind, Charge(kind)
    PROVE  /\ busActive' = TRUE /\ startedFast' = Fast
           /\ busCursor' \in Nat /\ busPenalty' \in Nat
           /\ Fast => /\ busCursor' = busCursor + Ticks(kind, clock + busCursor)
                      /\ busPenalty' = busPenalty + (Ticks(kind, clock + busCursor) - 5)
           /\ ~Fast => busCursor' = busCursor /\ busPenalty' = busPenalty
<1>1. clock + busCursor \in Nat /\ busCursor \in Nat /\ busPenalty \in Nat
  BY DEF TypeInv
<1> DEFINE ticks == Ticks(kind, clock + busCursor)
<1>2. ticks \in Nat /\ ticks >= 5
  BY <1>1, TicksType, TicksAtLeastFive
<1>3. /\ busActive' = TRUE /\ startedFast' = Fast
      /\ Fast => busCursor' = busCursor + ticks /\ busPenalty' = busPenalty + (ticks - 5)
      /\ ~Fast => busCursor' = busCursor /\ busPenalty' = busPenalty
  BY Constants DEF Charge, Begun
<1>. HIDE DEF ticks
<1>4. Fast \/ ~Fast
  OBVIOUS
<1>5. busCursor' \in Nat /\ busPenalty' \in Nat
  BY <1>1, <1>2, <1>3, <1>4
<1>. QED
  BY <1>3, <1>5 DEF ticks

LEMMA InitIInv == BusInit => IInv
<1> SUFFICES ASSUME BusInit PROVE IInv
  OBVIOUS
<1>1. clock \in Nat
  BY BusAssumption DEF BusInit
<1>2. TypeInv
  BY <1>1 DEF BusInit, TypeInv
<1>3. CursorInv
  BY DEF BusInit, CursorInv
<1>. QED
  BY <1>2, <1>3 DEF IInv

\* What an instruction's cycle with a charge does to the invariant.
LEMMA ChargedCycle ==
    ASSUME IInv, NEW kind, Charge(kind), Cycle(1), speedFast' \in BOOLEAN
    PROVE  IInv'
<1>1. TypeInv /\ CursorInv
  BY DEF IInv
<1>2. /\ busActive' = TRUE /\ startedFast' = Fast
      /\ busCursor' \in Nat /\ busPenalty' \in Nat
      /\ Fast => /\ busCursor' = busCursor + Ticks(kind, clock + busCursor)
                 /\ busPenalty' = busPenalty + (Ticks(kind, clock + busCursor) - 5)
      /\ ~Fast => busCursor' = busCursor /\ busPenalty' = busPenalty
  BY <1>1, ChargeKeeps
<1>3. cycles' = cycles + 1 /\ ending = "no" /\ ending' = ending /\ clock' = clock
  BY DEF Cycle
<1>4. Fast \in BOOLEAN
  BY <1>1 DEF Fast, TypeInv
<1>5. TypeInv'
  BY <1>1, <1>2, <1>3, <1>4 DEF TypeInv
<1>6. CASE Fast
  <2> DEFINE ticks == Ticks(kind, clock + busCursor)
  <2>1. ticks \in Nat
    BY <1>1, TicksType DEF TypeInv
  <2>2. busCursor = 5 * cycles + busPenalty
    BY <1>1, <1>3, <1>6 DEF CursorInv, TypeInv, Fast
  <2>. HIDE DEF ticks
  <2>3. busCursor' = busCursor + ticks /\ busPenalty' = busPenalty + (ticks - 5)
    BY <1>2, <1>6 DEF ticks
  <2>4. busCursor' = 5 * cycles' + busPenalty'
    BY <1>1, <1>3, <2>1, <2>2, <2>3 DEF TypeInv
  <2>. QED
    BY <1>2, <1>5, <1>6, <2>4 DEF IInv, CursorInv
<1>7. CASE ~Fast
  <2>1. busCursor = 0 /\ busPenalty = 0
    BY <1>1, <1>7 DEF CursorInv, TypeInv, Fast
  <2>. QED
    BY <1>2, <1>5, <1>7, <2>1 DEF IInv, CursorInv
<1>. QED
  BY <1>6, <1>7

LEMMA NextIInv == IInv /\ [BusNext]_busVars => IInv'
<1> SUFFICES ASSUME IInv, [BusNext]_busVars PROVE IInv'
  OBVIOUS
<1> USE DEF IInv
<1>1. ASSUME NEW region \in Region, NEW writing \in BOOLEAN, Access(region, writing)
      PROVE  IInv'
  BY <1>1, ChargedCycle DEF Access, TypeInv
<1>2. ASSUME NEW region \in Region, NEW high \in BOOLEAN, StoreSpeed(region, high)
      PROVE  IInv'
  BY <1>2, ChargedCycle DEF StoreSpeed
<1>3. ASSUME NEW fast \in BOOLEAN, Motor(fast) PROVE IInv'
  BY <1>3, ChargedCycle DEF Motor
<1>4. ASSUME NEW n \in 1 .. 2, Internal(n) PROVE IInv'
  <2>1. /\ cycles' = cycles + n /\ clock' = clock /\ ending = "no" /\ ending' = ending
        /\ busActive' = TRUE /\ startedFast' = Fast /\ busPenalty' = busPenalty
        /\ busCursor' = IF Fast THEN busCursor + n * 5 ELSE busCursor
        /\ speedFast' = speedFast
    BY <1>4, Constants DEF Internal, Cycle, Begun
  <2>2. Fast \in BOOLEAN
    BY DEF Fast, TypeInv
  <2>3. TypeInv'
    BY <2>1, <2>2 DEF TypeInv
  <2>4. CASE Fast
    <3>1. busCursor = 5 * cycles + busPenalty
      BY <2>1, <2>4 DEF CursorInv, TypeInv, Fast
    <3>. QED
      BY <2>1, <2>3, <2>4, <3>1 DEF CursorInv, TypeInv
  <2>5. CASE ~Fast
    <3>1. busCursor = 0 /\ busPenalty = 0
      BY <2>5 DEF CursorInv, TypeInv, Fast
    <3>. QED
      BY <2>1, <2>3, <2>5, <3>1 DEF CursorInv
  <2>. QED
    BY <2>4, <2>5
<1>5. CASE VectorPull
  BY <1>5 DEF VectorPull, bus, TypeInv, CursorInv
<1>6. ASSUME NEW region \in Region, NEW writing \in BOOLEAN, Copy(region, writing)
      PROVE  IInv'
  <2>1. /\ busActive' = TRUE /\ startedFast' = Fast
        /\ busCursor' \in Nat /\ busPenalty' \in Nat
        /\ ~Fast => busCursor' = busCursor /\ busPenalty' = busPenalty
    BY <1>6, ChargeKeeps DEF Copy
  <2>2. /\ clock' = clock /\ cycles' = cycles /\ speedFast' = speedFast /\ cycles >= 2
        /\ ending' = "copies"
    BY <1>6 DEF Copy
  <2>3. busActive /\ Fast = startedFast
    BY <2>2 DEF CursorInv, TypeInv, Fast
  <2>4. TypeInv'
    BY <2>1, <2>2, <2>3 DEF TypeInv
  <2>. QED
    BY <2>1, <2>2, <2>3, <2>4 DEF CursorInv, TypeInv
<1>7. CASE Tick
  <2>1. /\ busActive' = FALSE /\ startedFast' = FALSE /\ busCursor' = 0 /\ busPenalty' = 0
        /\ cycles' = 0 /\ ending' = "no" /\ speedFast' = speedFast
    BY <1>7 DEF Tick
  <2>2. slowCyclesTicks(clock, cycles) \in Nat
    BY SlowCycles DEF TypeInv
  <2>3. clock' \in Nat
    BY <1>7, <2>2, Constants DEF Tick, TypeInv
  <2>. QED
    BY <2>1, <2>3 DEF TypeInv, CursorInv
<1>8. CASE SpeedReset
  BY <1>8 DEF SpeedReset, bus, TypeInv, CursorInv
<1>9. CASE UNCHANGED busVars
  BY <1>9 DEF busVars, bus, TypeInv, CursorInv
<1>. HIDE DEF IInv
<1>. QED
  BY <1>1, <1>2, <1>3, <1>4, <1>5, <1>6, <1>7, <1>8, <1>9 DEF BusNext

\* The cursor of a fast instruction agrees with what tick() will bill.
THEOREM CursorBilled == BusSpec => []IInv
<1>. QED
  BY InitIInv, NextIInv, PTL DEF BusSpec

-----------------------------------------------------------------------------
(* The phase of every access.                                              *)

LEMMA StepPhased ==
    ASSUME IInv, NEW region \in Region, NEW writing \in BOOLEAN
    PROVE  PhasedStep(region, writing)
<1> SUFFICES ASSUME Access(region, writing), Fast
             PROVE  CASE Kind(region, writing) = "slow" ->
                           OnGrid(Moment') /\ CyclesBefore(Moment') = CyclesBefore(Moment) + 1
                      [] Kind(region, writing) = "dram" ->
                           /\ UsableBefore(Moment') = UsableBefore(Moment) + 5
                           /\ ~Refreshing(Moment' - 1)
                      [] OTHER -> Moment' = Moment + 5
  BY DEF PhasedStep
<1> DEFINE kind == Kind(region, writing)
           ticks == Ticks(kind, Moment)
<1>1. TypeInv /\ CursorInv
  BY DEF IInv
<1>2. cycles' = cycles + 1 /\ clock' = clock /\ ending = "no" /\ Charge(kind)
  BY DEF Access, Cycle
<1>3. busCursor = 5 * cycles + busPenalty
  BY <1>1, <1>2 DEF CursorInv, TypeInv, Fast
<1>4. Moment = clock + busCursor /\ Moment \in Nat
  BY <1>1, <1>3, Constants DEF Moment, TypeInv
<1>5. busPenalty' = busPenalty + (ticks - 5)
  BY <1>1, <1>2, <1>4, ChargeKeeps
<1>6. ticks \in Nat
  BY <1>4, TicksType
<1>. HIDE DEF ticks, kind
<1>7. Moment' = Moment + ticks
  BY <1>1, <1>2, <1>5, <1>6, Constants DEF Moment, TypeInv
<1>8. CASE kind = "slow"
  <2>1. ticks = slowCycleTicks(Moment)
    BY <1>8 DEF ticks, Ticks
  <2>2. /\ OnGrid(Moment + slowCycleTicks(Moment))
        /\ CyclesBefore(Moment + slowCycleTicks(Moment)) = CyclesBefore(Moment) + 1
    BY <1>4, SlowCycle
  <2>. QED
    BY <1>7, <1>8, <2>1, <2>2 DEF kind
<1>9. CASE kind = "dram"
  <2>1. ticks = fastDramCycleTicks(Moment)
    BY <1>9 DEF ticks, Ticks
  <2>2. /\ UsableBefore(Moment + fastDramCycleTicks(Moment)) = UsableBefore(Moment) + 5
        /\ ~Refreshing((Moment + fastDramCycleTicks(Moment)) - 1)
    BY <1>4, DramCycle
  <2>. QED
    BY <1>7, <1>9, <2>1, <2>2 DEF kind
<1>10. CASE kind \notin {"slow", "dram"}
  <2>1. ticks = 5
    BY <1>10, Constants DEF ticks, Ticks
  <2>. QED
    BY <1>7, <1>10, <2>1 DEF kind
<1>. QED
  BY <1>8, <1>9, <1>10

\* Whatever the instructions are made of, each access of a fast one is in phase
\* with the Mega II or the refresh at the time it will be billed for.
THEOREM AccessesPhasedTheorem == BusSpec => AccessesPhased
<1>1. IInv => \A region \in Region, writing \in BOOLEAN : PhasedStep(region, writing)
  BY StepPhased
<1>. QED
  BY <1>1, CursorBilled, PTL DEF AccessesPhased

\* However long, a slow instruction takes as many whole Mega II cycles as it
\* has cycles and leaves the clock on the grid.
THEOREM SlowOnGridTheorem == BusSpec => SlowOnGrid
<1>1. ASSUME IInv, Tick, ~Fast
      PROVE  OnGrid(clock') /\ CyclesBefore(clock') = CyclesBefore(clock) + cycles
  <2>1. clock \in Nat /\ cycles \in Nat /\ cycles > 0
    BY <1>1 DEF IInv, TypeInv, Tick
  <2>2. busPenalty = 0
    BY <1>1, <2>1 DEF IInv, TypeInv, CursorInv, Fast
  <2>3. slowCyclesTicks(clock, cycles) \in Nat
    BY <2>1, SlowCycles
  <2>4. clock' = clock + slowCyclesTicks(clock, cycles)
    BY <1>1, <2>1, <2>2, <2>3 DEF Tick
  <2>. QED
    BY <2>1, <2>4, SlowCycles
<1>2. IInv => (Tick /\ ~Fast =>
                OnGrid(clock') /\ CyclesBefore(clock') = CyclesBefore(clock) + cycles)
  BY <1>1
<1>. QED
  BY <1>2, CursorBilled, PTL DEF SlowOnGrid

=============================================================================

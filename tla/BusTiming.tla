------------------------------ MODULE BusTiming ------------------------------
(***************************************************************************)
(* What an instruction costs in master ticks: every bus cycle is charged   *)
(* against the Mega II's 14-tick grid and the refresh window of the fast   *)
(* RAM as it happens, on a cursor from the instruction's start, and tick() *)
(* bills the instruction as a whole (Mega2Timing.h; the charges and tick() *)
(* of IIgsMemory.cpp; the cycle helpers of CPU65816.cpp).                  *)
(***************************************************************************)
EXTENDS Integers

CONSTANTS
    Starts,         \* bound: clocks the machine is powered on or resumed at
    Span,           \* bound: ticks past such a clock in which instructions begin
    MaxCycles,      \* bound: cycles of an instruction
    CopyTicks       \* bound: ticks into an instruction in which a block call copies

ASSUME BusAssumption ==
    Starts \subseteq Nat /\ Span \in Nat /\ MaxCycles \in Nat /\ CopyTicks \in Nat

VARIABLES
    clock,          \* videoCycles_: master ticks at the instruction's start
    speedFast,      \* speedFast(): $C036 and the motor detection of slot 6
    busActive,      \* busAccessActive_: the instruction has had a cycle
    startedFast,    \* busStartedFast_: the speed it began with
    busCursor,      \* busCursorMaster_: where in the instruction the bus is
    busPenalty,     \* busPenaltyMaster_: ticks to bill beyond five a cycle
    cycles,         \* cycles_ of the processor
    ending          \* "no", or what the instruction ends with: "pulls", "copies"

bus == <<busActive, startedFast, busCursor, busPenalty>>
busVars == <<clock, speedFast, bus, cycles, ending>>

kNormalSlowTicks == 14
kLongSlowTicks == 16
kMasterPerLine == 64 * kNormalSlowTicks + kLongSlowTicks
kFastCycleTicks == 5
kRefreshPeriodTicks == 50
kRefreshStart == 45

BusInit ==
    /\ clock \in Starts /\ speedFast \in BOOLEAN
    /\ busActive = FALSE /\ startedFast = FALSE /\ busCursor = 0 /\ busPenalty = 0
    /\ cycles = 0 /\ ending = "no"

-----------------------------------------------------------------------------
(* Mega2Timing.h.                                                          *)

\* The first PH0 boundary at or after t: 64 regular slots, then the long one.
nextSlowCycleStart(t) ==
    LET line == t \div kMasterPerLine
        phase == t % kMasterPerLine
    IN  IF phase <= 64 * kNormalSlowTicks
        THEN line * kMasterPerLine
               + ((phase + kNormalSlowTicks - 1) \div kNormalSlowTicks) * kNormalSlowTicks
        ELSE (line + 1) * kMasterPerLine

\* Mutant of slowCycleWidth: no slot is long.
RegularWidth(start) == kNormalSlowTicks

slowCycleWidth(start) ==
    IF start % kMasterPerLine = 64 * kNormalSlowTicks THEN kLongSlowTicks ELSE kNormalSlowTicks

slowCycleTicks(t) ==
    LET start == nextSlowCycleStart(t) IN (start - t) + slowCycleWidth(start)

\* The first n cycles of a slow instruction that begins at t.
slowCyclesTicks(t, n) ==
    LET ticks[k \in 0 .. n] == IF k = 0 THEN 0 ELSE ticks[k - 1] + slowCycleTicks(t + ticks[k - 1])
    IN  ticks[n]

\* A refresh in the way stretches the access by what it takes.
fastDramCycleTicks(t) ==
    LET phase == t % kRefreshPeriodTicks
    IN  IF phase >= kRefreshStart THEN (kRefreshPeriodTicks - phase) + kFastCycleTicks
        ELSE IF phase + kFastCycleTicks > kRefreshStart
        THEN kFastCycleTicks + (kRefreshPeriodTicks - kRefreshStart)
        ELSE kFastCycleTicks

-----------------------------------------------------------------------------
(* Charging a cycle.                                                       *)

\* read8(), write8(), chargeIo(): "fpiread" are $C02D and $C068, "side" is
\* everything else of the Mega II, "shadowed" a screen page in fast RAM.
Region == {"rom", "unmapped", "fpi", "fpiread", "ram", "shadowed", "side"}

Kind(region, writing) ==
    CASE region \in {"rom", "unmapped", "fpi"} -> "plain"
      [] region = "fpiread" -> IF writing THEN "slow" ELSE "plain"
      [] region = "shadowed" -> IF writing THEN "slow" ELSE "dram"
      [] region = "ram" -> "dram"
      [] OTHER -> "slow"

Ticks(kind, t) ==
    CASE kind = "slow" -> slowCycleTicks(t)
      [] kind = "dram" -> fastDramCycleTicks(t)
      [] OTHER -> kFastCycleTicks

\* beginBusAccess(): the first cycle's speed is the instruction's.
Fast == IF busActive THEN startedFast ELSE speedFast
Begun == busActive' = TRUE /\ startedFast' = Fast

\* chargeFast(), chargeSlow(): a slow instruction is left to tick().
Charge(kind) ==
    LET ticks == Ticks(kind, clock + busCursor)
    IN  /\ Begun
        /\ IF Fast
           THEN /\ busCursor' = busCursor + ticks
                /\ busPenalty' = busPenalty + (ticks - kFastCycleTicks)
           ELSE UNCHANGED <<busCursor, busPenalty>>

\* An instruction's next cycle.
Cycle(n) ==
    /\ cycles' = cycles + n
    /\ ending = "no" /\ cycles + n <= MaxCycles
    /\ cycles > 0 \/ \E s \in Starts : clock \in s .. s + Span
    /\ UNCHANGED <<clock, ending>>

\* rd(), wr(), fetch(): any cycle with an address on the bus.
Access(region, writing) ==
    /\ Cycle(1)
    /\ Charge(Kind(region, writing))
    /\ UNCHANGED speedFast

\* A write to $C036, in bank $00 or through $E0: charged, then effective.
StoreSpeed(region, high) ==
    /\ region \in {"fpi", "side"}
    /\ Cycle(1)
    /\ Charge(Kind(region, TRUE))
    /\ speedFast' = high

\* $C0E8, $C0E9: the 5.25" motor the speed register watches.
Motor(fast) ==
    /\ Cycle(1)
    /\ Charge("slow")
    /\ speedFast' = fast

\* Mutant of Internal: internal cycles leave the bus where it is.
InternalUncharged(n) ==
    /\ Cycle(n)
    /\ Begun
    /\ UNCHANGED <<busCursor, busPenalty, speedFast>>

\* io(), ioAt(), haltCycle(): cycles without an access.
Internal(n) ==
    /\ Cycle(n)
    /\ Begun
    /\ busCursor' = IF Fast THEN busCursor + n * kFastCycleTicks ELSE busCursor
    /\ UNCHANGED <<busPenalty, speedFast>>

\* vectorPull(): the last two cycles of an interrupt read the ROM past the bus.
VectorPull ==
    /\ busActive /\ ending \in {"no", "pulls"} /\ cycles < MaxCycles
    /\ cycles' = cycles + 1 /\ ending' = "pulls"
    /\ UNCHANGED <<clock, speedFast, bus>>

\* smartportTrap(): the accesses of the host's block call are charged, and are
\* cycles of no instruction.
Copy(region, writing) ==
    /\ cycles >= 2 /\ ending \in {"no", "copies"}
    /\ busCursor <= CopyTicks
    /\ Charge(Kind(region, writing))
    /\ ending' = "copies"
    /\ UNCHANGED <<clock, speedFast, cycles>>

-----------------------------------------------------------------------------
(* Billing.                                                                *)

\* tick() after an instruction, its timing part.
Tick ==
    /\ cycles > 0
    /\ clock' = clock + busPenalty
                  + (IF Fast THEN cycles * kFastCycleTicks ELSE slowCyclesTicks(clock, cycles))
    /\ busActive' = FALSE /\ startedFast' = FALSE /\ busCursor' = 0 /\ busPenalty' = 0
    /\ cycles' = 0 /\ ending' = "no"
    /\ UNCHANGED speedFast

\* softReset() between instructions: the clock goes on.
SpeedReset ==
    /\ cycles = 0
    /\ speedFast' = FALSE
    /\ UNCHANGED <<clock, bus, cycles, ending>>

BusNext ==
    \/ \E region \in Region, writing \in BOOLEAN : Access(region, writing)
    \/ \E region \in Region, high \in BOOLEAN : StoreSpeed(region, high)
    \/ \E fast \in BOOLEAN : Motor(fast)
    \/ \E n \in 1 .. 2 : Internal(n)
    \/ VectorPull
    \/ \E region \in Region, writing \in BOOLEAN : Copy(region, writing)
    \/ Tick
    \/ SpeedReset

BusSpec == BusInit /\ [][BusNext]_busVars

-----------------------------------------------------------------------------
(* Properties.                                                             *)

\* The time it is for an instruction that began fast, going by what tick()
\* would bill for it now.
Moment == clock + cycles * kFastCycleTicks + busPenalty

\* PH0 boundaries: where a Mega II cycle begins; how many begin before t.
OnGrid(t) == (t % kMasterPerLine) % 14 = 0 /\ t % kMasterPerLine <= 896
CyclesBefore(t) ==
    65 * (t \div kMasterPerLine)
      + (IF t % kMasterPerLine > 896 THEN 65 ELSE ((t % kMasterPerLine) + 13) \div 14)

\* The ticks before t in which the fast RAM is not being refreshed.
Refreshing(t) == t % 50 >= 45
UsableBefore(t) == 45 * (t \div 50) + (IF t % 50 > 45 THEN 45 ELSE t % 50)

\* "the MMU sees every cycle in order, which is what lets it phase each
\* transaction" (CPU65816.cpp:116-118): at the time it will be billed for, an
\* access of a fast instruction to the Mega II holds one whole cycle of it and
\* ends with it, one to the fast RAM gets five ticks free of refresh and no
\* more, any other takes five, whatever came before it in the instruction.
PhasedStep(region, writing) ==
    Access(region, writing) /\ Fast =>
      CASE Kind(region, writing) = "slow" ->
             OnGrid(Moment') /\ CyclesBefore(Moment') = CyclesBefore(Moment) + 1
        [] Kind(region, writing) = "dram" ->
             UsableBefore(Moment') = UsableBefore(Moment) + 5 /\ ~Refreshing(Moment' - 1)
        [] OTHER -> Moment' = Moment + 5
AccessesPhased ==
    [][\A region \in Region, writing \in BOOLEAN : PhasedStep(region, writing)]_busVars

\* A slow instruction takes as many whole Mega II cycles as it has cycles, and
\* leaves the clock on the grid, even one that has just slowed the machine
\* down or is about to speed it up (IIgsMemory.cpp:52-60).
SlowOnGrid ==
    [][ Tick /\ ~Fast =>
          OnGrid(clock') /\ CyclesBefore(clock') = CyclesBefore(clock) + cycles ]_busVars

=============================================================================

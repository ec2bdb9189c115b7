----------------------------- MODULE AudioRing -----------------------------
(***************************************************************************)
(* The lock-free ring between the emulator thread (AudioOut::mixFrame and  *)
(* push) and the device's callback thread (pull).  Source: Audio.cpp.      *)
(*                                                                         *)
(* The two threads share ring_, write_ and read_ only.  Each atomic load   *)
(* and store and each slot copied is a step.  An acquire load returns any  *)
(* value of the other thread's index not older than the last one seen:     *)
(* C++ coherence promises no more.  Indices wrap at Wrap (2^32), slots at  *)
(* Size (2^15).                                                            *)
(***************************************************************************)
EXTENDS Integers, Sequences, SequencesExt

CONSTANTS
    Size,           \* kRingSize
    Wrap,           \* number of values of an index
    Prefill,        \* samples of silence published at the start (1536)
    Base, Nudge,    \* samples per frame (735) and the rate control's step (8)
    Low, High,      \* fill band of the rate control (1100, 1900)
    Periods,        \* sample counts the device asks for
    Silence,        \* the zero sample
    Waves           \* bound: the sounds a frame starts with

ASSUME RingAssumption ==
    /\ Size \in Nat \ {0} /\ Wrap \in Nat
    /\ Wrap > Size /\ Wrap % Size = 0
    /\ Prefill \in 0 .. Size

ASSUME RateAssumption ==
    /\ Nudge \in Nat /\ Base \in Nat /\ Base > Nudge
    /\ Low \in Nat /\ High \in Nat /\ Low <= High
    /\ Periods \subseteq Nat \ {0}

\* The device asks for no more than some number of samples.
ASSUME PeriodAssumption == \E m \in Periods : \A n \in Periods : n <= m

Sample == {Silence} \cup UNION {Range(w) : w \in Waves}

ASSUME WaveAssumption == \A w \in Waves : w \in Seq(Sample) /\ Len(w) = Base + Nudge

VARIABLES
    ring, write, read,      \* ring_, write_, read_
    pPc, pSrc, pSeen, pGoal, pDone,
        \* producer: step, samples to push, read_ as last seen, toWrite, copied
    cPc, cWant, cSeen, cGoal, cOut,
        \* consumer: step, samples asked, write_ as last seen, toRead, copied
    heard                   \* the last buffer handed to the device

producer == <<pPc, pSrc, pSeen, pGoal, pDone>>
consumer == <<cPc, cWant, cSeen, cGoal, cOut, heard>>
vars == <<ring, write, read, producer, consumer>>

Index == 0 .. Wrap - 1
Slot(i) == i % Size

\* Mutant of Ahead: an index is advanced in a wider type than it is kept in.
AheadUnwrapped(i, k) == i + k

\* uint32 arithmetic on indices: k further on, and the distance between two.
Ahead(i, k) == (i + k) % Wrap
Gap(from, to) == (to - from) % Wrap

TypeOK ==
    /\ ring \in [0 .. Size - 1 -> Sample]
    /\ write \in Index /\ read \in Index
    /\ pPc \in {"start", "idle", "push", "copy"}
    /\ pSrc \in Seq(Sample) /\ pSeen \in Index
    /\ pGoal \in 0 .. Len(pSrc) /\ pDone \in 0 .. pGoal
    /\ cPc \in {"idle", "copy"}
    /\ cWant \in Periods \cup {0} /\ cSeen \in Index
    /\ cGoal \in 0 .. cWant
    /\ cOut \in Seq(Sample) /\ Len(cOut) <= cGoal
    /\ heard \in Seq(Sample)

Init ==
    /\ ring = [s \in 0 .. Size - 1 |-> Silence]
    /\ write = 0 /\ read = 0
    /\ pPc = "start" /\ pSrc = <<>> /\ pSeen = 0 /\ pGoal = 0 /\ pDone = 0
    /\ cPc = "idle" /\ cWant = 0 /\ cSeen = 0 /\ cGoal = 0 /\ cOut = <<>>
    /\ heard = <<>>

\* The values an acquire load of an index at `now` may return to a thread
\* that has last seen `seen`.
Loads(seen, now) == {Ahead(seen, k) : k \in 0 .. Gap(seen, now)}

-----------------------------------------------------------------------------
(* Emulator thread.                                                        *)

\* The constructor publishes its silence, the device already running.
PublishPrefill ==
    /\ pPc = "start"
    /\ write' = Prefill
    /\ pPc' = "idle"
    /\ UNCHANGED <<ring, read, pSrc, pSeen, pGoal, pDone, consumer>>

\* The samples of a frame, by the rate control.
FrameLength(fill) ==
    IF fill < Low THEN Base + Nudge ELSE IF fill > High THEN Base - Nudge ELSE Base

\* mixFrame(): sizes the frame on the fill it sees and mixes the sound w.
MixFrame(w) ==
    /\ pPc = "idle"
    /\ pSeen' \in Loads(pSeen, read)
    /\ pSrc' = SubSeq(w, 1, FrameLength(Gap(pSeen', write)))
    /\ pPc' = "push"
    /\ pGoal' = 0 /\ pDone' = 0
    /\ UNCHANGED <<ring, write, read, consumer>>

\* Mutant of Free: the used count is taken in slots, so a full ring is empty.
FreeMasked(seen) == Size - ((Slot(write) - Slot(seen)) % Size)

\* Free slots, by the read_ push() has loaded.
Free(seen) == Size - Gap(seen, write)

\* push() loads read_ and decides how much fits; nothing when full.
PushLoad ==
    /\ pPc = "push"
    /\ pSeen' \in Loads(pSeen, read)
    /\ LET free == Free(pSeen')
           n == IF Len(pSrc) < free THEN Len(pSrc) ELSE free
       IN  IF free = 0
           THEN /\ pPc' = "idle" /\ pSrc' = <<>> /\ UNCHANGED pGoal
           ELSE /\ pPc' = "copy" /\ pGoal' = n /\ UNCHANGED pSrc
    /\ UNCHANGED <<ring, write, read, pDone, consumer>>

\* push() copies one sample.
PushCopy ==
    /\ pPc = "copy" /\ pDone < pGoal
    /\ ring' = [ring EXCEPT ![Slot(write + pDone)] = pSrc[pDone + 1]]
    /\ pDone' = pDone + 1
    /\ UNCHANGED <<write, read, pPc, pSrc, pSeen, pGoal, consumer>>

\* push() publishes what it has copied.
PushStore ==
    /\ pPc = "copy" /\ pDone = pGoal
    /\ write' = Ahead(write, pGoal)
    /\ pPc' = "idle"
    /\ pSrc' = <<>> /\ pGoal' = 0 /\ pDone' = 0
    /\ UNCHANGED <<ring, read, pSeen, consumer>>

-----------------------------------------------------------------------------
(* Device thread.                                                          *)

\* pull() loads write_ and decides how much there is.
PullLoad(n) ==
    /\ cPc = "idle"
    /\ cSeen' \in Loads(cSeen, write)
    /\ cWant' = n
    /\ LET avail == Gap(read, cSeen')
       IN  cGoal' = IF n < avail THEN n ELSE avail
    /\ cPc' = "copy"
    /\ UNCHANGED <<ring, write, read, producer, cOut, heard>>

\* pull() copies one sample.
PullCopy ==
    /\ cPc = "copy" /\ Len(cOut) < cGoal
    /\ cOut' = Append(cOut, ring[Slot(read + Len(cOut))])
    /\ UNCHANGED <<ring, write, read, producer, cPc, cWant, cSeen, cGoal, heard>>

\* Mutant of PullStore: read_ advances by the period, not by what was there.
PullStoreWhole ==
    /\ cPc = "copy" /\ Len(cOut) = cGoal
    /\ read' = Ahead(read, cWant)
    /\ heard' = cOut \o [i \in 1 .. cWant - cGoal |-> Silence]
    /\ cPc' = "idle"
    /\ cOut' = <<>> /\ cGoal' = 0 /\ cWant' = 0
    /\ UNCHANGED <<ring, write, producer, cSeen>>

\* pull() pads with silence, frees the slots and returns the buffer.
PullStore ==
    /\ cPc = "copy" /\ Len(cOut) = cGoal
    /\ read' = Ahead(read, cGoal)
    /\ heard' = cOut \o [i \in 1 .. cWant - cGoal |-> Silence]
    /\ cPc' = "idle"
    /\ cOut' = <<>> /\ cGoal' = 0 /\ cWant' = 0
    /\ UNCHANGED <<ring, write, producer, cSeen>>

Next ==
    \/ PublishPrefill
    \/ \E w \in Waves : MixFrame(w)
    \/ PushLoad \/ PushCopy \/ PushStore
    \/ \E n \in Periods : PullLoad(n)
    \/ PullCopy \/ PullStore

Spec == Init /\ [][Next]_vars

-----------------------------------------------------------------------------
(* Properties.                                                             *)

\* The slots a thread has yet to copy, while it copies.
Writing == IF pPc = "copy" THEN {Slot(write + k) : k \in pDone .. pGoal - 1} ELSE {}
Reading == IF cPc = "copy" THEN {Slot(read + k) : k \in Len(cOut) .. cGoal - 1} ELSE {}

\* No slot of ring_ is written and read at the same time: each thread works
\* on the other's index as it last saw it, and indices wrap ("No shared
\* mutable state beyond the SPSC ring indices", Audio.h:9-10).
NoRace == Writing \cap Reading = {}

\* The published samples, oldest first.
Published == [k \in 1 .. Gap(read, write) |-> ring[Slot(read + k - 1)]]

Queue == INSTANCE SampleQueue
    WITH queue <- Published, MaxPeriod <- CHOOSE m \in Periods : \A n \in Periods : n <= m

\* The ring implements the bounded FIFO: what is heard is what was mixed, in
\* order, each sample once, silence only after the last published one.
ImplementsQueue == Queue!Spec

=============================================================================

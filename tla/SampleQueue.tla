---------------------------- MODULE SampleQueue ----------------------------
(***************************************************************************)
(* What AudioOut promises of sound: a bounded FIFO of samples.  The        *)
(* emulator appends what fits of each frame, the device takes from the     *)
(* front and hears silence for what is missing (Audio.h:5-12).             *)
(***************************************************************************)
EXTENDS Integers, Sequences, SequencesExt

CONSTANTS Size, Sample, Silence, MaxPeriod

VARIABLES queue, heard

Init == queue = <<>> /\ heard = <<>>

\* Some samples are appended; the queue never holds more than Size.
Put ==
    /\ Len(queue') <= Size
    /\ IsStrictPrefix(queue, queue')
    /\ UNCHANGED heard

\* A period of n samples is heard: the k oldest of the queue, then silence.
Take ==
    \E n \in 1 .. MaxPeriod, k \in 0 .. Len(queue) :
      /\ k <= n
      /\ queue' = SubSeq(queue, k + 1, Len(queue))
      /\ heard' = SubSeq(queue, 1, k) \o [i \in 1 .. n - k |-> Silence]

Next == Put \/ Take

Spec == Init /\ [][Next]_<<queue, heard>>

=============================================================================

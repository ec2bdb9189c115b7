---------------------------- MODULE MCAdbBenches ----------------------------
(* Two instances of AdbGlu in one run: the "command" bench has the guest   *)
(* send every class of command to an idle desk, the "desk" bench has keys, *)
(* mouse, resets and snapshot loads around one command.  The cfg's values  *)
(* are the widest of either bench.                                         *)
EXTENDS MCAdbGlu

VARIABLE bench

Command == INSTANCE AdbGlu WITH
    Enables <- DataOnly, MouseAxes <- Nothing, Keys <- FALSE, HostActions <- Nothing,
    Snapshots <- Nothing

Desk == INSTANCE AdbGlu WITH
    MaxTicks <- 1, Commands <- OneByteRead, MaxCycles <- 3

BenchInit == Init /\ bench \in {"command", "desk"}

BenchNext ==
    /\ UNCHANGED bench
    /\ \/ bench = "command" /\ Command!Next
       \/ bench = "desk" /\ Desk!Next

BenchSpec == BenchInit /\ [][BenchNext]_<<vars, bench>>
=============================================================================

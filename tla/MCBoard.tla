------------------------------- MODULE MCBoard -------------------------------
(* The board for TLC, one part of it a behaviour: `part` says which, the   *)
(* others stay as they start.                                              *)
EXTENDS MCMemoryMap, BusTiming, SmartPort, ClockBram, Alu816, Cpu816, SnapshotFile, TLC

CONSTANTS f1, f2, f3

VARIABLE part

boardVars == <<part, mapVars, busVars, clockVars, portVars, aluVars, cpuVars, fileVars>>

-----------------------------------------------------------------------------
(* The values of the constants.                                            *)

\* A writable and a protected image, of a block each, and one too short for a
\* block.
Zeroes == <<<<0, 0>>>>
BoardImages ==
    f1 :> [blocks |-> Zeroes, protected |-> FALSE]
    @@ f2 :> [blocks |-> Zeroes, protected |-> TRUE]
    @@ f3 :> [blocks |-> <<>>, protected |-> FALSE]
BoardContents == {<<1, 1>>}

\* ClockBram: the byte $38, and the $00 a reset leaves, reach the seconds, cell
\* 0 and, in two bytes, cell 14; the time read back reaches cell 2.
Cells == {0, 2, 14, 18}
ClockSaves ==
    {[state |-> "data", src |-> "bram", data |-> 56, addr |-> 14, reg |-> 0,
      internal |-> [r \in 0 .. 1 |-> 0], sent |-> <<56, 56>>, bram |-> [c \in Cells |-> c]]}

\* Cpu816: the flags of REP and SEP, and a handler at the end of a bank.
CpuMasks == {{"C"}, {"I", "X"}}
CpuTargets == {[bank |-> 1, pc |-> 65534]}

\* Nibble boundaries, decimal and not, signs and carries.
AluAccumulators == {0, 153, 2457, 32768, 39321, 65535}
AluWords == {39321, 45390}

-----------------------------------------------------------------------------
\* No machine to save: the other parts need none, and their states stay small.
FileIdle ==
    /\ iwm35 = FALSE /\ cpu = 0 /\ memory = 0 /\ registers = 0 /\ doc = 0 /\ lines = 0
    /\ chan = 0 /\ media = 0 /\ file = 0 /\ kept = 0 /\ result = "none" /\ fileSteps = 0

BoardInit ==
    /\ part \in {"map", "bus", "clock", "port", "alu", "cpu", "file"}
    /\ MapInit
    /\ BusInit /\ (part # "bus" => clock = 0 /\ speedFast)
    /\ ClockInit
    /\ PortInit /\ (part # "port" => writeBack)
    /\ CpuInit /\ (part # "cpu" => emulation)
    /\ AluInit /\ (part # "alu" => a = 0 /\ accP = {"Z"})
    /\ IF part = "file" THEN FileInit ELSE FileIdle

BoardNext ==
    /\ UNCHANGED part
    /\ \/ /\ part = "map" /\ MapNext
          /\ UNCHANGED <<busVars, clockVars, portVars, aluVars, cpuVars, fileVars>>
       \/ /\ part = "bus" /\ BusNext
          /\ UNCHANGED <<mapVars, clockVars, portVars, aluVars, cpuVars, fileVars>>
       \/ /\ part = "clock" /\ ClockNext
          /\ UNCHANGED <<mapVars, busVars, portVars, aluVars, cpuVars, fileVars>>
       \/ /\ part = "port" /\ PortNext
          /\ UNCHANGED <<mapVars, busVars, clockVars, aluVars, cpuVars, fileVars>>
       \/ /\ part = "alu" /\ AluNext
          /\ UNCHANGED <<mapVars, busVars, clockVars, portVars, cpuVars, fileVars>>
       \/ /\ part = "cpu" /\ CpuNext
          /\ UNCHANGED <<mapVars, busVars, clockVars, portVars, aluVars, fileVars>>
       \/ /\ part = "file" /\ FileNext
          /\ UNCHANGED <<mapVars, busVars, clockVars, portVars, aluVars, cpuVars>>

BoardSpec == BoardInit /\ [][BoardNext]_boardVars

-----------------------------------------------------------------------------
(* The properties of MemoryMap that look at every address, and of Alu816   *)
(* that computes with every operand: only their own part looks at them.    *)

\* MemoryMap: no access strays from its pair of banks or its part of the bank,
\* and the switches keep their types.
MapInPlace == part = "map" => MapTypeOK /\ HomesInPlace

\* MemoryMap: saving and restoring STATEREG leaves every address its home.  (A
\* step that changes nothing is let through before it is looked at.)
MapRestored == [][part = "map" => UNCHANGED mapVars \/ RestoreStep]_<<part, mapVars>>

\* Alu816: a word operation and its two byte operations agree.
AluWidths == part = "alu" => WidthsAgree
=============================================================================

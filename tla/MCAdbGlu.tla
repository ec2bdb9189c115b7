------------------------------ MODULE MCAdbGlu ------------------------------
(* Small instances of AdbGlu for TLC.                                      *)
EXTENDS AdbGlu

CONSTANT none

\* Read modes, read configuration (shortened), read memory, Listen, bus status.
SomeCommands ==
    { [params |-> 0, reply |-> 1, status |-> FALSE],
      [params |-> 0, reply |-> 2, status |-> FALSE],
      [params |-> 2, reply |-> 1, status |-> FALSE],
      [params |-> 2, reply |-> 0, status |-> FALSE],
      [params |-> 0, reply |-> 0, status |-> TRUE] }

OneByteRead == { [params |-> 0, reply |-> 1, status |-> FALSE] }

Nothing == {}
DataOnly == {"data"}
AllEnables == EnableBits
XAxis == {"x"}
BothResets == {"ctrl", "power"}
CtrlOnly == {"ctrl"}

\* A booted machine with a mouse sample and a key pending, and one in
\* emulation mode with a response byte readable.
NativeBusy ==
    [videoCycles |-> 1, emulation |-> FALSE, vblEnabled |-> TRUE,
     adbIntEn |-> {}, adbDataReady |-> FALSE,
     mouseDataFull |-> TRUE, mouseReadY |-> TRUE, mouseUntold |-> {},
     kbdIntPending |-> TRUE, kbdStrobe |-> TRUE]

EmulationFull ==
    [NativeBusy EXCEPT !.emulation = TRUE, !.vblEnabled = FALSE, !.adbDataReady = TRUE,
                       !.mouseDataFull = FALSE, !.mouseReadY = FALSE,
                       !.kbdIntPending = FALSE, !.kbdStrobe = FALSE]

SomeSnapshots == {NativeBusy, EmulationFull}

=============================================================================

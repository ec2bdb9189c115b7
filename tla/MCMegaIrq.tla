----------------------------- MODULE MCMegaIrq -----------------------------
(* Small instances of MegaIrq for TLC.                                     *)
EXTENDS MegaIrq

NoSnapshots == {}

LineZero == {0}
FirstAndBorder == {0, 2}

\* Snapshots taken of a quiet machine, of one with both timer lines up, and
\* of one whose DOC has an interrupt pending.
Quiet ==
    [videoCycles |-> 1, lastVpos |-> 0, shr |-> FALSE, scb |-> {},
     intflag |-> {}, inten |-> {}, vgcStat |-> {}, vgcEn |-> {}, vgcIrq |-> FALSE,
     frameCount |-> 0, irqPend |-> {}, oscEnabled |-> 1, iFlag |-> TRUE]

Busy ==
    [Quiet EXCEPT !.intflag = {"vbl", "quarter"}, !.inten = {"vbl"},
                  !.vgcStat = {"second"}, !.vgcEn = {"second"}, !.vgcIrq = TRUE,
                  !.frameCount = 1, !.iFlag = FALSE]

Singing == [Quiet EXCEPT !.irqPend = {0}, !.videoCycles = 3, !.lastVpos = 1]

SomeSnapshots == {Quiet, Busy, Singing}

=============================================================================

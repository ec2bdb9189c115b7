----------------------------- MODULE MCDisk525 -----------------------------
(* Instances of Disk525 for TLC: two whole tracks and the half track between *)
(* them, two sectors, of which the guest writes the first.                 *)
EXTENDS Disk525, MCMedia

Sectors == {0, 1}

Filled(v) == [s \in Sectors |-> v]
Plain(kind, env, protected) ==
    [kind |-> kind, wrap |-> env, protected |-> protected,
     home |-> [h \in 0 .. 2 |-> None], flux |-> {},
     tracks |-> [t \in 0 .. 1 |-> Filled(v0)]]

\* A WOZ with a FLUX capture of track 0 and a TRK for the half track.
HalfTracked ==
    [kind |-> "woz", wrap |-> "plain", protected |-> FALSE,
     home |-> [h \in 0 .. 2 |-> IF h = 2 THEN None ELSE h], flux |-> {0},
     tracks |-> [t \in 0 .. 1 |-> Filled(v0)]]

Mixed ==
    [dos |-> Plain("sector", "2img", FALSE), po |-> Plain("sector", "plain", FALSE),
     nib |-> Plain("nib", "trailer", FALSE), locked |-> Plain("sector", "plain", TRUE),
     half |-> HalfTracked, woz |-> HalfTracked]

\* Images alone, and one swapped with a protected one.
Desks == {{"dos"}, {"po"}, {"nib", "locked"}, {"half"}, {"woz"}}

\* The guest moves every line over one image, the host fails the saves of three,
\* and another one gets bytes that do not decode.
AllButHalf == DOMAIN Mixed \ {"half"}
FailingHost ==
    [f \in DOMAIN Mixed |->
       IF f \in {"po", "nib", "woz"} THEN {"refused", "short"} ELSE {}]
FirstSector ==
    [f \in DOMAIN Mixed |-> {<<0, v1>>} \cup (IF f = "dos" THEN {<<0, Bad>>} ELSE {})]
=============================================================================

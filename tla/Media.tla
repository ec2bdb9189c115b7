-------------------------------- MODULE Media --------------------------------
(***************************************************************************)
(* What the drives have in common: the contents a decoder tells apart, and *)
(* the write-back policy, which main.cpp sets once for all of them.        *)
(***************************************************************************)
CONSTANTS
    Good,           \* contents that decode to sectors
    Bad, Blank,     \* undecodable contents, those of an absent track
    WriteBack       \* the host's write-back policy

Value == Good \cup {Bad, Blank}
=============================================================================

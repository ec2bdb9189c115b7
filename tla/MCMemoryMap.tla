---------------------------- MODULE MCMemoryMap ----------------------------
(* An instance of MemoryMap for TLC: six fast banks, four of them with RAM. *)
EXTENDS MemoryMap

\* As the reset leaves it, and with the hi-res pages, text page 2 and the I/O and
\* language card window out, but not the Super Hi-Res buffer.
GuestShadow == {{}, {"hires1", "hires2", "auxhires", "text2", "iolc"}}

\* As the reset leaves it, all in aux with the card in, and text page 2 on ROM.
GuestState ==
    {{"rdrom", "bank2"}, {"altzp", "page2", "ramrd", "ramwrt"}, {"page2", "rdrom"}}
=============================================================================

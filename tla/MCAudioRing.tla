---------------------------- MODULE MCAudioRing ----------------------------
(* An instance of AudioRing for TLC: a ring of four slots, indices that    *)
(* wrap at eight, frames of one to three samples, periods of one and two.  *)
EXTENDS AudioRing

CONSTANTS quiet, loud, soft

TwoWaves == {<<loud, soft, soft>>, <<soft, loud, loud>>}
OneOrTwo == {1, 2}
=============================================================================

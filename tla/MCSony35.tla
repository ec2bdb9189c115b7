------------------------------ MODULE MCSony35 ------------------------------
(* Instances of Sony35 for TLC: two images, two cylinders, two tracks      *)
(* the guest writes (one on each cylinder and side).                       *)
EXTENDS Sony35, MCMedia

\* Every track holds v.
Blanked(v) == [t \in Track |-> v]

\* Two writable raw images.
RawPair ==
    d1 :> [kind |-> "raw", protected |-> FALSE, tracks |-> Blanked(v0)]
    @@ d2 :> [kind |-> "raw", protected |-> FALSE, tracks |-> Blanked(v1)]

\* A raw image and a WOZ with an unformatted and an undecodable track.
RawAndWoz ==
    d1 :> [kind |-> "raw", protected |-> FALSE, tracks |-> Blanked(v0)]
    @@ d2 :> [kind |-> "woz", protected |-> FALSE,
              tracks |-> [Blanked(v0) EXCEPT ![1] = Blank, ![2] = Bad]]

OneWoz ==
    d2 :> [kind |-> "woz", protected |-> FALSE, tracks |-> Blanked(v0)]

CrossTracks == {0, 3}
Writable == {FALSE}
EitherWay == BOOLEAN
=============================================================================

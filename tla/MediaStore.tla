----------------------------- MODULE MediaStore -----------------------------
(***************************************************************************)
(* What a 3.5" drive with write-back promises the owner of the disk images *)
(* (Sony35.h:22-24, 58-63): an image holds what the guest last wrote to    *)
(* it, track by track, whether it is in the drive or in its file.  The     *)
(* guest writes the track under the head, nothing else changes that track  *)
(* or any other, a write-protected image never changes, and only a track   *)
(* the guest left undecodable may change by itself ("sector(s) lost",      *)
(* Sony35.cpp:115).                                                        *)
(***************************************************************************)
EXTENDS Integers

CONSTANTS
    Disks,      \* the images: [kind, protected, tracks] each
    Good,       \* contents a track decodes to sectors from
    Bad         \* contents no denibbliser accepts

VARIABLES
    content,    \* image -> track -> contents
    head        \* <<image, track>> the guest is writing, <<>> when it is not

Init == content = [f \in DOMAIN Disks |-> Disks[f].tracks] /\ head = <<>>

\* The guest's head writes v on track t of image f, and stays on it.
GuestWrite(f, t, v) ==
    /\ ~Disks[f].protected
    /\ head \in {<<>>, <<f, t>>} /\ head' = <<f, t>>
    /\ content' = [content EXCEPT ![f][t] = v]

\* The guest stops writing; what it wrote stays.
Lift == head' = <<>> /\ UNCHANGED content

\* Undecodable tracks of f come back as some readable contents.
Decay(f) ==
    LET Lost == {t \in DOMAIN content[f] : content[f][t] = Bad}
    IN  /\ head' = <<>>
        /\ \E s \in [Lost -> Good] :
             content' = [content EXCEPT ![f] =
                           [t \in DOMAIN content[f] |->
                              IF t \in Lost THEN s[t] ELSE content[f][t]]]

Next ==
    \/ \E f \in DOMAIN Disks : \E t \in DOMAIN content[f], v \in Good \cup {Bad} :
         GuestWrite(f, t, v)
    \/ Lift
    \/ \E f \in DOMAIN Disks : Decay(f)

Spec == Init /\ [][Next]_<<content, head>>

=============================================================================

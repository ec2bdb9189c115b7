------------------------------ MODULE Scc8530 ------------------------------
(***************************************************************************)
(* The serial chip at $C038-$C03B (Scc8530.cpp): per channel a register    *)
(* pointer that the next command access uses up, the write registers, and  *)
(* the two queues.  Nothing in the program takes what the guest sends out of*)
(* the transmit queue.                                                     *)
(***************************************************************************)
EXTENDS Integers, Sequences

CONSTANTS
    Ports,      \* bound: channels the guest uses
    Commands,   \* bound: bytes it writes to $C038 and $C039
    Letters,    \* bound: bytes it sends
    MaxQueue    \* bound: bytes in a queue

VARIABLE chan   \* chan_: 0 is channel B, 1 channel A

Channel == 0 .. 1
Loopback == 16      \* WR14 bit 4

Cleared == [wr |-> [r \in 0 .. 15 |-> 0], regPtr |-> 0, rx |-> <<>>, tx |-> <<>>]
SccReset == [c \in Channel |-> Cleared]

\* The channel resets of WR9: bit 7 for channel A, bit 6 for channel B.
ClearedBy(v) == {c \in Channel : (v \div (IF c = 1 THEN 128 ELSE 64)) % 2 = 1}

\* cmdWrite(): the pointer, or the register it points at.
Latched(c, v) ==
    LET wr == chan[c].regPtr
    IN  IF wr = 0 THEN [chan EXCEPT ![c].regPtr = v % 16]
        ELSE [d \in Channel |->
                IF wr = 9 /\ d \in ClearedBy(v) THEN Cleared
                ELSE IF d = c THEN [chan[c] EXCEPT !.wr[wr] = v, !.regPtr = 0] ELSE chan[d]]

CmdWrite(c) == \E v \in Commands : chan' = Latched(c, v)

\* cmdRead(): any status read uses the pointer up.
CmdRead(c) == chan' = [chan EXCEPT ![c].regPtr = 0]

DataRead(c) ==
    /\ chan[c].rx # <<>>
    /\ chan' = [chan EXCEPT ![c].rx = Tail(@)]

Looped(c) == (chan[c].wr[14] \div Loopback) % 2 = 1

\* dataWrite(): sent at once, and echoed in local loopback.
DataWrite(c) ==
    /\ Len(chan[c].tx) < MaxQueue
    /\ \E b \in Letters :
         chan' = [chan EXCEPT ![c].tx = Append(@, b),
                              ![c].rx = IF Looped(c) THEN Append(@, b) ELSE @]

SccAccess == \E c \in Ports : CmdWrite(c) \/ CmdRead(c) \/ DataRead(c) \/ DataWrite(c)
=============================================================================

----------------------------- MODULE DurableLog -----------------------------
(***************************************************************************)
(* What one capture file promises, with compressors, buffers and processes *)
(* left out: frames are appended in order, a suffix that is not durable    *)
(* may be lost, and a durable frame stays where it is for ever.            *)
(* RawHour implements it: RawHour!DurableRaw.                              *)
(***************************************************************************)
EXTENDS Naturals, Sequences

VARIABLES
    written,        \* the frames a reader of the file can still decode
    durable         \* how many of them survive a power loss

vars == <<written, durable>>

Init == written = <<>> /\ durable = 0

(* Frames reach the file, behind everything already there.                 *)
Accept ==
    /\ Len(written) <= Len(written')
    /\ written = SubSeq(written', 1, Len(written))
    /\ UNCHANGED durable

(* More of the file becomes durable.                                       *)
Sync ==
    /\ durable' \in durable .. Len(written)
    /\ UNCHANGED written

(* A crash takes a suffix, never a durable frame; what it leaves may have  *)
(* become durable.                                                         *)
Lose ==
    \E k \in durable .. Len(written) :
        /\ written' = SubSeq(written, 1, k)
        /\ durable' \in durable .. k

Next == Accept \/ Sync \/ Lose

Spec == Init /\ [][Next]_vars
=============================================================================

----------------------------- MODULE TapeReplay -----------------------------
(***************************************************************************)
(* The bars in the store and the feed over them (market_replay.py), with   *)
(* the marker a run of the forward engine leaves for the next one.  Row j  *)
(* of the store becomes available at time j.  A correction is a second row *)
(* with the key of an earlier one; a read keeps the newest row of a key.   *)
(*                                                                         *)
(* The feed remembers the keys it has fed or marked, and the highest       *)
(* availability it has read, the watermark; both are memory.  The marker,  *)
(* a watermark on disk, survives the process.                              *)
(***************************************************************************)
EXTENDS Market

CONSTANT
    NoMarker        \* there is no marker, or it cannot be read

ASSUME MarkerAssumption == NoMarker \notin Nat

VARIABLES
    store,          \* the keys <<bar time, instrument>> of the rows
    watermark,      \* _availability_watermark
    emitted,        \* the keys of _emitted
    primeMarker     \* prime-marker.json

feed == <<watermark, emitted>>
tape == <<store, feed, primeMarker>>

Key == Nat \X Instruments

TapeTypeOK ==
    /\ store \in Seq(Key)
    /\ watermark \in 0..Len(store)
    /\ emitted \in SUBSET Key
    /\ primeMarker \in 0..Len(store) \union {NoMarker}

(* read_as_of: the bound is inclusive.                                     *)
RowsFrom(j) == {store[i] : i \in {k \in DOMAIN store : k >= j}}

InTime(k, l) == k[1] < l[1] \/ (k[1] = l[1] /\ k[2] < l[2])

(* poll: the events it produces.                                           *)
Produced ==
    LET new == RowsFrom(watermark) \ emitted IN
    [i \in 1..Cardinality(new) |->
        CHOOSE k \in new : Cardinality({l \in new : InTime(l, k)}) = i - 1]

\* Mutant of ReadOn: the keys of rows below the watermark are let go.
ReadOnPruned ==
    /\ emitted' = RowsFrom(watermark)
    /\ watermark' = Len(store)

ReadOn ==
    /\ emitted' = emitted \union RowsFrom(watermark)
    /\ watermark' = Len(store)

\* Mutant of MarkSeen: a resumed feed starts with nothing marked.
MarkNothing ==
    /\ watermark' = IF primeMarker = NoMarker THEN 0 ELSE primeMarker
    /\ emitted' = {}

(* resume_or_prime: without a marker every row is marked as seen, with one *)
(* only the rows from the marker on.                                       *)
MarkSeen ==
    /\ watermark' = Len(store)
    /\ emitted' = RowsFrom(IF primeMarker = NoMarker THEN 0 ELSE primeMarker)
=============================================================================

------------------------------- MODULE Market -------------------------------
(* What the forward engine, its broker and its feed agree on.              *)
EXTENDS Integers, Sequences, FiniteSets

CONSTANTS
    Instruments,    \* numbers, in the order the feed sorts them
    Price           \* the price of each instrument; it does not move

ASSUME InstrumentsAssumption == Instruments \subseteq Nat /\ IsFiniteSet(Instruments)
ASSUME PriceAssumption == Price \in [Instruments -> Nat \ {0}]

Sides == {"BUY", "SELL"}

(* A decision to trade, without the time it was made at: every decision of *)
(* one poll is stamped with the time of the poll.                          *)
Intent == [on : Instruments, side : Sides, quantity : Nat \ {0}, reduceOnly : BOOLEAN]

Abs(x) == IF x < 0 THEN -x ELSE x
SameSide(x, y) == (x > 0 /\ y > 0) \/ (x < 0 /\ y < 0)
Signed(side, q) == IF side = "BUY" THEN q ELSE -q
Lesser(a, b) == IF a <= b THEN a ELSE b
=============================================================================

------------------------------- MODULE Budget -------------------------------
(***************************************************************************)
(* What the shared pool of margin promises the bots that spend from it:    *)
(* every grant fits a declared budget together with all that is already    *)
(* reserved, and margin once granted stays until it is given back.  Once   *)
(* the ledger is damaged (a row torn by a kill, a compaction cut short)    *)
(* nothing is promised of single reservations any more.                    *)
(***************************************************************************)
EXTENDS CapitalDeclaration

VARIABLES
    reserved,       \* the margin held for each key, 0 when there is none
    damaged         \* the ledger has lost rows

Init ==
    /\ reserved = [k \in Keys |-> 0]
    /\ damaged = FALSE

Grant(k, d) ==
    /\ reserved[k] = 0
    /\ reserved' = [reserved EXCEPT ![k] = d.most]
    /\ Held(reserved) + d.most <= d.portfolio
    /\ HeldBy(reserved, k[1]) + d.most <= d.cap
    /\ UNCHANGED damaged

GiveBack(k) ==
    /\ reserved[k] > 0
    /\ reserved' = [reserved EXCEPT ![k] = 0]
    /\ UNCHANGED damaged

Damage ==
    /\ damaged' = TRUE
    /\ reserved' \in [Keys -> 0..MaxUsdt]

Next ==
    \/ \E k \in Keys : GiveBack(k) \/ \E d \in Declarations : Grant(k, d)
    \/ Damage

Spec == Init /\ [][Next]_<<reserved, damaged>>
=============================================================================

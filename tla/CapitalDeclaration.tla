------------------------- MODULE CapitalDeclaration -------------------------
(***************************************************************************)
(* The declared capital (capital.json) and the arithmetic of reserved      *)
(* margin, shared by the pool and by the budget it promises to keep.       *)
(***************************************************************************)
EXTENDS Naturals, FiniteSets

CONSTANTS
    Bots,           \* the governed segments
    Symbols,        \* the instruments there are, venue included
    Universe,       \* the instruments each bot admits
    Declarations,   \* the declarations an operator may put in force
    MaxUsdt         \* bound: no declared amount is larger

Keys == {k \in Bots \X Symbols : k[2] \in Universe[k[1]]}

Amounts == 1..MaxUsdt

(* parse_declaration rejects a file as a whole unless the amounts are      *)
(* positive, the band is ordered and one trade fits the cap of a bot,      *)
(* which is a fraction of the portfolio.                                   *)
IsDeclaration(d) ==
    /\ d \in [portfolio : Amounts, cap : Amounts, least : Amounts, most : Amounts]
    /\ d.least <= d.most /\ d.most <= d.cap /\ d.cap <= d.portfolio

ASSUME DeclarationsAssumption ==
    MaxUsdt \in Nat /\ \A d \in Declarations : IsDeclaration(d)

ASSUME UniverseAssumption ==
    IsFiniteSet(Bots) /\ IsFiniteSet(Symbols) /\ Universe \in [Bots -> SUBSET Symbols]

(* Amounts are added up as the number of units held: a key that holds m    *)
(* USDT holds the units <<key, 1>> to <<key, m>>.                          *)
Units(r) == {u \in Keys \X Amounts : u[2] <= r[u[1]]}
UnitsOf(r, b) == {u \in Units(r) : u[1][1] = b}
Held(r) == Cardinality(Units(r))
HeldBy(r, b) == Cardinality(UnitsOf(r, b))

(* What is held fits a declaration, in total and for each bot.             *)
Fits(r) ==
    /\ Units(r) # {} => \E d \in Declarations : Held(r) <= d.portfolio
    /\ \A b \in Bots :
          UnitsOf(r, b) # {} => \E d \in Declarations : HeldBy(r, b) <= d.cap
=============================================================================

--------------------------- MODULE MCSegmentBots ----------------------------
(* Instances of SegmentBots for TLC: two bots, two declarations.           *)
EXTENDS SegmentBots, TLC

CONSTANTS perp, spot, s1, s2

TwoByOne == (perp :> {s1, s2} @@ spot :> {s1})
OneByOne == (perp :> {s1} @@ spot :> {s1})

TwoDeclarations ==
    {[portfolio |-> 3, cap |-> 1, least |-> 1, most |-> 1],
     [portfolio |-> 2, cap |-> 2, least |-> 1, most |-> 2]}
OneDeclaration == {[portfolio |-> 3, cap |-> 3, least |-> 1, most |-> 1]}

AllFaults == {"kill", "torn", "compaction", "spread"}
KillOnly == {"kill"}
NoFaults == {}
=============================================================================

------------------------------- MODULE MCData --------------------------------
(***************************************************************************)
(* The parts of the host that turn files into what others rely on, played  *)
(* one scene at a time as in MCHost: the halts of venues, the ledger of    *)
(* outages, the budgets of requests, the bars of the store, the boards,     *)
(* what a live bot sees of the market, and the capital that bots share.    *)
(***************************************************************************)
EXTENDS VenueHalts, LivenessLedger, RateBudget, BarStore, StatusWall, LiveFeed,
        MCSegmentBots

CONSTANTS
    Scenes,         \* the scenes that are played
    a, b

VARIABLE scene      \* the scene that is played

Two == {a, b}
OneVenue == {a}
OneTier == {b}

(* Every tile once, on a page that shows it; two of them with two passes at*)
(* a time.                                                                 *)
Looks ==
    [page : {"status-wall"}, tile : PROBES \union SYSTEM_TILES, passes : {{a}}]
    \union [page : {"build-progress"}, tile : PROGRESS_TILES, passes : {{a}}]
    \union [page : {"build-progress"}, tile : {probe_resource_watchdog}, passes : {Two}]
    \union [page : {"plan"}, tile : SEGMENT_PROBES, passes : {{a}}]
    \union [page : {"rulings"}, tile : RULING_PROBES, passes : {{a}}]
    \union [page : {"segment-bots"}, tile : SEGMENT_TILES, passes : {{a}}]
    \union [page : {"blotter"}, tile : {_open_section}, passes : {Two}]
    \union [page : {"blotter"}, tile : BLOTTER_TILES, passes : {{a}}]
    \union [page : {"console"}, tile : CONSOLE_TILES, passes : {{a}}]

(* A symbol of each segment that trades, and symbols that are not its own. *)
Listings ==
    {<<"perp", "perpetual">>, <<"perp", "tradfi">>, <<"perp", "suspended">>,
     <<"dated", "tradfi">>, <<"spot", "pair">>, <<"options", "option">>}

dataVars == <<haltVars, livenessVars, budgetVars, barVars, feedVars,
              wallVars, marketVars, botsVars, scene>>

(* Of the scene that is played: the others stay as they began.             *)
DataTypeOK ==
    CASE scene = "halts" -> HaltsTypeOK
      [] scene = "liveness" -> LivenessTypeOK
      [] scene = "budget" -> BudgetTypeOK
      [] scene = "bars" -> BarsTypeOK /\ FeedTypeOK
      [] scene = "wall" -> WallTypeOK
      [] scene = "market" -> MarketTypeOK
      [] scene = "capital" -> BotsTypeOK

DataInit ==
    /\ HaltsInit /\ LivenessInit /\ BudgetInit /\ BarsInit /\ FeedInit
    /\ WallInit /\ MarketInit /\ BotsInit
    /\ scene \in Scenes
    /\ scene # "wall" => board = CHOOSE look \in Boards : TRUE
    /\ scene # "market" => <<segment, listing>> = CHOOSE play \in Plays : TRUE
    /\ scene # "capital" => declared = CHOOSE d \in Declarations : TRUE

-----------------------------------------------------------------------------
PlayOps ==
    /\ \/ scene = "halts" /\ HaltsNext /\ UNCHANGED <<livenessVars, budgetVars>>
       \/ scene = "liveness" /\ LivenessNext /\ UNCHANGED <<haltVars, budgetVars>>
       \/ scene = "budget" /\ BudgetNext /\ UNCHANGED <<haltVars, livenessVars>>
    /\ UNCHANGED <<barVars, feedVars, wallVars, marketVars, botsVars>>

PlayStore ==
    /\ scene = "bars" /\ FeedNext
    /\ UNCHANGED <<haltVars, livenessVars, budgetVars, wallVars, marketVars, botsVars>>

PlayScreens ==
    /\ \/ scene = "wall" /\ WallNext /\ UNCHANGED marketVars
       \/ scene = "market" /\ MarketNext /\ UNCHANGED wallVars
    /\ UNCHANGED <<haltVars, livenessVars, budgetVars, barVars, feedVars, botsVars>>

PlayBots ==
    /\ scene = "capital" /\ BotsNext
    /\ UNCHANGED <<haltVars, livenessVars, budgetVars, barVars, feedVars, wallVars, marketVars>>

DataNext == (PlayOps \/ PlayStore \/ PlayScreens \/ PlayBots) /\ UNCHANGED scene

DataSpec == DataInit /\ [][DataNext]_dataVars
=============================================================================

------------------------------- MODULE MCHost -------------------------------
(***************************************************************************)
(* The parts of the host that meet in files only.  They share no state, so *)
(* a behaviour plays one of them, in one of its scenes, and the others stay*)
(* as they began: their product would multiply the states and show nothing.*)
(***************************************************************************)
EXTENDS OrderSubmission, ForwardEngine, ArchiveOffload, Holdout, HourlyMigration, Recorder,
        Universe, PositionLife, PolledBuild, Backfill, ExitRails

CONSTANTS
    Scenes,         \* the scenes that are played
    a, b, s1, s2, n2

VARIABLE scene      \* the scene that is played

Two == {a, b}
TwoIds == {s1, s2}
AllFaults == {"kill", "torn", "lost"}

OneAndTwo == [s \in Instruments |-> s]
One == [s \in Instruments |-> 1]
AmpleVolume == {9}
AnyVolume == {1, 9}
NoFaults == {}
KillAndCorrection == {"kill", "correction"}

SecondIsRenamed == [f \in Feeds |-> IF f = s2 THEN {n2} ELSE {}]
AllArePushed == [f \in Feeds |-> 0]

(* What a frame may show: the market moves up, or down, by much or little; *)
(* or one of the things that keep a brain from a trade.                    *)
Calm == [quote |-> "tight", tape |-> "thick", flow |-> 0, drift |-> 0, crowded |-> FALSE,
         expiry |-> "ahead", basis |-> 0, named |-> TRUE, chain |-> TRUE, money |-> "near",
         edge |-> 0, reach |-> 4]
Pushed(by) == [Calm EXCEPT !.flow = by, !.drift = by, !.basis = -by, !.edge = -by]
Sights ==
    {Pushed(by) : by \in {-3, -2, -1, 1, 2}}
    \union {[Pushed(2) EXCEPT !.quote = "none"], [Pushed(2) EXCEPT !.tape = "thin"],
            [Pushed(2) EXCEPT !.flow = Nothing], [Pushed(-2) EXCEPT !.crowded = TRUE],
            [Pushed(2) EXCEPT !.expiry = "settling"], [Pushed(2) EXCEPT !.basis = Nothing],
            [Pushed(2) EXCEPT !.money = "far"], [Pushed(2) EXCEPT !.edge = Nothing],
            [Pushed(2) EXCEPT !.reach = 2]}

(* Tails that promise enough, too little, or risk too much.                *)
Tails == {Nothing, [median |-> 3, low |-> -1], [median |-> 2, low |-> -1],
          [median |-> 3, low |-> -8]}

(* The first model comes with held-out scores, the second without.         *)
HeldOut == << <<1, 4>>, <<>> >>

(* A perpetual; one with a date of delivery that becomes a contract that   *)
(* expires, or which a broken answer leaves without a mark; one symbol of  *)
(* another venue.                                                          *)
Ticker == {"fundingRate", "markPrice", "time"}
Polls ==
    {<<<<"bybit", a>>, Ticker>>,
     <<<<"bybit", b>>, Ticker \union {"deliveryTime"}>>,
     <<<<"bybit", b>>, Ticker \union {"blank fundingRate", "deliveryTime"}>>,
     <<<<"bybit", b>>, Ticker \union {"blank markPrice"}>>,
     <<<<"binance", a>>, {"lastFundingRate", "markPrice", "time"}>>}
Rates == {<<"funding", "bybit">>, <<"dated_futures", "bybit">>, <<"funding", "binance">>}
Exchanges == {{"name"}, {"name", "positive currentTvl"}}

(* A market that stands still, moves up, or moves down.                    *)
RailBar(low, high, close) == [low |-> low, high |-> high, close |-> close]
RailTape == {RailBar(3, 3, 3), RailBar(2, 3, 3), RailBar(4, 5, 4), RailBar(1, 3, 2)}

deskVars == <<vars, engineVars>>
fileVars == <<holdoutVars, migrationVars, recordingVars, universeVars>>
datasetVars == <<polledVars, backfillVars>>
positionVars == <<lifeVars, railVars>>
hostVars == <<deskVars, archiveVars, fileVars, datasetVars, positionVars, scene>>

(* Of the scene that is played: the others stay as they began.             *)
HostTypeOK ==
    CASE scene = "submission" -> TypeOK
      [] scene = "engine" -> EngineTypeOK
      [] scene \in {"double start", "pool", "passes", "mirror"} -> ArchiveTypeOK
      [] scene = "holdout" -> HoldoutTypeOK
      [] scene = "migration" -> MigrationTypeOK
      [] scene = "recorder" -> RecorderTypeOK
      [] scene = "universe" -> UniverseTypeOK
      [] scene = "position" -> LifeTypeOK
      [] scene = "rails" -> RailsTypeOK
      [] scene = "polled" -> PolledTypeOK
      [] scene = "backfill" -> BackfillTypeOK

HostInit ==
    /\ Init /\ EngineInit
    /\ ArchiveInit /\ HoldoutInit /\ MigrationInit /\ RecorderInit /\ UniverseInit
    /\ LifeInit /\ RailsInit /\ PolledInit /\ BackfillInit
    /\ scene \in Scenes
    /\ scene # "recorder" => unwritable = {}
    /\ scene # "universe" => listed = {}
    /\ scene # "position" => desk = "perp"
    /\ scene # "backfill" => unusable = {}
    /\ scene # "polled" => pollClock = Min(FirstInstants)

-----------------------------------------------------------------------------
PlayDesk ==
    /\ \/ scene = "submission" /\ Next /\ UNCHANGED engineVars
       \/ scene = "engine" /\ EngineNext /\ UNCHANGED vars
    /\ UNCHANGED <<archiveVars, fileVars, datasetVars, positionVars>>

PlayClaims ==
    /\ \/ scene = "double start" /\ ClaimsStep({a, b}, {s1}, {a})
       \/ scene = "pool" /\ ClaimsStep({a}, {s1, s2}, {})
       \/ scene = "passes" /\ ClaimsStep({a}, {s1}, {a, b})
       \/ scene = "mirror" /\ ClaimsStep({a}, {s1}, {a})
    /\ UNCHANGED <<shipVars, deskVars, fileVars, datasetVars, positionVars>>

PlayShip ==
    /\ scene = "mirror"
    /\ Ship \/ CopyFails
    /\ UNCHANGED <<deskVars, fileVars, datasetVars, positionVars>>

PlayFiles ==
    /\ \/ scene = "holdout" /\ HoldoutNext
          /\ UNCHANGED <<migrationVars, recordingVars, universeVars>>
       \/ scene = "migration" /\ MigrationNext
          /\ UNCHANGED <<holdoutVars, recordingVars, universeVars>>
       \/ scene = "recorder" /\ RecorderNext
          /\ UNCHANGED <<holdoutVars, migrationVars, universeVars>>
       \/ scene = "universe" /\ UniverseNext
          /\ UNCHANGED <<holdoutVars, migrationVars, recordingVars>>
    /\ UNCHANGED <<deskVars, archiveVars, datasetVars, positionVars>>

PlayPosition ==
    /\ \/ scene = "position" /\ LifeNext /\ UNCHANGED railVars
       \/ scene = "rails" /\ RailsNext /\ UNCHANGED lifeVars
    /\ UNCHANGED <<deskVars, archiveVars, fileVars, datasetVars>>

PlayDatasets ==
    /\ \/ scene = "polled" /\ PolledNext /\ UNCHANGED backfillVars
       \/ scene = "backfill" /\ BackfillNext /\ UNCHANGED polledVars
    /\ UNCHANGED <<deskVars, archiveVars, fileVars, positionVars>>

HostNext ==
    /\ PlayDesk \/ PlayClaims \/ PlayShip \/ PlayFiles \/ PlayPosition \/ PlayDatasets
    /\ UNCHANGED scene

(* A position of the paper engine is the one the broker keeps, and its     *)
(* rails are those of one who watched every bar.                           *)
PositionsAreWatched == PositionsAreSound /\ RailsAreKept

(* What datasets were built from polls, and fetched for a time that nobody *)
(* recorded: a row is left out only behind a newer one, or by the name of  *)
(* the part that stands for it, and a walk leaves no hole.                 *)
DatasetsAreWhole == PolledRowsAreKept /\ BackfillsHaveNoHoles

HostSpec == HostInit /\ [][HostNext]_hostVars
=============================================================================

SPECIFICATION HostSpec
CONSTANTS
    Scenes = {"submission", "engine", "double start", "pool", "passes", "mirror", "holdout", "migration", "recorder", "universe", "position", "rails", "polled", "backfill"}
    a = a
    b = b
    s1 = s1
    s2 = s2
    n2 = n2
    Faults <- AllFaults
    Ids <- TwoIds
    NoId = Nobody
    MaxKills = 2
    MaxLines = 1
    EngineFaults <- KillAndCorrection
    Instruments = {1, 2}
    Price <- OneAndTwo
    NoMarker = Nobody
    MaxOrder = 2
    MaxPosition = 3
    MaxAggregate = 4
    MaxInstruments = 2
    MaxOrders = 3
    Quantity = 1
    Volumes <- AmpleVolume
    MaxRows = 4
    MaxEngineKills = 1
    Streams <- TwoIds
    Recorders <- Two
    Passes <- Two
    MaxOpen = 1
    MaxPairFrames = 2
    MaxRecorderKills = 1
    Nobody = Nobody
    Callers <- Two
    Commits <- TwoIds
    NoCommit = Nobody
    MaxCalls = 4
    OldParts = {n2}
    LateParts <- TwoIds
    MaxBuffered = 1
    MaxDeaths = 2
    Feeds <- TwoIds
    ArchivedAs <- SecondIsRenamed
    DeclaredCadence <- AllArePushed
    Grace = 1
    Ceiling = 2
    SilenceWindow = 2
    HourLength = 2
    DayLength = 3
    LastMoment = 4
    MaxSessions = 2
    Symbols <- TwoIds
    MassFrom = 2
    Observers <- Two
    MaxSnapshots = 3
    MaxCuts = 1
    Spread = 1
    TakeProfit = 3
    MinBin = 2
    MinScores = 2
    ScoreWindow = 3
    Nothing = Nobody
    Desks = {"perp", "spot", "dated", "options"}
    Views <- Sights
    RawScores = {2, 18, Nobody}
    Forecasts <- Tails
    Seeds <- HeldOut
    RatchetTrigger = 2
    GiveBack = 1
    HardStop = 2
    MaxHold = 3
    TopPrice = 3
    LastPoll = 4
    MaxBotKills = 1
    RailBars <- RailTape
    HardStopAtr = 2
    TargetAtr = 2
    TrailAtr = 2
    RatchetAtr = 1
    ArmAtr = 1
    MaxHoldingBars = 3
    AtrPeriod = 1
    LastBarTime = 5
    MaxLots = 2
    MaxEngineStops = 1
    VenueAnswers <- Polls
    Builds <- Rates
    ReserveEntries <- Exchanges
    InstantsPerHour = 2
    HoursInDay = 2
    FirstInstants = {0, 3}
    FinalInstants = {2, 4}
    MaxFrames = 2
    MaxRecorderDeaths = 1
    MaxPasses = 2
    MaxPassKills = 1
    WalkSymbols <- Two
    GapStart = 1
    GapEnd = 5
    PageLimit = 2
    PagesOfBars = 2
    PagesOfFunding = 2
    EarliestMoment = 4
    LatestMoment = 5
    MaxRuns = 1
INVARIANTS HostTypeOK NeverSentTwice NothingForgotten BarsAreTradedOnce PositionsAreWatched WritersAreAlone MarkersAreHeld OrdinaryHoursAreMirrored HoldoutSpentOnce OneDeathIsNoticed AbsenceIsOnRecord DatasetsAreWhole MembersWereListed TradesAreAccountedFor
PROPERTIES KnownStaysKnown
CHECK_DEADLOCK FALSE

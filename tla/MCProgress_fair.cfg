SPECIFICATION ProgressSpec
CONSTANTS
    Scenes = {"hour", "harsh hour", "mirror", "retrain", "capital"}
    r1 = r1
    s1 = s1
    q1 = q1
    Faults <- KillAndPower
    BlockFills = TRUE
    MaxFrames = 3
    MaxFailures = 3
    Recovered = Recovered
    None = None
    Streams = {s1}
    Recorders = {r1}
    Passes = {q1}
    MaxOpen = 1
    MaxPairFrames = 1
    MaxRecorderKills = 1
    Nobody = Nobody
    Segments = {"perp"}
    MaxTrials = 2
    NoVersion = NoVersion
    Weighting = "pooled"
    Scores = {1, 2}
    MaxMishaps = 2
    Bots = {perp, spot}
    Symbols = {s1}
    perp = perp
    spot = spot
    s2 = s2
    Universe <- OneByOne
    Declarations <- TwoDeclarations
    MaxUsdt = 3
    CompactAfter = 3
    NoBot = NoBot
    BotFaults <- AllFaults
    MaxOpenPositions = 1
    MaxKills = 1
    NoDeclaration = NoDeclaration
    NoSymbol = NoSymbol
INVARIANTS ProgressTypeOK HourIsRepairable PositionIsExact ReadPairIsFaithful EveryLookIsCounted ModelsAreSound
PROPERTIES EntriesAreKept DurableFramesStay ChampionsOnlyImprove HourIsResumed HourIsShipped ChampionsComeToServe PoolIsABudget OrphansAreReclaimed
CHECK_DEADLOCK FALSE

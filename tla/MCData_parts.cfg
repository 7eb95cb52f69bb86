SPECIFICATION DataSpec
CONSTANTS
    Scenes = {"halts", "liveness", "budget", "bars", "wall", "market", "capital"}
    a = a
    b = b
    Venues <- OneVenue
    Dwell = 2
    HaltDay = 3
    LastTick = 6
    MaxWatchKills = 1
    Threshold = 1
    LastBeat = 7
    MaxTickKills = 2
    MaxStepsBack = 1
    Spenders <- Two
    Capacity = 2
    Refill = 1
    Weights = {1, 2}
    BanLengths = {1, 2}
    LastPulse = 3
    MaxSpenderKills = 1
    MaxBoots = 1
    Tiers <- OneTier
    MinutesPerHour = 2
    HoursPerDay = 2
    LookaheadHours = 1
    FirstMinute = 6
    LastMinute = 8
    Lags = {0, 1}
    GarbledEvents = {0}
    MaxTrades = 2
    MaxLiveRestarts = 1
    MaxBuilds = 2
    MaxBuildKills = 1
    MaxCorrections = 1
    MaxPolls = 1
    Boards <- Looks
    Ttl = 1
    StaleAfter = 1
    MaxPass = 1
    LastMoment = 3
    MaxSpoils = 1
    Plays <- Listings
    QuietAfter = 1
    BufferSize = 1
    Ring = 2
    MinSamples = 2
    LongestWait = 2
    LastInstant = 3
    MaxFeedFaults = 1
    Bots = {perp, spot}
    Symbols = {s1, s2}
    perp = perp
    spot = spot
    s1 = s1
    s2 = s2
    Universe <- TwoByOne
    Declarations <- TwoDeclarations
    MaxUsdt = 3
    CompactAfter = 3
    NoBot = NoBot
    BotFaults <- AllFaults
    MaxOpenPositions = 1
    MaxKills = 1
    NoDeclaration = NoDeclaration
    NoSymbol = NoSymbol
INVARIANTS DataTypeOK HaltsOutlastTheirCause OutagesAreOnRecord SpendFits NothingFromTheFuture IdsVouchForTheirTrades GreenIsEarned TradesNeedALiveMarket MarginsAreAccounted JournalIsMemory
PROPERTIES FundingIsKept
CHECK_DEADLOCK FALSE

SPECIFICATION DataSpec
CONSTANTS
    Scenes = {"bars"}
    a = a
    b = b
    Venues <- OneVenue
    Dwell = 2
    HaltDay = 3
    LastTick = 6
    MaxWatchKills = 1
    Threshold = 1
    LastBeat = 7
    MaxTickKills = 2
    MaxStepsBack = 1
    Spenders <- Two
    Capacity = 2
    Refill = 1
    Weights = {1, 2}
    BanLengths = {1, 2}
    LastPulse = 3
    MaxSpenderKills = 1
    MaxBoots = 1
    Tiers <- OneTier
    MinutesPerHour = 2
    HoursPerDay = 2
    LookaheadHours = 1
    FirstMinute = 6
    LastMinute = 9
    Lags = {0, 1}
    GarbledEvents = {}
    MaxTrades = 3
    MaxLiveRestarts = 0
    MaxBuilds = 2
    MaxBuildKills = 0
    MaxCorrections = 0
    MaxPolls = 0
    Boards <- Looks
    Ttl = 1
    StaleAfter = 1
    MaxPass = 1
    LastMoment = 4
    MaxSpoils = 1
    Plays <- Listings
    QuietAfter = 1
    BufferSize = 2
    Ring = 2
    MinSamples = 2
    LongestWait = 2
    LastInstant = 3
    MaxFeedFaults = 1
    Bots = {perp, spot}
    Symbols = {s1, s2}
    perp = perp
    spot = spot
    s1 = s1
    s2 = s2
    Universe <- TwoByOne
    Declarations <- TwoDeclarations
    MaxUsdt = 3
    CompactAfter = 3
    NoBot = NoBot
    BotFaults <- AllFaults
    MaxOpenPositions = 1
    MaxKills = 1
    NoDeclaration = NoDeclaration
    NoSymbol = NoSymbol
INVARIANT CompleteBarsAreServed
CHECK_DEADLOCK FALSE

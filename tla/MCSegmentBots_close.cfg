SPECIFICATION BotsSpec
CONSTANTS
    Bots = {perp, spot}
    Symbols = {s1, s2}
    perp = perp
    spot = spot
    s1 = s1
    s2 = s2
    Universe <- TwoByOne
    Declarations <- OneDeclaration
    MaxUsdt = 3
    CompactAfter = 3
    NoBot = NoBot
    BotFaults <- KillOnly
    MaxOpenPositions = 1
    MaxKills = 1
    NoDeclaration = NoDeclaration
    NoSymbol = NoSymbol
INVARIANTS PositionsAreFunded

SPECIFICATION Spec
CONSTANTS
    Faults = {"power"}
    BlockFills = TRUE
    MaxFrames = 3
    MaxFailures = 2
    Recovered = Recovered
    None = None
INVARIANTS DamageIsRepairable
CHECK_DEADLOCK FALSE

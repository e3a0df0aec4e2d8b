SPECIFICATION Spec

CONSTANTS
    Look      <- MCLook
    Ticks     <- MCTicks
    MaxHp     <- MCMaxHp
    Scenarios <- MCScenarios
    Deltas    <- MCDeltas
    MaxKeys     = 2
    MaxRestarts = 1

INVARIANTS
    FilmIsInOrder

PROPERTIES
    EnvelopesRun
    FilmEnds

CHECK_DEADLOCK FALSE

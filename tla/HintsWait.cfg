SPECIFICATION FairSpec
CONSTANTS
    Paths = {p}
    Versions = {1, 2}
    InitialVersion = 1
    Agents = {a}
    Turns = {t}
    Quiet = 1
    MaxAge = 1
    TurnMaxAge = 1
    ReviewLimit = 2
    MaxHints = 1
    MaxGeneration = 1
    MaxForeignEdits = 1
    NoVersion = NoVersion
    NoAgent = NoAgent
    NoTurn = NoTurn
PROPERTIES WaitEnds

SPECIFICATION Spec
CONSTANTS
    Paths = {p, q}
    Versions = {1, 2}
    InitialVersion = 1
    Agents = {a}
    Turns = {t, NoTurn}
    Quiet = 1
    MaxAge = 1
    TurnMaxAge = 2
    ReviewLimit = 2
    MaxHints = 2
    MaxGeneration = 0
    MaxForeignEdits = 0
    NoVersion = NoVersion
    NoAgent = NoAgent
    NoTurn = NoTurn
SYMMETRY PathSymmetry
INVARIANTS HintedEditIsVisible HintsAreTakenInTime
PROPERTIES FlushedOnRequest

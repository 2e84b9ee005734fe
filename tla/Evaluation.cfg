SPECIFICATION FairSpec
CONSTANTS
    c = c
    d = d
    f = f
    g = g
    h = h
    Cases = {c, d}
    FilesOf <- TwoFilesAndOne
    FrozenAttempts = 2
    CommandLines <- TypicalCommandLines
    RunnerFailures = {"timeout", "provider-error"}
INVARIANTS AnswersAreOwn CallsAreAuthorised AttemptsAreKept ArtifactIsScorable
PROPERTIES RunEnds
\* The harness exits.
CHECK_DEADLOCK FALSE

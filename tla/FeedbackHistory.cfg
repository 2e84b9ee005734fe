SPECIFICATION Spec
CONSTANTS
    Paths = {1, 2, 3}
    MaxTrackedFiles = 2
    MaxTrackedFindings = 2
    Digests = {b1, b2}
    Fingerprints = {1, 2}
    Lines = {1, 2}
    MaxFindings = 2
    b1 = b1
    b2 = b2
    MaxRounds = 1
    ResetAfter = 0
    Setups <- BothSetups
    MaxTime = 1
    MaxReviews = 3
    MaxFaults = 1
SYMMETRY DigestSymmetry
INVARIANTS NewerSnapshotsWin EventsFitEnvelope RoundsAreBounded
PROPERTIES StatusIsExact WithheldForItsOwnRounds
CHECK_DEADLOCK FALSE

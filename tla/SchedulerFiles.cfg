SPECIFICATION FairSpec
CONSTANTS
    a = a
    b = b
    c = c
    r = r
    s = s
    Paths = {a, b}
    Contents = {1, 2, 3, 4}
    Unreadable = {3}
    Edits <- OneGrowingFile
    InitialContent = 1
    Agents = {}
    Markers = {}
    ReviewLimit = 1
    MaxGeneration = 0
    Interruptible = {"idle", "read", "capture", "submit"}
    SinkFaults = FALSE
    NoDigest = NoDigest
    NoAgent = NoAgent
    NoMarker = NoMarker
INVARIANTS TypeOK FollowUpComplementsActive NoLostChange
PROPERTIES PublishedIsNewestObserved EventuallySettled WorkerStops
\* The watcher idles when nothing changes, and stops when it is closed.
CHECK_DEADLOCK FALSE

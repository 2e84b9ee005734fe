SPECIFICATION FairSpec
CONSTANTS
    a = a
    b = b
    c = c
    r = r
    s = s
    Paths = {a, b}
    Contents = {1, 2}
    Unreadable = {}
    Edits <- HotEdits
    InitialContent = 1
    Agents = {}
    Markers = {}
    ReviewLimit = 1
    MaxGeneration = 0
    Interruptible = {}
    SinkFaults = FALSE
    NoDigest = NoDigest
    NoAgent = NoAgent
    NoMarker = NoMarker
PROPERTIES StableFileSettles
\* The watcher idles when nothing changes, and stops when it is closed.
CHECK_DEADLOCK FALSE

SPECIFICATION Spec
CONSTANTS
    a = a
    b = b
    c = c
    r = r
    s = s
    Paths = {a}
    Contents = {1, 2}
    Unreadable = {}
    Edits <- RevertingEdits
    InitialContent = 1
    Agents = {}
    Markers = {}
    ReviewLimit = 1
    MaxGeneration = 0
    Interruptible = {}
    SinkFaults = FALSE
    NoDigest = NoDigest
    NoAgent = NoAgent
    NoMarker = NoMarker
INVARIANT NoLostChange
\* The watcher idles when nothing changes, and stops when it is closed.
CHECK_DEADLOCK FALSE

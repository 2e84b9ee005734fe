SPECIFICATION Spec
CONSTANTS
    a = a
    b = b
    c = c
    r = r
    s = s
    Paths = {a, b}
    Contents = {1, 2}
    Unreadable = {}
    Edits <- OneEdit
    InitialContent = 1
    Agents = {r, s}
    Markers = {1, 2, 3, 4, 5}
    ReviewLimit = 1
    MaxGeneration = 1
    Interruptible = {"idle", "submit"}
    SinkFaults = TRUE
    NoDigest = NoDigest
    NoAgent = NoAgent
    NoMarker = NoMarker
SYMMETRY AgentSymmetry
INVARIANTS OwnedReviewIsMarked MarkersAreHeld
PROPERTIES SpooledWithinGeneration
\* The watcher idles when nothing changes, and stops when it is closed.
CHECK_DEADLOCK FALSE

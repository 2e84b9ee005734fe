SPECIFICATION FairSpec
CONSTANTS
    Paths = {hot, other}
    AgentPaths = {other}
    Digests = {b1, b2}
    ContentsOf <- AgentContents
    b1 = b1
    b2 = b2
    NoDigest = NoDigest
    NoPath = NoPath
    Debounce = 2
INVARIANTS NoChangeLost NoStaleObservation
PROPERTIES ChangeIsSubmitted

SPECIFICATION Spec
CONSTANTS
    B1 = B1
    B2 = B2
    A1 = A1
    A2 = A2
    H1 = H1
    H2 = H2
    Batches = {B1, B2}
    Findings = {1, 2}
    Cites <- SharedFinding
    GenerationOf <- InOneGeneration
    Agents = {A1}
    Hooks = {H1, H2}
    ChunkSize = 1
    MaxGeneration = 0
    MaxCrashes = 1
    Republished = {B2}
    NoAgent = NoAgent
    NoBatch = NoBatch
SYMMETRY HookSymmetry
INVARIANTS ClaimedOnce CopiesAreComplete
PROPERTIES PublishedIsOffered
\* Nothing need ever be published, and hooks may stay away.
CHECK_DEADLOCK FALSE

SPECIFICATION FairSpec
CONSTANTS
    B1 = B1
    B2 = B2
    A1 = A1
    A2 = A2
    H1 = H1
    H2 = H2
    Batches = {B1, B2}
    Findings = {1, 2, 3}
    Cites <- TwoFindings
    GenerationOf <- InGenerations
    Agents = {A1, A2}
    Hooks = {H1}
    ChunkSize = 1
    MaxGeneration = 1
    MaxCrashes = 1
    Republished = {}
    NoAgent = NoAgent
    NoBatch = NoBatch
INVARIANTS TypeOK
PROPERTIES DeliverySpec DeliveredToOwner DeliveredOnce EventuallyDelivered
\* Nothing need ever be published, and hooks may stay away.
CHECK_DEADLOCK FALSE

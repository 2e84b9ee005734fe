SPECIFICATION Spec
CONSTANTS
    i1 = i1
    i2 = i2
    codex = codex
    claude = claude
    s1 = s1
    s2 = s2
    Initializers = {i1, i2}
    Kinds = {codex, claude}
    Spools = {s1, s2}
    Requests <- Competing
    Agents = {agent}
    MaxGeneration = 2
    MaxBatches = 2
    MaxCleanups = 2
    Nobody = Nobody
INVARIANTS TypeOK NothingOutlivesItsSession
PROPERTIES NothingIsOverwritten SuccessIsInstalled QuietCleanupKeepsFeedback

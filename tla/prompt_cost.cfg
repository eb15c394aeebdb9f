SPECIFICATION Spec
CONSTANTS
    Texts <- MCTexts
    CharsPerToken = 2
    ChunkSize = 2
    WorldSize = 2
    NumLayers = 3
    ModelNames <- MCModelNames
    ModelProfiles <- MCModelProfiles
    GPUProfiles <- MCGPUProfiles
    DefaultLink = 3
    LinkLatency = 1
    Configs <- MCConfigs
    MaxTokens = 2
INVARIANTS
    HitsAreExact
    KeysIdentifyShards
    HitSavesItsWork
    ServedIsEstimate
    ClosestAnchorsDecide
    MeasurementReproduced

SPECIFICATION Spec
CONSTANTS
    NCells = 3
    NSectors = 2
    Bits <- MCBits
    SectorOf <- MCSectorOf
    Batches <- MCBatches
INVARIANTS
    SuccessIsFile

SPECIFICATION Spec
CONSTANTS
    NCells = 2
    NSectors = 2
    RomSize = 24
    OtaTicks = 2
    CrcInit = 2
    CrcZero = 0
    Bits <- MCBits
    SectorOf <- MCSectorOf
    Sizes <- MCSizes
    FrameIds <- MCFrameIds
    Crcs <- MCCrcs
    CrcFrame <- MCCrcFrame
INVARIANT
    AcceptedFits

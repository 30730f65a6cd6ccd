SPECIFICATION FairSpec
CONSTANTS
    BoxSize = 3
    SemMax = 4
    MaxFrames = 8
INVARIANTS
    TypeOK
    NodesConserved
    BoxIsLatest
    SignalCovers
PROPERTIES
    HandledInOrder
    NoFrameStays
    ImplementsMailbox
CHECK_DEADLOCK FALSE

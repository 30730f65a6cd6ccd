SPECIFICATION FairSpec
CONSTANTS
    MqSize = 2
    NegStates = {DISCONNECT, OK}
    DISCONNECT = DISCONNECT
    OK = OK
    Neg0 = DISCONNECT
INVARIANTS
    TypeOK
    AlarmKnown
PROPERTIES
    AlarmArrives
    ReportSettles

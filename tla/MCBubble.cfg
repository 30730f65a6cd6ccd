SPECIFICATION FairSpec
CONSTANTS
    BufSize = 3
    SemMax = 2
INVARIANTS
    TypeOK
    NoFalseAlarm
PROPERTY
    AlarmSettles
    CountSettles

SPECIFICATION Spec
CONSTANTS
    Inputs <- MCInputs
    Scale = 2
    U32Max = 20
    Limit1Low = 2
    Limit1High = 4
    Limit2Low = 6
    Limit2High = 8
    Limit3Low = 10
    Limit3High = 12
    ErrorReduce = 3
    Half = 1
INVARIANTS
    TypeOK
    HoldMeansError
    ChangeReported
    LastReportCurrent
PROPERTIES
    ErrorHeld
    OutliersIgnored
    NoFlapping
    SteadyIsStable

SPECIFICATION FairSpec
CONSTANTS
    Comps <- MCComps
    Levels <- MCLevels
    Blue <- MCBlue
    Dark <- MCDark
INVARIANTS
    TypeOK
    LightIsLastCommand
PROPERTY
    LightSettles

SPECIFICATION FairSpec
CONSTANT
    Data0 = {0, 1, 2}
INVARIANTS
    TypeOK
    ConvertersAsRemembered
PROPERTY
    ConvertersFollow

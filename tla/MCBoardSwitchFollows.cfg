SPECIFICATION FairSpec
CONSTANT
    Data0 = {0, 1, 2}
PROPERTY
    ConvertersAlwaysFollow

CONSTANTS
    p1 = p1
    p2 = p2
    p3 = p3
    p4 = p4
    a = a
    b = b
    c = c
    pub = pub
    pub2 = pub2
    NoFile = NoFile
    NoText = NoText
    Spoilt = Spoilt
    Generators <- FourProcesses
    Paths <- FivePaths
    PrivatePath <- SharedPrivate
    PublicPath <- SharedPublic
    Forcing <- ThirdForces
    MaxKeys = 2
    MaxDeaths = 2
SPECIFICATION KeySpec
CHECK_DEADLOCK FALSE
INVARIANTS
    PairsMatch
    OneWins
PROPERTY
    PrivateKeysKept

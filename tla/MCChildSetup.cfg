CONSTANTS
    Fd <- MCFd
    Limit <- MCLimit
    FallbackMax = 5
    U32Max = 7
    Number <- MCNumber
    Signal <- MCSignal
SPECIFICATION SetupSpec
INVARIANTS
    SetupTypeOK
    OnlyControl
    ControlKept
    ServesConfined
    PassedMeansConfined
    ReportIsTrue
PROPERTIES
    ExitsEnd

CONSTANTS
    Thread = {t1, t2}
    Child = {c1, c2}
    Probe = {}
    MaxId = 2
    Service = service
    NoThread = NoThread
    NoChild = NoChild
SPECIFICATION Spec
INVARIANTS
    TypeOK
    ChannelIsQuiet
    AnswerIsForThisCall
    OneExecutor
    PidIsOwned
    IndInv
    AcceptedIsCanonical
    EncodedIsParsed
PROPERTIES
    ImplementsAbstract

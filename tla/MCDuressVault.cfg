CONSTANTS
    Caller = {c1, c2}
    Pin = {p1, p2}
    Entry = {e1, e2}
    NoFile = NoFile
    Torn = Torn
    StartsMeanwhile = FALSE
SPECIFICATION Spec
INVARIANTS
    TypeOK
    VerifierIsWhole
    RetryKept
    TriggeredMeansGone
PROPERTIES
    ImplementsVault

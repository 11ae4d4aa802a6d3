CONSTANTS
    Guest = {g1, g2}
    NoGuest = NoGuest
    Restarts = FALSE
    Interrupts = FALSE
SPECIFICATION FairSpec
PROPERTIES
    CallsReturn
    StatusRests

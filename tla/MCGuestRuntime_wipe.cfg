CONSTANTS
    Guest = {g1}
    NoGuest = NoGuest
    Restarts = FALSE
    Interrupts = FALSE
SPECIFICATION Spec
SYMMETRY Symmetry
INVARIANT WipeFindsGuestStopped

CONSTANTS
    Guest = {g1, g2}
    NoGuest = NoGuest
    Restarts = TRUE
    Interrupts = TRUE
SPECIFICATION Spec
SYMMETRY Symmetry
INVARIANTS
    TypeOK
    OneSupervisor
    GuestPidIsOwned
PROPERTIES
    ImplementsGuest

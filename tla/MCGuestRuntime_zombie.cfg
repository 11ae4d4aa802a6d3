CONSTANTS
    Guest = {g1, g2}
    NoGuest = NoGuest
    Restarts = FALSE
    Interrupts = FALSE
SPECIFICATION PatientSpec

PROPERTY DeadGuestIsNoticed

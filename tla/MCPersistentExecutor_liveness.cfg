CONSTANTS
    Thread = {t1}
    Child = {c1, c2}
    Probe = {p1}
    MaxId = 1
    Service = service
    NoThread = NoThread
    NoChild = NoChild
SPECIFICATION Spec
INVARIANTS
    NoDescriptorLeak
    SoleCapability
PROPERTIES
    CallsEnd
    AbandonedChildEnds

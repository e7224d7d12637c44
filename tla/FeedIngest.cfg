SPECIFICATION Spec
CONSTANTS
    NoRow = NoRow
    Messages <- MCMessages
    Window = 1
    MaxArrivals = 4
    MaxFaults = 1
INVARIANTS
    TypeOK
    PublishedIsStored
    DuplicatesAreCaughtWithinTheWindow
PROPERTIES
    ReceivedIsStored
CHECK_DEADLOCK FALSE

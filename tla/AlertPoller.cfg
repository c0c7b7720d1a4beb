SPECIFICATION Spec
CONSTANTS
    MaxSignals = 3
CHECK_DEADLOCK FALSE
INVARIANTS
    TypeOK
    QuietAfterStop
PROPERTIES
    SignalStopsPoller
    KeepsChecking

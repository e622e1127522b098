SPECIFICATION Spec
CONSTANTS
    d1 = d1
    d2 = d2
    NoDevice = NoDevice
    Device <- Devices
    MaxGen = 3
INVARIANTS
    PendingIsOnSelectedDevice
PROPERTY BehavesAsStickyVerdict

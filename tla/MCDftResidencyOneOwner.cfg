CONSTANTS
    Owner = {o1}
    Array = {f1, f2}
    Dft = {f2}
    Device = {d1, d2}
    NoDevice = NoDevice
    Value <- MCValue
    NoValue <- MCNoValue
    Combine <- MCCombine
SYMMETRY Interchangeable
SPECIFICATION DftSpec
INVARIANTS
    TypeOK
    CleanMirrorsMatchHost
    PhaseOnSelectedDevice
PROPERTY
    BehavesAsFieldStore

CONSTANTS
    Owner = {o1, o2}
    Array = {f1}
    Dft = {f1}
    Device = {d1}
    NoDevice = NoDevice
    Value <- MCValue
    NoValue <- MCNoValue
    Combine <- MCCombine
SPECIFICATION DftSpec
INVARIANT WritesAreVisible

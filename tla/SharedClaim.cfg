CONSTANTS
    r1 = r1
    r2 = r2
    r3 = r3
    Rank = {r1, r2}
    Group <- TwoSingles
    Owner = {o1, o2}
    Device = {d1}
    NoDevice = NoDevice
SPECIFICATION Spec
INVARIANT NoSilentOversubscription

CONSTANTS
    r1 = r1
    r2 = r2
    r3 = r3
    Rank = {r1, r2, r3}
    Group <- PairAndOne
    Owner = {o1}
    Device = {d1, d2}
    NoDevice = NoDevice
SPECIFICATION FairSpec
INVARIANTS
    ClaimsAreCompatible
    NoSilentOversubscription
PROPERTY
    ValidationEnds

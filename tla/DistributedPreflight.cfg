CONSTANTS
    Rank = {r1, r2}
SPECIFICATION FairSpec
INVARIANTS
    CollectivesMatch
    OneBackend
    CachedDecisionsAgree
PROPERTY
    StepEnds

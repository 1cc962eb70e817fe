SPECIFICATION Spec
CONSTANTS
    Pool <- MCPool
    Torn <- MCTorn
    BadAt <- MCBadAt
    BadShape <- MCBadShape
    Namings <- MCNamings
    Shops <- MCShops
    Trains <- MCTrains
    Lower <- MCLower
    MaxFiles = 3
    MaxTime = 2
    Staleness = 1
    Unreadable = Unreadable
    Keyless = Keyless
    Nil = Nil
INVARIANTS TypeOK FoldIsReference LanesAgree NothingHidden DetectorAgrees IndexAgrees CalmIffWell
PROPERTY NeverBack
CHECK_DEADLOCK FALSE

SPECIFICATION FairSpec
CONSTANTS
    Pollers = {p1, p2}
    Subjects = {s1}
    StalenessMs = 0
    AgeBucketMs = 2
    MaxTime = 2
    MaxOutages = 1
    MaxFaults = 1
    MaxSkew = 1
    Nil = Nil
INVARIANTS TypeOK PollInv FailedKeepsShown NeverUnshows
PROPERTIES BroadcastsInOrder NoIdleBump Converges

SPECIFICATION Spec
CONSTANTS
    Pollers = {p1}
    Subjects = {s1}
    StalenessMs = 1
    AgeBucketMs = 2
    MaxTime = 3
    MaxOutages = 1
    MaxFaults = 0
    MaxSkew = 0
    Nil = Nil
INVARIANT AsOfIsLastSuccess

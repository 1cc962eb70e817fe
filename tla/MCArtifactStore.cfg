SPECIFICATION Spec
CONSTANTS
    Invocations = {i1, i2, i3}
    Subjects = {s1}
    MaxTime = 1
    MaxAttempts = 2
    MaxKills = 1
    Torn = Torn
    Nil = Nil
SYMMETRY Symmetry
INVARIANTS TypeOK AccountedFor NoneMissed OpenOnlyByRace
CHECK_DEADLOCK FALSE

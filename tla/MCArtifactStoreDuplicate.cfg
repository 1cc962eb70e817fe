SPECIFICATION Spec
CONSTANTS
    Invocations = {i1, i2}
    Subjects = {s1}
    MaxTime = 1
    MaxAttempts = 2
    MaxKills = 0
    Torn = Torn
    Nil = Nil
INVARIANT OneOpenDispatch
CHECK_DEADLOCK FALSE

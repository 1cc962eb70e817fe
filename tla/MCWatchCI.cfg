SPECIFICATION Spec
CONSTANTS
    Timeout = 2
    Interval = 1
    Conclusions = {"success", "failure"}
    MaxRuns = 2
    MaxAttempts = 2
    MaxTime = 4
    MaxWatches = 2
    Nil = Nil
INVARIANTS TypeOK Honest
PROPERTIES RecordNeverBack Ends
CHECK_DEADLOCK FALSE

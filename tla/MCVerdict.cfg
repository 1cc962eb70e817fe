SPECIFICATION Spec
CONSTANTS
    Names = {"r1", "r2"}
    Tasks = {"t1"}
    Results = {"plain", "/home/op/x"}
    Portable <- MCPortable
    Verdicts = {"REJECT", "APPROVE"}
    Outcome <- MCOutcome
    Old <- MCOld
    Historied = {"r1"}
    MaxResults = 2
    MaxEdits = 1
    Nil = Nil
INVARIANTS TypeOK VerifiedAsLanded OrphanOnlyByFault
PROPERTY NoVerdictLost
CHECK_DEADLOCK FALSE

SPECIFICATION FairSpec
CONSTANTS
    Handlers = {h1, h2}
    Stalled = {h2}
    MaxSeq = 3
    Nil = Nil
INVARIANTS TypeOK StreamInv NeverPanics
PROPERTIES BroadcastEnds CatchesUp

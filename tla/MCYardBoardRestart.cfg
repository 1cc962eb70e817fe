SPECIFICATION Spec
CONSTANTS
    Handlers = {h1}
    MaxSeq = 2
    MaxVersion = 2
    MaxRestarts = 1
    MaxDrops = 0
    MaxPipe = 1
    Invalid = Invalid
    Gone = Gone
    Nil = Nil
INVARIANT RestartNeverHides

SPECIFICATION FairSpec
CONSTANTS
    Handlers = {h1, h2}
    MaxSeq = 2
    MaxVersion = 2
    MaxRestarts = 1
    MaxDrops = 1
    MaxPipe = 1
    Invalid = Invalid
    Gone = Gone
    Nil = Nil
INVARIANTS QuietIsCurrent
PROPERTIES MirrorSpec ComesToShow

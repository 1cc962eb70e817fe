SPECIFICATION Spec
CONSTANTS
    MaxSeq = 3
    Beats = {0, 1, 3}
    Payloads <- MCPayloads
    Invalid = Invalid
    DefaultBeat = 2
    Nil = Nil
INVARIANTS TypeOK ScreenIsTrue SilenceDisclosed
PROPERTY NeverRollsBack

SPECIFICATION Spec
CONSTANTS
    Workers = {w1, w2, w3}
    Starting = {w3}
    MaxEpoch = 1
    NoOwner = NoOwner
INVARIANT StoppedWorld

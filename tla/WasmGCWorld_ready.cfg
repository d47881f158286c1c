SPECIFICATION Spec
CONSTANTS
    Workers = {w1, w2, w3}
    Starting = {}
    MaxEpoch = 3
    NoOwner = NoOwner
SYMMETRY Symmetry
INVARIANTS StoppedWorld NoFatal

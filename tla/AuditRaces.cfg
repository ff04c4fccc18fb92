SPECIFICATION Spec
CONSTANTS
    Writers = {w1, w2}
    NoWriter = NoWriter
    Bodies = {b1, b2}
    MaxEvents = 3
INVARIANTS
    ChainVerifies
    DamageShows
    NoLockCycle
PROPERTIES
    ImplementsLog

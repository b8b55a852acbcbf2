\* A faulty backup sends three different checkpoints for sequence number 1.
CONSTANTS
    N = 4
    F = 1
    K = 1
    LogMultiplier = 2
    ViewChangePeriod = 30
    Byz = {3}
    b1 = b1
    b2 = b2
    b3 = b3
    Blocks <- MC_Blocks
    ByzMsgs <- MC_ByzEquivocation
    Proposers = {0}
    MaxSeq = 1
    MaxView = 1
    MaxSpurious = 0
    SpuriousAt = {}
    TimeoutAt = {}
    Nil = Nil
SPECIFICATION Spec
VIEW MC_TimerView
INVARIANT
    NoFatalCheckpoint

\* Normal operation: a correct primary, one silent faulty backup, and
\* backup 1's newViewTimer free to expire at any moment it is armed.
CONSTANTS
    N = 4
    F = 1
    K = 1
    LogMultiplier = 2
    ViewChangePeriod = 30
    Byz = {3}
    b1 = b1
    b2 = b2
    b3 = b3
    Blocks <- MC_TwoBlocks
    ByzMsgs <- MC_ByzMsgs
    Proposers = {0}
    MaxSeq = 2
    MaxView = 1
    MaxSpurious = 0
    SpuriousAt = {}
    TimeoutAt = {1}
    Nil = Nil
SYMMETRY MC_Symmetry2
SPECIFICATION Spec
VIEW MC_TimerView
INVARIANTS
    TypeOK
    CertsWithinWatermarks
PROPERTY
    RefinesLog

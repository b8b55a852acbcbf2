\* The primary of view 0 is faulty and pre-prepares both blocks at sequence
\* number 1 to whichever backups it likes.
CONSTANTS
    N = 4
    F = 1
    K = 1
    LogMultiplier = 2
    ViewChangePeriod = 30
    Byz = {0}
    b1 = b1
    b2 = b2
    b3 = b3
    Blocks <- MC_TwoBlocks
    ByzMsgs <- MC_ByzPrimary
    Proposers = {}
    MaxSeq = 1
    MaxView = 1
    MaxSpurious = 0
    SpuriousAt = {}
    TimeoutAt = {}
    Nil = Nil
SYMMETRY MC_Symmetry2
SPECIFICATION Spec
VIEW MC_TimerView
INVARIANTS
    Agreement

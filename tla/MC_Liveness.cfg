\* Three honest replicas and a silent faulty one; the primary is fed two
\* blocks, the second of which finds the window (h, h+L/2] full.
CONSTANTS
    N = 4
    F = 1
    K = 1
    LogMultiplier = 2
    ViewChangePeriod = 30
    Byz = {3}
    b1 = b1
    b2 = b2
    b3 = b3
    Blocks <- MC_TwoBlocks
    ByzMsgs <- MC_ByzMsgs
    Proposers = {0}
    MaxSeq = 2
    MaxView = 0
    MaxSpurious = 0
    SpuriousAt = {}
    TimeoutAt = {}
    Nil = Nil
SPECIFICATION MC_FairSpec
VIEW MC_TimerView
PROPERTY
    FedBlocksExecuted

\* A faulty backup sends a prepare of view 1; replica 2 may get one ExecDoneEvent with nothing executing, which leads it into a state transfer.
CONSTANTS
    N = 4
    F = 1
    K = 1
    LogMultiplier = 2
    ViewChangePeriod = 30
    Byz = {3}
    b1 = b1
    b2 = b2
    b3 = b3
    Blocks <- MC_TwoBlocks
    ByzMsgs <- MC_ByzStaleView
    Proposers = {0}
    MaxSeq = 2
    MaxView = 1
    MaxSpurious = 1
    SpuriousAt = {2}
    TimeoutAt = {}
    Nil = Nil
SPECIFICATION Spec
VIEW MC_TimerView
PROPERTY
    ViewChangesOnlyThroughProtocol

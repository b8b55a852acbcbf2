\* The primary handles one ExecDoneEvent with nothing executing.
CONSTANTS
    N = 4
    F = 1
    K = 1
    LogMultiplier = 2
    ViewChangePeriod = 30
    Byz = {3}
    b1 = b1
    b2 = b2
    b3 = b3
    Blocks <- MC_TwoBlocks
    ByzMsgs <- MC_ByzMsgs
    Proposers = {0}
    MaxSeq = 2
    MaxView = 1
    MaxSpurious = 1
    SpuriousAt = {0}
    TimeoutAt = {}
    Nil = Nil
SPECIFICATION Spec
VIEW MC_TimerView
INVARIANT
    NoDoubleExecution

\* A backup's worker posts one CommittedEvent that no executeOne asked for.
CONSTANTS
    N = 4
    F = 1
    K = 1
    LogMultiplier = 2
    ViewChangePeriod = 30
    Byz = {3}
    b1 = b1
    b2 = b2
    b3 = b3
    Blocks <- MC_TwoBlocks
    ByzMsgs <- MC_ByzClaims
    Proposers = {0}
    MaxSeq = 1
    MaxView = 1
    MaxSpurious = 1
    SpuriousAt = {2}
    TimeoutAt = {}
    Nil = Nil
SYMMETRY MC_Symmetry2
SPECIFICATION Spec
VIEW MC_TimerView
INVARIANTS
    TransferTargetsVouched
    Agreement

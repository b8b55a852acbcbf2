\* Start, stop and start again: the second start may find the agent not yet stopped.
CONSTANTS
    MaxWork = 4
    MaxCtl = 3
    Nil = Nil
SPECIFICATION Spec
INVARIANT
    NoWedgedLock
CHECK_DEADLOCK FALSE

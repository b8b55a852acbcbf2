\* Start, stop and start again, with up to four works mined.
CONSTANTS
    MaxWork = 4
    MaxCtl = 3
    Nil = Nil
SPECIFICATION Spec
INVARIANT
    TypeOK
    OneSealing
\* the operator calls and the works are bounded, so the miner stops
CHECK_DEADLOCK FALSE

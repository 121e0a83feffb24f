CONSTANTS
    NUM_VC = 2
    HostLaneSize = 1
    HostRspVcSize = 3
    DevVcSize = 2
    DevLaneSize = 1
    BufSize = 1
    BusSize = 1
    RamInpSize = 1
    MemSize = 2
    HostPackerWaitTime = 2
    DevPackerWaitTime = 1
    SeqThreshold = 5
    MaxMsgs = 3
    TraceToDam = {FALSE, TRUE}
SPECIFICATION Spec
INVARIANTS TypeOK MessageConservation CreditConservation FlitStreamWellFormed SkipChecksSound
PROPERTY ServiceRefinement

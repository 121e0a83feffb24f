CONSTANTS
    NumDevices = 2
    HostStream <- MCHostStream
    DevStream <- MCDevStream
    SKIP_CYCLE = TRUE
SPECIFICATION LiveSpec
INVARIANT TypeOK
INVARIANT HostUnpacksUpstream
INVARIANT RequestsReachOwner
INVARIANT SwitchSkipSound
PROPERTY AllDelivered

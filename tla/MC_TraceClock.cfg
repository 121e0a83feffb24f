CONSTANTS
    Traces <- MCTraces
    MaxLines <- MCMaxLines
    TicksPerIns <- MCTicksPerIns
    BufCap <- MCBufCap
    MinLatency <- MCMinLatency
    MaxTick <- MCMaxTick
SPECIFICATION Spec
PROPERTY RewindOneTick
CHECK_DEADLOCK FALSE

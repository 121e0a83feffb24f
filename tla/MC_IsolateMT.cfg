CONSTANTS
    RangeLines <- MCRangeLines
    SrcFiles <- MCSrcFiles
SPECIFICATION Spec
INVARIANT UnmatchedAddressesUnchanged
CHECK_DEADLOCK FALSE

SPECIFICATION RpcSpec
CONSTANTS
    Octets <- MCOctets
    Names <- MCLongNames
    Plain <- MCPlain
    Extended <- MCExtended
    Contents <- MCShortContents
    MaxExtra = 1
    MaxCalls = 2
    MaxGarbage = 1
INVARIANT FunctionNamedIsCalled
CHECK_DEADLOCK FALSE

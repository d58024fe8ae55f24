SPECIFICATION RpcFairSpec
CONSTANTS
    Octets <- MCOctets
    Names <- MCNames
    Plain <- MCPlain
    Extended <- MCExtended
    Contents <- MCContents
    MaxExtra = 1
    MaxCalls = 3
    MaxGarbage = 1
INVARIANTS
    LengthsKeepAll
    CrashesOnlyWhen
PROPERTIES
    Answered
CHECK_DEADLOCK FALSE

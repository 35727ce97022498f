CONSTANTS
    NaN = NaN
    RawIds <- MCRawIds
    LogRawIds <- MCLogRawIds
    Services = {s1, s2}
    NUMBER_LETTERS = 1
    MaxFeed = 2
    MaxLogs = 2
    MaxMounts = 2
SPECIFICATION LogsSpec
INVARIANTS
    LogsTypeOK
    LogRowsCanonical
    JoinKeysAgree

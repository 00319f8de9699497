SPECIFICATION Spec
CONSTANTS
    SessionId = {s1, s2, s3}
    Account = {a1, a2}
    Char = {c1, c2}
    NoSession = NoSession
    NoAccount = NoAccount
    NoChar = NoChar
    MaxConnections = 3
    MaxCharacters = 1
    AUTH_TIMEOUT_SECONDS = 0
    CHAR_SELECT_TIMEOUT = 0
    INWORLD_PING_TIMEOUT = 0
    MaxProgress = 1
SYMMETRY Symmetry
INVARIANTS
    OneSessionPerAccount
    WorldMatchesSessions
    NoLostProgress
PROPERTIES
    HandoverThroughDatabase
CHECK_DEADLOCK FALSE

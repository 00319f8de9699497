SPECIFICATION FairSpec
CONSTANTS
    SessionId = {s1, s2}
    Account = {a1}
    Char = {c1}
    NoSession = NoSession
    NoAccount = NoAccount
    NoChar = NoChar
    MaxConnections = 2
    MaxCharacters = 1
    AUTH_TIMEOUT_SECONDS = 0
    CHAR_SELECT_TIMEOUT = 1
    INWORLD_PING_TIMEOUT = 0
    MaxProgress = 0
PROPERTIES
    ClosedIsRemoved
    SilentIsRemoved
CHECK_DEADLOCK FALSE

SPECIFICATION CrashSpec
CONSTANTS
    p1 = p1
    p2 = p2
    Player = {p1, p2}
    NoPlayer = NoPlayer
    MAX_SLOTS = 2
    TRADE_SLOTS = 1
    Item <- MCItem
    StackLimit <- MCStackLimit
    Start <- MCStart
PROPERTY CrashDuplicatesNothing

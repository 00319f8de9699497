SPECIFICATION FairDuelSpec
CONSTANTS
    Guid <- MCGuid
    MaxHealth = 2
    DUEL_MIN_HEALTH = 1
    DUEL_COUNTDOWN_S = 2
INVARIANT ManagerIsSound
PROPERTIES
    DuelRunsItsCourse
    OpponentNeverKills
    PairsKept
    CountdownEnds
    OfferGoesUnlessRenewed

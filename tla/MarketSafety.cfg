SPECIFICATION Spec
CONSTANTS
    MAX_SLOTS = 2
    Item <- MCItem
    StackLimit <- MCStackLimit
    herbs = herbs
    wolf = wolf
    kill = kill
    Deed <- MCDeed
    Quest <- MCQuest
    Template <- MCTemplate
    MAX_ACTIVE_QUESTS = 2
    MaxLevel = 3
    ExpForLevel <- MCExpForLevel
    MaxBatch = 3
    MaxGold = 1
    MaxExp = 1
    SellPrice <- MCSellPrice
    BuyCostRatio <- MCBuyCostRatio
    Stock <- MCStock
    Drops <- MCDrops
    MAX_BUYBACK_SLOTS = 1
    MAX_INT = 1
INVARIANTS StatusFollowsTally LimitedStaysLimited
PROPERTIES NotifiedChangesAreTallied RewardIsExact NothingIsLost

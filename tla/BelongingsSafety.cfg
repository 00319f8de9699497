SPECIFICATION Spec
CONSTANTS
    MAX_SLOTS = 2
    BANK_SLOTS = 2
    Item <- MCItem
    StackLimit <- MCStackLimit
    EquipSlot <- MCEquipSlot
    FitsIn <- MCFitsIn
    MaxBatch = 3
    MaxItems = 3
    MaxDurability = 1
INVARIANT CleanIsSaved
PROPERTIES RearrangingConserves AddTakesAllThatFits SortLeavesOrder

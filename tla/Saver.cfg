SPECIFICATION FairSaverSpec
CONSTANTS
    s1 = s1
    s2 = s2
    s3 = s3
    s4 = s4
    Op = {s1, s2, s3, s4}
    NoOp = NoOp
INVARIANT SavesAccountedFor
PROPERTIES PerformedOnceInTurn StopDrains QueuedIsPerformed

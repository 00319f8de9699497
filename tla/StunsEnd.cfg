SPECIFICATION FairSpec
CONSTANTS
    n1 = n1
    n2 = n2
    p1 = p1
    p2 = p2
    field = field
    town = town
    Map = {field, town}
    Field = field
    Npc = {n1, n2}
    Player = {p1}
    Caster = {p1}
    CanCall = {n1}
    Leader <- MCLeader
    Linked = {n2}
    RespawnTicks = 1
    BurnTicks = 1
    Aim = {n2}
    MaxMana = 1
PROPERTIES
    StunsEnd

SPECIFICATION Spec
CONSTANTS
    Character = {c1, c2, c3, c4}
    GuildId = {g1, g2}
    NoGuild = NoGuild
    MAX_GUILD_MEMBERS = 3
SYMMETRY MCSymmetry
INVARIANTS IndexesAgree MemoryIsDatabase GuildIsLed GuildFits

SPECIFICATION Spec
CONSTANTS
    Player = {p1, p2, p3, p4, p5}
    Nobody = Nobody
    PartyId = {a, b, c}
    NoParty = NoParty
    MAX_PARTY_SIZE = 3
SYMMETRY MCSymmetry
INVARIANTS PartiesAreSound
PROPERTIES SuccessionIsOrderly GroupsKept

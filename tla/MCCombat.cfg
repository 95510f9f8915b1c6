CONSTANTS
    Addr = {a1, a2, a3, a4}
    MaxPvs = 18
    Roll = {0, 9}
SPECIFICATION CombatSpec
INVARIANTS
    Mutual
    NoDanglingFighter
PROPERTIES
    FightsKept

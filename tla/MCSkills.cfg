CONSTANTS
    Players = 3
    Words = {"n", "tell", "golpear", "salir", "saltar"}
    PlayerId <- MCPlayerId
    Copy <- MCCopy
    Typed <- Words
SPECIFICATION SkillsSpec
INVARIANTS
    EveryCopyIsOwned
    CopyOfWhatWasTyped

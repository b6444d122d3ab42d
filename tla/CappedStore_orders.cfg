SPECIFICATION Spec
CONSTANTS
    w1 = w1
    w2 = w2
    w3 = w3
    w4 = w4
    None = None
    Id = {"o1", "o2", "o3"}
    Writer = {w1, w2, w3}
    IdOf <- OneWriterEach
    Saves = 2
    Overwrites = TRUE
    Capacity = 1
INVARIANTS
    TypeOK
    LastSaveWins

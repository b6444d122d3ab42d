SPECIFICATION Spec
CONSTANTS
    w1 = w1
    w2 = w2
    w3 = w3
    w4 = w4
    None = None
    Id = {"o1", "o2", "o3"}
    Writer = {w1, w2, w3, w4}
    IdOf <- RetriedRequest
    Saves = 1
    Overwrites = FALSE
    Capacity = 1
INVARIANTS
    EveryKeyEvictable
    StoreBounded
    SameShipment

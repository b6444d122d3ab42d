SPECIFICATION Spec
CONSTANTS
    a = a
    b = b
    unknown = unknown
    Order = {o1, o2, o3}
    Sku = {a, b}
    Stock <- StockLevels
    RequestLines <- Requests
    Capacity = 2
    MaxQueue = 6
INVARIANTS
    TypeOK
    Conservation
    HeldOnce
    WithinCapacity

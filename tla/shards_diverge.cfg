\* A deletion and the next booking of the same spot overlap.
SPECIFICATION Spec
CONSTANTS
    Nil = Nil
    Vehicles = {v1}
    Spots = {s1}
    Inventory = {s1}
    Lots <- MCLots
    Reqs = {r1, r2, r3}
    Ops = {"book", "delete"}
    TableAtStart = TRUE
    Faults = FALSE
INVARIANT AtRestBookedIsOccupied

\* Every operation, with faults, on a deployment whose table exists.
SPECIFICATION Spec
CONSTANTS
    Nil = Nil
    Vehicles = {v1, v2}
    Spots = {s1, s2}
    Inventory = {s1}
    Lots <- MCLots
    Reqs = {r1, r2, r3}
    Ops = {"book", "bookall", "delete", "update", "clear"}
    TableAtStart = TRUE
    Faults = TRUE
SYMMETRY ClientSymmetry
INVARIANTS
    TypeOK
    NoDoubleBooking
    AckedBookingStands
PROPERTIES
    ImplementsLedger
    RequestsAdvance

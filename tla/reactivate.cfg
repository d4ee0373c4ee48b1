\* Four requests, so that a booking can be cancelled, its spot booked by
\* another and the first booking re-activated.
SPECIFICATION Spec
CONSTANTS
    Nil = Nil
    Vehicles = {v1, v2}
    Spots = {s1}
    Inventory = {s1}
    Lots <- MCLots
    Reqs = {r1, r2, r3, r4}
    Ops = {"book", "delete", "update"}
    TableAtStart = TRUE
    Faults = FALSE
SYMMETRY ClientSymmetry
INVARIANTS
    NoDoubleBooking
PROPERTY ImplementsLedger

\* A fresh deployment: the first requests create the bookings table, and
\* every request that arrives is answered.
SPECIFICATION FairSpec
CONSTANTS
    Nil = Nil
    Vehicles = {v1}
    Spots = {s1}
    Inventory = {s1}
    Lots <- MCLots
    Reqs = {r1, r2, r3}
    Ops = {"book", "bookall", "delete", "clear"}
    TableAtStart = FALSE
    Faults = FALSE
INVARIANTS
    NoDoubleBooking
    EnsuredTableStays
PROPERTY EveryRequestAnswered

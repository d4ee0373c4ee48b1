\* Two or three clients book while the bookings table is first created.
SPECIFICATION Spec
CONSTANTS
    Nil = Nil
    Vehicles = {v1}
    Spots = {s1}
    Inventory = {s1}
    Lots <- MCLots
    Reqs = {r1, r2, r3}
    Ops = {"book"}
    TableAtStart = FALSE
    Faults = FALSE
PROPERTY EnsureKeepsBookings

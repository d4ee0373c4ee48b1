\* Spots are taken and never released; no faults; one GET of a spot's details.
SPECIFICATION DetailsSpec
CONSTANTS
    Nil = Nil
    Vehicles = {v1}
    Spots = {s1, s2, s3}
    Inventory = {s1, s2}
    Lots <- MCLots
    Reqs = {r1, r2, r3}
    Gets = {g1}
    Ops = {"book", "bookall"}
    TableAtStart = TRUE
    Faults = FALSE
SYMMETRY Symmetry
INVARIANTS
    BookedIsMarked
    BookAllCovers
    BookingsAreAccountedFor
    DetailsExplainStatus

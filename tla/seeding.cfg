\* Two instances start, fail and crash at any point over two lots of one or
\* two spots, while two bookings or deletions are under way.
SPECIFICATION FairSeeding
CONSTANTS
    Instances = {i1, i2}
    N = 2
    Capacities = {1, 2}
    Bookable <- MCBookable
    Requests = {r1, r2}
INVARIANT
    InventoryComplete
PROPERTIES
    OnlyARaceResetsMarks
    StartupEnds

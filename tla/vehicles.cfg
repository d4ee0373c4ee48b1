\* Two vehicles, two spots, one permit; no connection breaks.
SPECIFICATION FairVehicles
CONSTANTS
    Vehicles = {v1, v2}
    Spots = {s1, s2}
    Permits = 1
    MaxBookings = 3
    Faults = FALSE
PROPERTY StartedReleasesFree

\* Two requests over two lots: the second reads the cached location.
SPECIFICATION StatusSpec
CONSTANTS
    Nil = Nil
    Reqs = {r1, r2}
    Lots = {d1, d2}
    a1 = a1
    a2 = a2
    Areas = {a1, a2}
    Near <- MCNear
    Rounded <- MCRounded
    TTL = 1
    LocationTTL = 2
    Fill = 1
INVARIANT LocationsAreOwn

\* Two requests, with and without an area, over one lot that has a row in
\* PostgreSQL or none, while calls fail and readings come and go.
SPECIFICATION FairStatus
CONSTANTS
    Nil = Nil
    Reqs = {r1, r2}
    Lots = {d1}
    a1 = a1
    a2 = a2
    Areas = {a1, a2}
    Near <- MCNear
    Rounded <- MCRounded
    TTL = 1
    LocationTTL = 1
    Fill = 1
INVARIANTS
    AnswerFresh
    AnswerFitsQuery
PROPERTY EstimatesEnd

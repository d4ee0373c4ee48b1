------------------------------- MODULE Seeding -------------------------------
(***************************************************************************)
(* Start-up of the API's instances over one spots shard: PostgresService's *)
(* constructor creates the tables, counts the lots and seeds an empty      *)
(* table row by row, outside of any transaction; an exception ends the     *)
(* initialisation but not the instance, which serves with what is there.   *)
(* Clients book and cancel through instances that serve already: a row in  *)
(* the bookings shard first, and a status, in the rows that seeding writes,*)
(* afterwards.                                                             *)
(***************************************************************************)
EXTENDS Naturals

CONSTANTS
    Instances,      \* of the API: 3 behind the load balancer
    N,              \* lots to seed: 150
    Capacities,     \* what rand.Next(20, 350) can yield
    Bookable,       \* spots that clients book
    Requests        \* bookings and deletions under way at once

Lots == 1..N

ASSUME SeedingAssumption ==
    /\ N \in Nat \ {0}
    /\ Capacities \subseteq Nat \ {0}
    /\ Bookable \subseteq Lots \X Nat

VARIABLES
    capacity,       \* parking_lots: lot -> capacity, 0 when it has no row
    spots,          \* parking_spots: its (parking_id, spot_number) pairs ...
    occupied,       \* ... and those of status 'occupied', not 'available'
    held,           \* the bookings shard: spots with an active booking ...
    past,           \* ... and with an inactive one
    owed,           \* status writes that requests have still to make, as
                    \* (request, spot, status)
    at,             \* instance -> where its start-up stands
    cut,            \* history: a seeding ended early, with rows behind it
    seeders         \* history: instances that have found the table empty

rows == <<capacity, spots, occupied>>
clients == <<held, past, owed>>
vars == <<rows, clients, at, cut, seeders>>

-----------------------------------------------------------------------------
\* The loops of SeedParkingDataAsync: the lot, its capacity, the next spot.
Start == [pc : {"down", "count", "lot", "spot", "serving"},
          lot : Lots, cap : Capacities \cup {0}, next : Nat]

Down == [pc |-> "down", lot |-> 1, cap |-> 0, next |-> 0]

At(i, step) == at[i].pc = step
Move(i, s) == at' = [at EXCEPT ![i] = s]
Goto(i, step) == Move(i, [Down EXCEPT !.pc = step])

SeedingInit ==
    /\ capacity = [l \in Lots |-> 0]
    /\ spots = {} /\ occupied = {}
    /\ held = {} /\ past = {} /\ owed = {}
    /\ at = [i \in Instances |-> Down]
    /\ cut = FALSE /\ seeders = {}

\* The instance is started and its first request constructs the service;
\* nothing obliges either to happen.
Construct(i) ==
    /\ At(i, "down")
    /\ Goto(i, "count")
    /\ UNCHANGED <<rows, clients, cut, seeders>>

\* Variant of Empty: a seeding that was cut short is begun again.
LastLotMissing == capacity[N] = 0

\* SELECT COUNT(*) FROM parking_lots = 0
Empty == \A l \in Lots : capacity[l] = 0

\* CREATE TABLE IF NOT EXISTS for lots and spots, and the count.  After the
\* spots shard comes the bookings shard, whose DDL fails: no rows, no effect.
Count(i) ==
    /\ At(i, "count")
    /\ IF Empty THEN Goto(i, "lot") /\ seeders' = seeders \cup {i}
                ELSE Goto(i, "serving") /\ UNCHANGED seeders
    /\ UNCHANGED <<rows, clients, cut>>

\* INSERT INTO parking_lots ... ON CONFLICT DO UPDATE, with a new capacity
SeedLot(i) ==
    /\ At(i, "lot")
    /\ \E c \in Capacities :
          /\ capacity' = [capacity EXCEPT ![at[i].lot] = c]
          /\ Move(i, [at[i] EXCEPT !.pc = "spot", !.cap = c, !.next = 1])
    /\ UNCHANGED <<spots, occupied, clients, cut, seeders>>

\* Variant of MoreSpots: the last spot is left out.
MoreSpotsButOne(s) == s.next + 1 < s.cap

\* spot <= capacity, for the spot after this one
MoreSpots(s) == s.next < s.cap

\* What the loops do after a spot: the next spot, the next lot, or the end.
Advance(i) ==
    LET s == at[i]
    IN  IF MoreSpots(s) THEN Move(i, [s EXCEPT !.next = @ + 1])
        ELSE IF s.lot < N THEN Move(i, [Down EXCEPT !.pc = "lot", !.lot = s.lot + 1])
        ELSE Goto(i, "serving")

\* INSERT INTO parking_spots ... ON CONFLICT DO UPDATE SET status: 95 in 100
\* are available.
SeedSpot(i) ==
    /\ At(i, "spot")
    /\ LET spot == <<at[i].lot, at[i].next>>
       IN  /\ spots' = spots \cup {spot}
           /\ occupied' \in {occupied \ {spot}, occupied \cup {spot}}
    /\ Advance(i)
    /\ UNCHANGED <<capacity, clients, cut, seeders>>

\* Rows of this seeding are in the table.
HasWritten(i) == At(i, "spot") \/ (At(i, "lot") /\ at[i].lot > 1)

\* Variant of AfterException: the initialisation is tried again.
AfterExceptionRetry == "count"

\* EnsureDatabasesExistAsync logs and drops every exception.
AfterException == "serving"

\* A statement throws: a lost connection, two CREATE TABLE at once.
StatementFails(i) ==
    /\ at[i].pc \in {"count", "lot", "spot"}
    /\ cut' = (cut \/ HasWritten(i))
    /\ Goto(i, AfterException)
    /\ UNCHANGED <<rows, clients, seeders>>

\* The instance stops, and what it has built is gone.
Crash(i) ==
    /\ ~At(i, "down")
    /\ cut' = (cut \/ HasWritten(i))
    /\ Goto(i, "down")
    /\ UNCHANGED <<rows, clients, seeders>>

\* A request that some serving instance has begun to work on.
Begins(r) ==
    /\ \E i \in Instances : At(i, "serving")
    /\ \A w \in owed : w[1] # r

\* BookSpotAsync up to its INSERT, where the spot is free; a refused one
\* writes nothing.
BookSpot(r, s) ==
    /\ Begins(r)
    /\ s \notin held
    /\ held' = held \cup {s}
    /\ owed' = owed \cup {<<r, s, "occupied">>}
    /\ UNCHANGED <<rows, past, at, cut, seeders>>

\* DeleteBookingAsync up to its UPDATE of the spot's active row.
DeleteBooking(r, s) ==
    /\ Begins(r)
    /\ s \in held
    /\ held' = held \ {s}
    /\ past' = past \cup {s}
    /\ owed' = owed \cup {<<r, s, "available">>}
    /\ UNCHANGED <<rows, at, cut, seeders>>

\* The same of an inactive row, which the UPDATE matches as well.
DeleteInactive(r, s) ==
    /\ Begins(r)
    /\ s \in past
    /\ owed' = owed \cup {<<r, s, "available">>}
    /\ UNCHANGED <<rows, held, past, at, cut, seeders>>

\* UpdateParkingSpotStatusAsync: an UPDATE, which may find no row.
WriteStatus(w) ==
    /\ w \in owed
    /\ owed' = owed \ {w}
    /\ occupied' = IF w[3] = "occupied" THEN occupied \cup ({w[2]} \cap spots)
                                        ELSE occupied \ {w[2]}
    /\ UNCHANGED <<capacity, spots, held, past, at, cut, seeders>>

\* It throws, or the instance at work on the request stops before it.
StatusNotWritten(w) ==
    /\ w \in owed
    /\ owed' = owed \ {w}
    /\ UNCHANGED <<rows, held, past, at, cut, seeders>>

ClientStep ==
    \/ \E r \in Requests, s \in Bookable :
          BookSpot(r, s) \/ DeleteBooking(r, s) \/ DeleteInactive(r, s)
    \/ \E w \in owed : WriteStatus(w) \/ StatusNotWritten(w)

StartupStep(i) == Count(i) \/ SeedLot(i) \/ SeedSpot(i) \/ StatementFails(i)

SeedingNext ==
    \/ \E i \in Instances : Construct(i) \/ StartupStep(i) \/ Crash(i)
    \/ ClientStep

SeedingSpec == SeedingInit /\ [][SeedingNext]_vars

\* Statements of a start-up that has begun return or throw.  Nothing is
\* assumed of instances that are down: only two of the three have a restart
\* policy, and the service is constructed by a first request.
FairSeeding == SeedingSpec /\ \A i \in Instances : WF_vars(StartupStep(i))

-----------------------------------------------------------------------------
(* Properties                                                              *)

SeedingTypeOK ==
    /\ capacity \in [Lots -> Capacities \cup {0}]
    /\ spots \subseteq Lots \X Nat /\ occupied \subseteq spots
    /\ held \subseteq Bookable /\ past \subseteq Bookable
    /\ owed \subseteq Requests \X Bookable \X {"occupied", "available"}
    /\ at \in [Instances -> Start]
    /\ cut \in BOOLEAN /\ seeders \subseteq Instances

\* Somebody is in the loops.
SeedingGoesOn == \E i \in Instances : at[i].pc \in {"lot", "spot"}

\* Unless a seeding was cut short, what the seedings leave, one or several at
\* once that draw different capacities, is complete: every lot has a row, and
\* every spot up to the capacity on that row.
InventoryComplete ==
    (~cut /\ ~SeedingGoesOn /\ ~Empty) =>
        \A l \in Lots : /\ capacity[l] # 0
                        /\ \A n \in 1..capacity[l] : <<l, n>> \in spots

\* While seeding goes on bookings are served.  A step of a seeding takes the
\* mark off a booked spot only if two instances have found the table empty:
\* one seeding alone, cut short and begun anew or not, comes to each row
\* before any booking has marked it.  (A late status write of a deletion can
\* take the mark off as well: that is no seeding's doing.)
OnlyARaceResetsMarks ==
    [][\A i \in Instances, s \in held :
          (SeedSpot(i) /\ s \in occupied /\ s \notin occupied') =>
              \E j, k \in seeders : j # k]_vars

\* A start-up that has begun ends, whatever its statements do and whatever
\* the other instances seed at the same time: the instance comes to serve,
\* unless it stops first.
StartupEnds ==
    \A i \in Instances :
        at[i].pc \in {"count", "lot", "spot"} ~> at[i].pc \in {"serving", "down"}
=============================================================================

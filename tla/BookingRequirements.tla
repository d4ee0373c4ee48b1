------------------------- MODULE BookingRequirements ------------------------
(***************************************************************************)
(* What the API answers, what the two shards hold and what the code says   *)
(* of itself, as properties of Booking.  Some hold of every deployment,    *)
(* some only once the bookings table exists, some only while spots are     *)
(* taken and never released; the runs say which.                           *)
(***************************************************************************)
EXTENDS Booking, FiniteSetsExt

(***************************************************************************)
(* The bookings shard implements the Ledger, when the table is there from  *)
(* the start: a spot's holder is its active row, a ticket a row.           *)
(***************************************************************************)
HolderOf(s) ==
    IF Held(s)
    THEN CHOOSE i \in DOMAIN bookings : bookings[i].spot = s /\ bookings[i].active
    ELSE 0

L == INSTANCE Ledger WITH
        holder  <- [s \in Spots |-> HolderOf(s)],
        tickets <- [i \in DOMAIN bookings |-> bookings[i].spot],
        last    <- nextId - 1

\* A booking granted is exclusive, its number is issued once and names one
\* spot: every statement any request runs is a step of the Ledger.
ImplementsLedger == L!Spec

-----------------------------------------------------------------------------
Answered(r, op) == req[r].op = op /\ req[r].reply = "ok"

\* The booking id in a 200 answer stays the client's: the row with that id is
\* for the spot asked for and for its vehicle (or the one a PUT gave it), no
\* other client was told the same id, and the row is gone only after a bulk
\* delete that was not refused got to its DELETE (or failed: a 500 leaves open
\* how far it came).  It could fail by an id used twice.
AckedBookingStands ==
    \A r \in Reqs : Answered(r, "book") =>
        /\ \A p \in Reqs \ {r} : Answered(p, "book") => req[p].id # req[r].id
        /\ IF req[r].id \in DOMAIN bookings
           THEN LET row == bookings[req[r].id]
                IN  /\ row.spot = req[r].spot
                    /\ \/ row.vehicle = req[r].vehicle
                       \/ \E u \in Reqs : /\ req[u].op = "update"
                                          /\ req[u].id = req[r].id
                                          /\ req[u].vehicle = row.vehicle
           ELSE \E c \in Reqs : /\ req[c].op = "clear" /\ req[c].reply # "badrequest"
                               /\ req[c].pc \notin {"list", "wipe"}

-----------------------------------------------------------------------------
(* With POST book and book-all only, and no faults: spots are only taken.  *)

\* A request owes spot s a status write that has not happened yet.
Owed(s) == \E r \in Reqs : At(r, "mark") /\ req[r].spot = s

\* A booked spot that is still marked available has its status write under
\* way: once requests are answered, both shards agree on every booked spot.
BookedIsMarked ==
    \A s \in Inventory :
        Held(s) /\ status[s] = "available" => Owed(s)

\* BookAllAvailableSpotsAsync carries on after a spot it fails to book: when
\* it answers, every spot it found available is booked, by it or another.
BookAllCovers ==
    \A r \in Reqs : Answered(r, "bookall") => \A s \in req[r].scanned : Held(s)

\* Every row is somebody's: rows correspond one to one to the bookings that
\* were answered 200, the bookedCounts, and the ones whose request is between
\* its INSERT and its answer.
BookingsAreAccountedFor ==
    Cardinality(DOMAIN bookings)
      = Cardinality({r \in Reqs : At(r, "mark")})
        + Cardinality({r \in Reqs : req[r].op = "book" /\ At(r, "invalidate")})
        + Cardinality({r \in Reqs : Answered(r, "book")})
        + MapThenSumSet(LAMBDA r : req[r].count, Reqs)

-----------------------------------------------------------------------------
(* Progress                                                                *)

\* The statements of the handlers, in the order of the code.
Place ==
    [new |-> 0, scan |-> 1, list |-> 1, wipe |-> 2, ensure |-> 3, drop |-> 4,
     create |-> 5, check |-> 6, recheck |-> 7, insert |-> 8, find |-> 9,
     deactivate |-> 10, modify |-> 11, mark |-> 12, next |-> 13,
     invalidate |-> 14, done |-> 15]

\* Only a request's first statements set the list it loops over.
SetsList == {"new", "scan", "list"}

\* On to a later statement, with the same list ...
Onward(q, n) ==
    /\ Place[q.pc] < Place[n.pc]
    /\ q.pc \in SetsList \/ n.todo = q.todo

\* ... or round the loop again, with a shorter one.
NextRound(q, n) ==
    /\ q.pc = "next" /\ n.pc \notin SetsList
    /\ n.todo \subseteq q.todo /\ n.todo # q.todo

Advances(r) ==
    \/ req'[r] = req[r]
    \/ Onward(req[r], req'[r])
    \/ NextRound(req[r], req'[r])

\* Whatever a statement comes to (a conflict, an exception, a row or a table
\* gone, a crash), it brings its request closer to its answer, and nothing
\* another request does takes it back: no handler goes over the same list at
\* the same statement twice.  A foreach that tried a spot again would.
RequestsAdvance == [][\A r \in Reqs : Advances(r)]_vars

\* A request that arrived is answered, whatever the others do: no request
\* waits for another, and the loops of the bulk operations end.
EveryRequestAnswered ==
    \A r \in Reqs : ~At(r, "new") ~> At(r, "done")

-----------------------------------------------------------------------------
(* What comments and messages of the code claim                            *)

\* PostgresService.cs:320 opens a transaction "for the atomicity of the
\* operations" and :435 waits for it before booking: checking for the table
\* never costs a booking that was answered 200 (there is no bulk delete in
\* this run).
EnsureKeepsBookings ==
    [][\A r \in Reqs : Answered(r, "book") /\ req[r].id \in DOMAIN bookings
                          => req[r].id \in DOMAIN bookings']_vars

\* ApiController.cs:392 answers "not found or already inactive" when a
\* deletion is refused: a deletion answered 200 found an active booking.
DeletedWasActive ==
    \A r \in Reqs : Answered(r, "delete") => req[r].was

\* PostgresService.cs:428 and :576: booking and deleting a booking write
\* the bookings shard "+ update the status in the parking_spots shard".  When
\* all requests are answered, a booked spot is not marked available.
AtRestBookedIsOccupied ==
    AtRest => \A s \in Inventory : Held(s) => status[s] = "occupied"
=============================================================================

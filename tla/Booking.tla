------------------------------ MODULE Booking -------------------------------
(***************************************************************************)
(* The booking core of the Parking API: ApiController's write endpoints    *)
(* over PostgresService, which spreads one booking over two databases (the *)
(* bookings shard and the parking-spots shard) with no transaction between *)
(* them.  Three API instances serve requests from the same shards and keep *)
(* no state of their own, so the processes of the model are the requests:  *)
(* each is a program of awaited SQL statements, one action per statement,  *)
(* and statements of different requests interleave freely.                 *)
(*                                                                         *)
(* Reqs is the set of all requests ever made; each is made at most once.   *)
(* The tables outlive them, so a longer history is a larger set Reqs.      *)
(***************************************************************************)
EXTENDS Naturals, FiniteSets

CONSTANTS
    Vehicles,       \* values of vehicle_id
    Spots,          \* (parking_id, spot_number) pairs that requests name
    Inventory,      \* the pairs that have a row in parking_spots
    Lots,           \* a parking_id, as the set of its pairs
    Reqs,           \* HTTP requests
    Ops,            \* the endpoints in use
    TableAtStart,   \* does the bookings table exist when the API starts?
    Faults,         \* may awaited calls throw and API instances stop?
    Nil

AllOps == {"book", "bookall", "delete", "update", "clear"}

ASSUME ConstantsAssumption ==
    /\ Inventory \subseteq Spots
    /\ Lots \subseteq SUBSET Spots
    /\ Ops \subseteq AllOps
    /\ TableAtStart \in BOOLEAN
    /\ Faults \in BOOLEAN
    /\ Nil \notin Spots
    /\ Nil \notin Vehicles

VARIABLES
    tableExists,    \* bookings shard: is there a bookings table?
    bookings,       \* bookings shard: id -> row
    nextId,         \* bookings shard: next value of the SERIAL sequence
    status,         \* spots shard: parking_spots.status
    req             \* request -> where it stands and its local variables

vars == <<tableExists, bookings, nextId, status, req>>
shards == <<tableExists, bookings, nextId, status>>

-----------------------------------------------------------------------------
(* Data                                                                    *)

Row == [vehicle : Vehicles, spot : Spots, active : BOOLEAN]
NoRows == [i \in {} |-> Nil]

Statuses == {"available", "occupied"}
Replies == {"none", "ok", "badrequest", "conflict", "notfound", "error"}
Steps == {"new", "ensure", "drop", "create", "check", "recheck", "insert",
          "find", "deactivate", "modify", "scan", "next", "list", "wipe",
          "mark", "invalidate", "done"}

Request ==
    [op      : AllOps \cup {"none"},
     pc      : Steps,
     spot    : Spots \cup {Nil},        \* the spot it works on
     vehicle : Vehicles \cup {Nil},
     id      : Nat,                     \* the booking it works on, 0 for none
     active  : BOOLEAN,                 \* "Active" in the body of a PUT
     was     : BOOLEAN,                 \* Active of the row it read
     mark    : Statuses,                \* the status it is to write
     todo    : SUBSET Spots,            \* rest of the list it loops over
     scanned : SUBSET Spots,            \* the list as it was read
     count   : Nat,                     \* bookedCount
     reply   : Replies]

NewRequest ==
    [op |-> "none", pc |-> "new", spot |-> Nil, vehicle |-> Nil, id |-> 0,
     active |-> TRUE, was |-> TRUE, mark |-> "available", todo |-> {},
     scanned |-> {}, count |-> 0, reply |-> "none"]

Held(s) == \E i \in DOMAIN bookings : bookings[i].spot = s /\ bookings[i].active

-----------------------------------------------------------------------------
(* The shards start empty of bookings.  Seeding leaves every spot either   *)
(* available or (5% of them) occupied without a booking.                   *)

Init ==
    /\ tableExists = TableAtStart
    /\ bookings = NoRows
    /\ nextId = 1
    /\ status \in [Inventory -> Statuses]
    /\ req = [r \in Reqs |-> NewRequest]

At(r, step) == req[r].pc = step

Become(r, q) == req' = [req EXCEPT ![r] = q]

Goto(r, step) == Become(r, [req[r] EXCEPT !.pc = step])

Answer(r, reply) == Become(r, [req[r] EXCEPT !.pc = "done", !.reply = reply])

\* BookAllAvailableSpotsAsync is inside its foreach from "ensure" on: an
\* exception is caught, remembered and the loop continues.
InLoop(q) == q.op = "bookall" /\ q.pc \notin {"new", "scan", "invalidate", "done"}

\* Variants of Throw: the loop breaks off at the first spot it fails to book
\* and answers 200; bookedCount counts attempts; the spot is tried again.
ThrowBreaks(r) ==
    IF InLoop(req[r]) THEN Goto(r, "invalidate") ELSE Answer(r, "error")
ThrowCounts(r) ==
    IF InLoop(req[r])
    THEN Become(r, [req[r] EXCEPT !.pc = "next", !.count = @ + 1])
    ELSE Answer(r, "error")
ThrowRetries(r) ==
    IF InLoop(req[r]) THEN Goto(r, "ensure") ELSE Answer(r, "error")

\* An exception: the controller answers 500, or the loop takes the next spot.
Throw(r) ==
    IF InLoop(req[r]) THEN Goto(r, "next") ELSE Answer(r, "error")

-----------------------------------------------------------------------------
(* A request arrives                                                       *)

StartBook(r) ==
    /\ At(r, "new") /\ "book" \in Ops
    /\ \E s \in Spots, v \in Vehicles :
          Become(r, [req[r] EXCEPT !.op = "book", !.pc = "ensure",
                                   !.spot = s, !.vehicle = v])
    /\ UNCHANGED shards

\* All spots of one parking lot, or of every lot.
StartBookAll(r) ==
    /\ At(r, "new") /\ "bookall" \in Ops
    /\ \E v \in Vehicles, scope \in Lots \cup {Inventory} :
          Become(r, [req[r] EXCEPT !.op = "bookall", !.pc = "scan",
                                   !.vehicle = v, !.todo = scope])
    /\ UNCHANGED shards

\* The id is one a client has been told, or one not issued yet.
StartDelete(r) ==
    /\ At(r, "new") /\ "delete" \in Ops
    /\ \E i \in 1..nextId :
          Become(r, [req[r] EXCEPT !.op = "delete", !.pc = "ensure", !.id = i])
    /\ UNCHANGED shards

StartUpdate(r) ==
    /\ At(r, "new") /\ "update" \in Ops
    /\ \E i \in 1..nextId, v \in Vehicles, a \in BOOLEAN :
          Become(r, [req[r] EXCEPT !.op = "update", !.pc = "ensure",
                                   !.id = i, !.vehicle = v, !.active = a])
    /\ UNCHANGED shards

StartClear(r) ==
    /\ At(r, "new") /\ "clear" \in Ops
    /\ Become(r, [req[r] EXCEPT !.op = "clear", !.pc = "list"])
    /\ UNCHANGED shards

\* An empty vehicle id, a spot number below one, a wrong confirmation code.
Reject(r) ==
    /\ At(r, "new")
    /\ \E op \in Ops \cap {"book", "bookall", "clear"} :
          Become(r, [req[r] EXCEPT !.op = op, !.pc = "done",
                                   !.reply = "badrequest"])
    /\ UNCHANGED shards

Start(r) ==
    \/ StartBook(r) \/ StartBookAll(r) \/ StartDelete(r)
    \/ StartUpdate(r) \/ StartClear(r) \/ Reject(r)

-----------------------------------------------------------------------------
(* EnsureBookingsTableExistsAsync: every operation but the bulk delete     *)
(* begins with it and calls it again before each of its statements.  A     *)
(* bookings table, once there, is only ever replaced within a transaction  *)
(* (invariant EnsuredTableStays), so the calls after the first see it      *)
(* and change nothing; the first is modelled.  The columns                 *)
(* of a table this code made are the ones it looks for.                    *)

AfterEnsure(op) ==
    CASE op = "book"    -> "check"
      [] op = "bookall" -> "recheck"
      [] OTHER          -> "find"

\* SELECT EXISTS (... table_name = 'bookings')
EnsureCheck(r) ==
    /\ At(r, "ensure")
    /\ Goto(r, IF tableExists THEN AfterEnsure(req[r].op) ELSE "drop")
    /\ UNCHANGED shards

\* A table made anew: no rows, and a SERIAL that starts again.
FreshTable == tableExists' = TRUE /\ bookings' = NoRows /\ nextId' = 1

\* Variant of EnsureReplace: DROP and CREATE without the transaction.
EnsureReplaceInTwo(r) ==
    /\ At(r, "drop") /\ tableExists
    /\ tableExists' = FALSE /\ bookings' = NoRows
    /\ Goto(r, "create")
    /\ UNCHANGED <<nextId, status>>

\* DROP TABLE IF EXISTS, when another request has created the table since
\* EnsureCheck: the lock DROP takes lasts to the commit, so dropping and
\* creating are one step to everyone else.
EnsureReplace(r) ==
    /\ At(r, "drop") /\ tableExists
    /\ FreshTable
    /\ Goto(r, AfterEnsure(req[r].op))
    /\ UNCHANGED status

\* DROP TABLE IF EXISTS that finds nothing takes no lock.
EnsureNothingToDrop(r) ==
    /\ At(r, "drop") /\ ~tableExists
    /\ Goto(r, "create")
    /\ UNCHANGED shards

EnsureCreate(r) ==
    /\ At(r, "create") /\ ~tableExists
    /\ FreshTable
    /\ Goto(r, AfterEnsure(req[r].op))
    /\ UNCHANGED status

\* CREATE TABLE loses to one committed since: duplicate name, rolled back.
EnsureCreateFails(r) ==
    /\ At(r, "create") /\ tableExists
    /\ Throw(r)
    /\ UNCHANGED shards

Ensure(r) ==
    \/ EnsureCheck(r) \/ EnsureReplace(r) \/ EnsureNothingToDrop(r)
    \/ EnsureCreate(r) \/ EnsureCreateFails(r)

-----------------------------------------------------------------------------
(* Booking a spot                                                          *)

\* ApiController.BookSpot asks first and answers 409 itself.
ControllerCheck(r) ==
    /\ At(r, "check")
    /\ IF Held(req[r].spot) THEN Answer(r, "conflict") ELSE Goto(r, "recheck")
    /\ UNCHANGED shards

\* BookSpotAsync asks again and throws.
ServiceCheck(r) ==
    /\ At(r, "recheck")
    /\ IF Held(req[r].spot) THEN Throw(r) ELSE Goto(r, "insert")
    /\ UNCHANGED shards

\* Variant of IndexAllows: no such index.
NoIndex(s) == TRUE

\* The unique index active_booking_idx has no other active row for the spot.
IndexAllows(s) == ~Held(s)

\* INSERT ... RETURNING id
InsertRow(r) ==
    /\ At(r, "insert") /\ IndexAllows(req[r].spot)
    /\ bookings' = [i \in DOMAIN bookings \cup {nextId} |->
                      IF i = nextId
                      THEN [vehicle |-> req[r].vehicle, spot |-> req[r].spot,
                            active |-> TRUE]
                      ELSE bookings[i]]
    /\ nextId' = nextId + 1
    /\ Become(r, [req[r] EXCEPT !.pc = "mark", !.id = nextId,
                                !.mark = "occupied"])
    /\ UNCHANGED <<tableExists, status>>

\* A unique violation: the SERIAL value is used up all the same.
InsertFails(r) ==
    /\ At(r, "insert") /\ ~IndexAllows(req[r].spot)
    /\ nextId' = nextId + 1
    /\ Throw(r)
    /\ UNCHANGED <<tableExists, bookings, status>>

-----------------------------------------------------------------------------
(* UpdateParkingSpotStatusAsync, on the other shard; a pair without a row  *)
(* in parking_spots only logs a warning.                                   *)

\* Variants of Written: an upsert; a WHERE clause that matches no row.
Upserted(s, st) == [t \in Inventory \cup {s} |-> IF t = s THEN st ELSE status[t]]
NotWritten(s, st) == status

Written(s, st) == [t \in Inventory |-> IF t = s THEN st ELSE status[t]]

AfterMark(op) == IF op \in {"bookall", "clear"} THEN "next" ELSE "invalidate"

Mark(r) ==
    /\ At(r, "mark")
    /\ status' = Written(req[r].spot, req[r].mark)
    /\ Become(r, [req[r] EXCEPT !.pc = AfterMark(req[r].op),
                                !.count = IF req[r].op = "bookall" THEN @ + 1 ELSE @])
    /\ UNCHANGED <<tableExists, bookings, nextId>>

\* The controller drops the cached status, then answers 200.
Invalidate(r) ==
    /\ At(r, "invalidate")
    /\ Answer(r, "ok")
    /\ UNCHANGED shards

-----------------------------------------------------------------------------
(* BookAllAvailableSpotsAsync                                              *)

Scan(r) ==
    /\ At(r, "scan")
    /\ LET free == {s \in req[r].todo \cap Inventory : status[s] = "available"}
       IN  Become(r, [req[r] EXCEPT !.pc = "next", !.todo = free,
                                    !.scanned = free])
    /\ UNCHANGED shards

\* Variant of Remaining: the loop tries a spot again until it succeeds.
RemainingAll(todo, s) == todo

\* What the loop has left once it turns to spot s.
Remaining(todo, s) == todo \ {s}

LoopStep(op) == IF op = "bookall" THEN "ensure" ELSE "mark"

\* The next spot of a foreach, of the bulk booking or the bulk delete; the
\* lists come from SELECTs without an ORDER BY.
LoopNext(r) ==
    /\ At(r, "next")
    /\ \E s \in req[r].todo :
          Become(r, [req[r] EXCEPT !.pc = LoopStep(req[r].op), !.spot = s,
                                   !.todo = Remaining(@, s)])
    /\ UNCHANGED shards

LoopEnd(r) ==
    /\ At(r, "next") /\ req[r].todo = {}
    /\ Goto(r, "invalidate")
    /\ UNCHANGED shards

-----------------------------------------------------------------------------
(* DeleteBookingAsync and UpdateBookingAsync                               *)

\* GetBookingInfoAsync reads the row ...
Find(r) ==
    /\ At(r, "find")
    /\ req[r].id \in DOMAIN bookings
    /\ Become(r, [req[r] EXCEPT
             !.pc   = IF req[r].op = "delete" THEN "deactivate" ELSE "modify",
             !.spot = bookings[req[r].id].spot,
             !.was  = bookings[req[r].id].active])
    /\ UNCHANGED shards

\* ... or finds none.
FindNone(r) ==
    /\ At(r, "find")
    /\ req[r].id \notin DOMAIN bookings
    /\ Answer(r, "notfound")
    /\ UNCHANGED shards

\* Variant of Deactivated: the row is deleted.
RowDeleted(i) == [j \in DOMAIN bookings \ {i} |-> bookings[j]]

Deactivated(i) == [bookings EXCEPT ![i] = [@ EXCEPT !.active = FALSE]]

\* UPDATE bookings SET active = false WHERE id = @bookingId, then the status
\* of the spot the row had when it was read.  Nothing asks whether the row
\* was active.
Deactivate(r) ==
    /\ At(r, "deactivate")
    /\ req[r].id \in DOMAIN bookings
    /\ bookings' = Deactivated(req[r].id)
    /\ Become(r, [req[r] EXCEPT !.pc = "mark", !.mark = "available"])
    /\ UNCHANGED <<tableExists, nextId, status>>

\* Variant of Collides: re-activation is not covered by the index.
NeverCollides(i, a) == FALSE

\* Would the row's new version collide in the unique index?
Collides(i, a) ==
    /\ a
    /\ \E j \in DOMAIN bookings \ {i} :
          bookings[j].active /\ bookings[j].spot = bookings[i].spot

\* UPDATE bookings SET vehicle_id, active WHERE id; the status is written
\* when the flag differs from the one read, which may be out of date.
Modify(r) ==
    /\ At(r, "modify")
    /\ req[r].id \in DOMAIN bookings
    /\ ~Collides(req[r].id, req[r].active)
    /\ bookings' = [bookings EXCEPT ![req[r].id] =
                       [@ EXCEPT !.vehicle = req[r].vehicle, !.active = req[r].active]]
    /\ Become(r, [req[r] EXCEPT
             !.pc   = IF req[r].was # req[r].active THEN "mark" ELSE "invalidate",
             !.mark = IF req[r].active THEN "occupied" ELSE "available"])
    /\ UNCHANGED <<tableExists, nextId, status>>

ModifyFails(r) ==
    /\ At(r, "modify")
    /\ req[r].id \in DOMAIN bookings
    /\ Collides(req[r].id, req[r].active)
    /\ Throw(r)
    /\ UNCHANGED shards

\* The row went (bulk delete, table replaced) after it was read: 0 rows.
RowGone(r) ==
    /\ At(r, "deactivate") \/ At(r, "modify")
    /\ req[r].id \notin DOMAIN bookings
    /\ Answer(r, "notfound")
    /\ UNCHANGED shards

-----------------------------------------------------------------------------
(* ClearAllBookingsAsync: read the active bookings, delete every row, mark *)
(* the spots of the list read.  It does not ensure the table exists.       *)

List(r) ==
    /\ At(r, "list") /\ tableExists
    /\ Become(r, [req[r] EXCEPT !.pc = "wipe", !.todo = {s \in Spots : Held(s)},
                                !.mark = "available"])
    /\ UNCHANGED shards

ListFails(r) ==
    /\ At(r, "list") /\ ~tableExists
    /\ Throw(r)
    /\ UNCHANGED shards

\* Variant of Wipe: TRUNCATE bookings RESTART IDENTITY.
WipeRestart(r) ==
    /\ At(r, "wipe")
    /\ bookings' = NoRows /\ nextId' = 1
    /\ Goto(r, "next")
    /\ UNCHANGED <<tableExists, status>>

\* DELETE FROM bookings: the sequence goes on.
Wipe(r) ==
    /\ At(r, "wipe")
    /\ bookings' = NoRows
    /\ Goto(r, "next")
    /\ UNCHANGED <<tableExists, nextId, status>>

-----------------------------------------------------------------------------
\* An awaited call throws before its statement takes effect; a call that took
\* effect but whose answer was lost is the same fault one step later.
CallFails(r) ==
    /\ req[r].pc \notin {"new", "next", "done"}
    /\ Throw(r)
    /\ UNCHANGED shards

\* The API instance stops, and whatever the request had left to do with it.
\* An instance that starts again leaves the shards as they are: its
\* CREATE TABLEs say IF NOT EXISTS.
Crash(r) ==
    /\ req[r].pc \notin {"new", "done"}
    /\ Answer(r, "error")
    /\ UNCHANGED shards

Fault(r) == Faults /\ (CallFails(r) \/ Crash(r))

Step(r) ==
    \/ Ensure(r)
    \/ ControllerCheck(r) \/ ServiceCheck(r) \/ InsertRow(r) \/ InsertFails(r)
    \/ Mark(r) \/ Invalidate(r)
    \/ Scan(r) \/ LoopNext(r) \/ LoopEnd(r)
    \/ Find(r) \/ FindNone(r) \/ Deactivate(r)
    \/ Modify(r) \/ ModifyFails(r) \/ RowGone(r)
    \/ List(r) \/ ListFails(r) \/ Wipe(r)

\* Every request has been answered: the service is at rest.
AtRest == \A r \in Reqs : At(r, "done")

Rest == AtRest /\ UNCHANGED vars

Next ==
    \/ \E r \in Reqs : Start(r) \/ Step(r) \/ Fault(r)
    \/ Rest

Spec == Init /\ [][Next]_vars

\* A statement sent to a shard comes back, with a result or an exception
\* (CommandTimeout), so a request that has begun goes on.  Nothing obliges a
\* client to send one, and no lock outlives its statement or transaction.
Fairness == \A r \in Reqs : WF_vars(Step(r))

FairSpec == Spec /\ Fairness

-----------------------------------------------------------------------------
(* Properties                                                              *)

TypeOK ==
    /\ tableExists \in BOOLEAN
    /\ DOMAIN bookings \subseteq 1..(nextId - 1)
    /\ bookings \in [DOMAIN bookings -> Row]
    /\ nextId \in Nat \ {0}
    /\ status \in [Inventory -> Statuses]
    /\ req \in [Reqs -> Request]

\* A spot never has two active bookings, whatever requests check, insert,
\* re-activate or delete between each other's statements.
NoDoubleBooking ==
    \A i, j \in DOMAIN bookings :
        bookings[i].active /\ bookings[j].active /\ bookings[i].spot = bookings[j].spot
            => i = j

\* Once EnsureBookingsTableExistsAsync has come back, the table is there for
\* the statements that follow it, though other requests may replace it.
EnsuredTableStays ==
    \A r \in Reqs :
        req[r].pc \in {"check", "recheck", "insert", "find", "deactivate",
                       "modify", "wipe"} => tableExists
=============================================================================

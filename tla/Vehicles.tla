------------------------------- MODULE Vehicles -------------------------------
(***************************************************************************)
(* vehicle_simulator.py: vehicles book spots through the API, and a thread *)
(* per booking releases the spot some time later.  A semaphore bounds the  *)
(* threads under way.  The API is here what the simulator meets of it:     *)
(* numbered bookings, at most one live for a spot, and its routes.         *)
(***************************************************************************)
EXTENDS Naturals, Sequences, FiniteSets

CONSTANTS
    Vehicles,       \* 100, a loop each
    Spots,          \* pairs of a parking and a spot number
    Permits,        \* MAX_RELEASE_THREADS: 500
    MaxBookings,    \* bound: bookings made
    Faults          \* whether connections may break

VARIABLES
    bookings,       \* the API's, in the order of their ids
    loop,           \* vehicle -> the step of its loop
    active,         \* vehicle -> active_bookings: the ids it has read
    thread          \* booking -> how far its release thread is

vars == <<bookings, loop, active, thread>>

-----------------------------------------------------------------------------
Booking == [vehicle : Vehicles, spot : Spots, live : BOOLEAN]

Live(s) == \E n \in DOMAIN bookings : bookings[n].spot = s /\ bookings[n].live

\* booking_data.get("booking_id", "unknown"); the answer calls it bookingId.
IdRead(n) == "unknown"

\* What the simulator deletes, and where the API has that: paths under
\* /parking/, "booking/{bookingId}".
Asked(id) == <<id>>
Route(n) == <<"booking", n>>

VehiclesInit ==
    /\ bookings = <<>> /\ thread = <<>>
    /\ loop = [v \in Vehicles |-> "poll"]
    /\ active = [v \in Vehicles |-> {}]

\* The loop of a vehicle goes on with this step.
Goto(v, step) == loop[v] # step /\ loop' = [loop EXCEPT ![v] = step]

\* GET /parking/status shows a lot with free spots: the figures come from the
\* sensors, whoever booked there.  With none, or no answer, it asks again.
Poll(v) ==
    /\ loop[v] = "poll" /\ Goto(v, "book")
    /\ UNCHANGED <<bookings, active, thread>>

\* The API books the spot.
Grant(v, s) ==
    /\ Len(bookings) < MaxBookings /\ ~Live(s)
    /\ bookings' = Append(bookings, [vehicle |-> v, spot |-> s, live |-> TRUE])
    /\ thread' = Append(thread, "none")

\* POST /parking/{id}/book for a random spot, and its answer
Book(v) ==
    /\ loop[v] = "book" /\ Goto(v, "route")
    /\ \E s \in Spots : Grant(v, s)
    /\ active' = [active EXCEPT ![v] = @ \cup {IdRead(Len(bookings) + 1)}]

\* 409: a pause, and the next round
BookRefused(v) ==
    /\ loop[v] = "book" /\ Goto(v, "poll")
    /\ \E s \in Spots : Live(s)
    /\ UNCHANGED <<bookings, active, thread>>

\* Booked, but the answer is lost: the vehicle knows of no booking.
BookAnswerLost(v) ==
    /\ Faults
    /\ loop[v] = "book" /\ Goto(v, "poll")
    /\ \E s \in Spots : Grant(v, s)
    /\ UNCHANGED active

\* The booking made in this round: the last one of the vehicle.
IsCurrent(v, n) ==
    /\ bookings[n].vehicle = v
    /\ \A m \in DOMAIN bookings : bookings[m].vehicle = v => m <= n

\* GET route, whatever its status, and the release thread starts.
StartRelease(v) ==
    /\ loop[v] = "route" /\ Goto(v, "poll")
    /\ \E n \in DOMAIN bookings :
          IsCurrent(v, n) /\ thread' = [thread EXCEPT ![n] = "waiting"]
    /\ UNCHANGED <<bookings, active>>

\* GET route finds no connection: the exception skips the start.
RouteFails(v) ==
    /\ Faults
    /\ loop[v] = "route" /\ Goto(v, "poll")
    /\ UNCHANGED <<bookings, active, thread>>

Become(n, step) == thread' = [thread EXCEPT ![n] = step]

\* Threads between the entry and the exit of "with release_semaphore"
Inside == {n \in DOMAIN thread : thread[n] \in {"sleeping", "deleting"}}

Acquire(n) ==
    /\ thread[n] = "waiting" /\ Cardinality(Inside) < Permits
    /\ Become(n, "sleeping")
    /\ UNCHANGED <<bookings, loop, active>>

\* The delay is over: the booking may have been released already.
Wake(n) ==
    /\ thread[n] = "sleeping"
    /\ Become(n, IF IdRead(n) \in active[bookings[n].vehicle] THEN "deleting" ELSE "ended")
    /\ UNCHANGED <<bookings, loop, active>>

\* DELETE reaches a booking: it is cancelled, and no longer kept.
DeleteDone(n) ==
    /\ thread[n] = "deleting" /\ Become(n, "ended")
    /\ \E m \in DOMAIN bookings :
          /\ Asked(IdRead(n)) = Route(m)
          /\ bookings' = [bookings EXCEPT ![m].live = FALSE]
    /\ active' = [active EXCEPT ![bookings[n].vehicle] = @ \ {IdRead(n)}]
    /\ UNCHANGED loop

\* It reaches none, or no API: logged, and the thread ends.
DeleteFails(n) ==
    /\ thread[n] = "deleting" /\ Become(n, "ended")
    /\ Faults \/ \A m \in DOMAIN bookings : Asked(IdRead(n)) # Route(m)
    /\ UNCHANGED <<bookings, loop, active>>

VehicleStep(v) ==
    \/ Poll(v) \/ Book(v) \/ BookRefused(v) \/ BookAnswerLost(v)
    \/ StartRelease(v) \/ RouteFails(v)

ThreadStep(n) == Acquire(n) \/ Wake(n) \/ DeleteDone(n) \/ DeleteFails(n)

VehiclesNext ==
    \/ \E v \in Vehicles : VehicleStep(v)
    \/ \E n \in DOMAIN bookings : ThreadStep(n)

\* Vehicles and threads go on; a waiting thread gets its turn, as those that
\* wait for the semaphore are woken in order.
FairVehicles ==
    /\ VehiclesInit /\ [][VehiclesNext]_vars
    /\ \A v \in Vehicles : WF_vars(VehicleStep(v))
    /\ \A n \in 1..MaxBookings : SF_vars(n \in DOMAIN bookings /\ ThreadStep(n))

-----------------------------------------------------------------------------
(* Properties                                                              *)

\* vehicle_simulator.py:166 "start the release of the spot after a realistic
\* time": a booking whose release thread was started comes to an end.
StartedReleasesFree ==
    \A n \in 1..MaxBookings :
        (n \in DOMAIN thread /\ thread[n] = "waiting")
            ~> (n \in DOMAIN bookings /\ ~bookings[n].live)
=============================================================================

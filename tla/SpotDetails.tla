----------------------------- MODULE SpotDetails -----------------------------
(***************************************************************************)
(* GET spot/{parkingId}/{spotNumber}, a reader of both shards beside the   *)
(* requests of Booking: GetParkingSpotDetailsAsync reads the spot's status *)
(* on one connection, then its latest bookings on another, and answers     *)
(* with the two together though they need never have held together.        *)
(***************************************************************************)
EXTENDS BookingRequirements

CONSTANT Gets       \* the GETs ever made, each at most once

VARIABLES
    view,           \* GET -> where it stands and what it has read
    seeded          \* history: the statuses the spots were seeded with

detailsVars == <<tableExists, bookings, nextId, status, req, view, seeded>>

-----------------------------------------------------------------------------
\* BookingHistory lists the last five: LIMIT 5.
HistoryLimit == 5

\* Variant of ReadOrder: the bookings shard first.
BookingsFirst == [first |-> "history", second |-> "status"]

\* The order in which one GET reads the two shards.
ReadOrder == [first |-> "status", second |-> "history"]

View ==
    [at     : {"first", "second", "over"},  \* the read it is to make
     spot   : Spots \cup {Nil},
     status : Statuses \cup {"none"},       \* SpotDetails.Status
     booked : BOOLEAN,                      \* is a row of BookingHistory active?
     reply  : {"none", "ok", "notfound", "error"}]

NewView == [at |-> "first", spot |-> Nil, status |-> "none", booked |-> FALSE,
            reply |-> "none"]

NewerRows(i) ==
    {j \in DOMAIN bookings : j > i /\ bookings[j].spot = bookings[i].spot}

\* The newest rows of spot s, up to the limit: booking_time is the time of the
\* INSERT and ids are given in its order.
LatestRows(s) ==
    {i \in DOMAIN bookings :
        bookings[i].spot = s /\ Cardinality(NewerRows(i)) < HistoryLimit}

\* The next read of GET g is of this shard, about spot s: the one in the URL,
\* which the model picks when the first read is made.
Reads(g, shard, s) ==
    /\ view[g].at # "over" /\ ReadOrder[view[g].at] = shard
    /\ view[g].spot \in {s, Nil}

\* What was read is kept; the second read completes the answer.
Seen(g, v) ==
    view' = [view EXCEPT ![g] =
               IF v.at = "first" THEN [v EXCEPT !.at = "second"]
                                 ELSE [v EXCEPT !.at = "over", !.reply = "ok"]]

Refused(g, reply) ==
    view' = [view EXCEPT ![g] = [NewView EXCEPT !.at = "over", !.reply = reply]]

\* SELECT ... FROM parking_spots WHERE parking_id AND spot_number
ReadStatus(g, s) ==
    /\ Reads(g, "status", s) /\ s \in Inventory
    /\ Seen(g, [view[g] EXCEPT !.spot = s, !.status = status[s]])

\* spotDetails == null: the controller answers 404.
NoSuchSpot(g, s) ==
    /\ Reads(g, "status", s) /\ s \notin Inventory
    /\ Refused(g, "notfound")

\* SELECT ... FROM bookings ... ORDER BY booking_time DESC LIMIT 5
ReadHistory(g, s) ==
    /\ Reads(g, "history", s) /\ tableExists
    /\ Seen(g, [view[g] EXCEPT
                  !.spot = s, !.booked = \E i \in LatestRows(s) : bookings[i].active])

\* Either SELECT throws, the second also when there is no bookings table.
ReadFails(g) ==
    /\ view[g].at # "over"
    /\ Refused(g, "error")

Get(g) ==
    /\ \/ \E s \in Spots : ReadStatus(g, s) \/ NoSuchSpot(g, s) \/ ReadHistory(g, s)
       \/ ReadFails(g)
    /\ UNCHANGED <<vars, seeded>>

DetailsInit ==
    /\ Init
    /\ view = [g \in Gets |-> NewView]
    /\ seeded = status

DetailsNext ==
    \/ Next /\ UNCHANGED <<view, seeded>>
    \/ \E g \in Gets : Get(g)

DetailsSpec == DetailsInit /\ [][DetailsNext]_detailsVars

-----------------------------------------------------------------------------
(* While spots are only taken (POST book and book-all).                    *)

\* The two halves of an answer explain each other: a spot shown as occupied,
\* that was not seeded so, is shown with the active booking that occupies it.
\* A booking writes its row before the status and a GET reads the status
\* before the rows; either one the other way round, and a client meets an
\* occupied spot that nobody holds.
DetailsExplainStatus ==
    \A g \in Gets :
        /\ view[g].reply = "ok"
        /\ view[g].status = "occupied"
        /\ seeded[view[g].spot] = "available"
        => view[g].booked
=============================================================================

------------------------------- MODULE Ledger -------------------------------
(***************************************************************************)
(* What the booking service promises, with no shard, no SQL statement and  *)
(* no request in sight: a parking spot has at most one holder, a holder is *)
(* a ticket (the booking id the API answers), a ticket number is issued    *)
(* once and a ticket names one spot for as long as it exists.  Booking.tla *)
(* is the code; it is checked and proved to implement this module.         *)
(***************************************************************************)
EXTENDS Naturals

CONSTANT Spots

Nobody == 0             \* ticket numbers start at 1

VARIABLES
    holder,             \* spot -> the ticket that holds it, or Nobody
    tickets,            \* ticket number -> spot, for the tickets that exist
    last                \* highest ticket number issued so far

ledger == <<holder, tickets, last>>

Init ==
    /\ holder = [s \in Spots |-> Nobody]
    /\ tickets = [t \in {} |-> Nobody]
    /\ last = 0

\* A free spot is granted under a number never used before.
Grant(s) ==
    /\ holder[s] = Nobody
    /\ last' = last + 1
    /\ tickets' = [t \in DOMAIN tickets \cup {last + 1} |->
                       IF t = last + 1 THEN s ELSE tickets[t]]
    /\ holder' = [holder EXCEPT ![s] = last + 1]

\* A refused attempt may use up a number.
Waste ==
    /\ last' = last + 1
    /\ UNCHANGED <<holder, tickets>>

Release(s) ==
    /\ holder[s] # Nobody
    /\ holder' = [holder EXCEPT ![s] = Nobody]
    /\ UNCHANGED <<tickets, last>>

\* A released ticket takes its own spot again, if nobody holds it.
Reclaim(t) ==
    /\ holder[tickets[t]] = Nobody
    /\ holder' = [holder EXCEPT ![tickets[t]] = t]
    /\ UNCHANGED <<tickets, last>>

\* Every ticket is torn up at once; numbers are not used again.
CloseBooks ==
    /\ holder' = [s \in Spots |-> Nobody]
    /\ tickets' = [t \in {} |-> Nobody]
    /\ UNCHANGED last

Next ==
    \/ \E s \in Spots : Grant(s) \/ Release(s)
    \/ \E t \in DOMAIN tickets : Reclaim(t)
    \/ Waste
    \/ CloseBooks

Spec == Init /\ [][Next]_ledger

-----------------------------------------------------------------------------
(* The promises.  They follow from Spec (BookingRefinement has the proof), *)
(* so whatever implements it keeps them.                                   *)

\* Who holds a spot holds it by a ticket, which names that spot.
HoldersHaveTickets ==
    \A s \in Spots : holder[s] # Nobody =>
        holder[s] \in DOMAIN tickets /\ tickets[holder[s]] = s

\* A ticket names one spot for as long as it exists; a number that is new to
\* the books is higher than any before, so one that was torn up never comes
\* back.
TicketsStand ==
    /\ last' >= last
    /\ \A t \in DOMAIN tickets' :
          \/ t \in DOMAIN tickets /\ tickets'[t] = tickets[t]
          \/ t \notin DOMAIN tickets /\ t > last

Promises == []HoldersHaveTickets /\ [][TicketsStand]_ledger
=============================================================================

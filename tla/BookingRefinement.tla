-------------------------- MODULE BookingRefinement -------------------------
(***************************************************************************)
(* Proof that Booking implements Ledger under the mapping of               *)
(* BookingRequirements, once the bookings table exists: every statement    *)
(* of every request is one step of the Ledger, or none.                    *)
(***************************************************************************)
EXTENDS BookingProofs

-----------------------------------------------------------------------------
(* When the table is there from the start, nobody ever creates it.         *)

NobodyCreates ==
    /\ tableExists
    /\ \A r \in Reqs : req[r].pc \notin {"drop", "create"}

WarmInv == IInv /\ NobodyCreates

\* A step starts to create the table only if the table is missing.
LEMMA StepNobodyCreates ==
  ASSUME WarmInv, NEW r \in Reqs, Start(r) \/ Step(r) \/ Fault(r)
  PROVE  NobodyCreates'
<1>0. /\ IInv /\ tableExists /\ req[r] \in Request /\ req \in [Reqs -> Request]
      /\ req[r].pc \notin {"drop", "create"}
  BY DEF WarmInv, NobodyCreates, IInv, ReqsOK, OrderlyRequest
<1>1. tableExists'
  BY <1>0, StepTable
<1>2. req'[r].pc \notin {"drop", "create"}
  <2>0. ASSUME NEW q, Become(r, q)
        PROVE  req'[r] = q
    BY <1>0, <2>0 DEF Become
  <2>1. ASSUME NEW st, Goto(r, st)
        PROVE  req'[r].pc = st
    BY <1>0, <2>1 DEF Goto, Become, Request
  <2>2. ASSUME NEW reply, Answer(r, reply)
        PROVE  req'[r].pc = "done"
    BY <1>0, <2>2 DEF Answer, Become, Request
  <2>3. ASSUME Throw(r)
        PROVE  req'[r].pc \in {"next", "done"}
    BY <2>1, <2>2, <2>3 DEF Throw
  <2>4. CASE StartBook(r) \/ StartDelete(r) \/ StartUpdate(r)
    <3>1. CASE StartBook(r)
      BY <1>0, <2>0, <3>1 DEF StartBook, Request
    <3>2. CASE StartDelete(r)
      BY <1>0, <2>0, <3>2 DEF StartDelete, Request
    <3>3. CASE StartUpdate(r)
      BY <1>0, <2>0, <3>3 DEF StartUpdate, Request
    <3>4. QED
      BY <2>4, <3>1, <3>2, <3>3
  <2>5. CASE StartBookAll(r) \/ StartClear(r)
    <3>1. CASE StartBookAll(r)
      BY <1>0, <2>0, <3>1 DEF StartBookAll, Request
    <3>2. CASE StartClear(r)
      BY <1>0, <2>0, <3>2 DEF StartClear, Request
    <3>3. QED
      BY <2>5, <3>1, <3>2
  <2>6. CASE Reject(r)
    BY <1>0, <2>6 DEF Reject, Become, Request
  <2>7. CASE Ensure(r)
    BY <1>0, <2>1, <2>7
    DEF Ensure, EnsureCheck, EnsureReplace, EnsureNothingToDrop, EnsureCreate,
        EnsureCreateFails, At, AfterEnsure
  <2>8. CASE ControllerCheck(r) \/ ServiceCheck(r)
    BY <2>1, <2>2, <2>3, <2>8 DEF ControllerCheck, ServiceCheck
  <2>9. CASE InsertRow(r) \/ InsertFails(r)
    <3>1. CASE InsertRow(r)
      BY <1>0, <2>0, <3>1 DEF InsertRow, Request
    <3>2. CASE InsertFails(r)
      BY <2>3, <3>2 DEF InsertFails
    <3>3. QED
      BY <2>9, <3>1, <3>2
  <2>10. CASE Mark(r) \/ Invalidate(r)
    <3>1. CASE Mark(r)
      BY <1>0, <2>0, <3>1 DEF Mark, AfterMark, Request
    <3>2. CASE Invalidate(r)
      BY <2>2, <3>2 DEF Invalidate
    <3>3. QED
      BY <2>10, <3>1, <3>2
  <2>11. CASE Scan(r) \/ LoopEnd(r)
    <3>1. CASE Scan(r)
      BY <1>0, <2>0, <3>1 DEF Scan, Request
    <3>2. CASE LoopEnd(r)
      BY <2>1, <3>2 DEF LoopEnd
    <3>3. QED
      BY <2>11, <3>1, <3>2
  <2>12. CASE LoopNext(r)
    BY <1>0, <2>12 DEF LoopNext, LoopStep, Become, Request
  <2>13. CASE Find(r) \/ FindNone(r)
    <3> DEFINE q == [req[r] EXCEPT
                       !.pc = IF req[r].op = "delete" THEN "deactivate" ELSE "modify",
                       !.spot = bookings[req[r].id].spot,
                       !.was = bookings[req[r].id].active]
    <3>1. q.pc \in {"deactivate", "modify"}
      BY <1>0 DEF Request
    <3>2. CASE Find(r)
      BY <2>0, <3>1, <3>2 DEF Find
    <3>3. QED
      BY <2>2, <2>13, <3>2 DEF FindNone
  <2>14. CASE Deactivate(r) \/ RowGone(r)
    <3>1. CASE Deactivate(r)
      BY <1>0, <2>0, <3>1 DEF Deactivate, Request
    <3>2. CASE RowGone(r)
      BY <2>2, <3>2 DEF RowGone
    <3>3. QED
      BY <2>14, <3>1, <3>2
  <2>15. CASE Modify(r) \/ ModifyFails(r)
    <3> DEFINE q == [req[r] EXCEPT
                       !.pc = IF req[r].was # req[r].active THEN "mark" ELSE "invalidate",
                       !.mark = IF req[r].active THEN "occupied" ELSE "available"]
    <3>1. q.pc \in {"mark", "invalidate"}
      BY <1>0 DEF Request
    <3>2. CASE Modify(r)
      BY <2>0, <3>1, <3>2 DEF Modify
    <3>3. QED
      BY <2>3, <2>15, <3>2 DEF ModifyFails
  <2>16. CASE List(r) \/ ListFails(r) \/ Wipe(r)
    BY <1>0, <2>1, <2>3, <2>16 DEF List, ListFails, Wipe, Become, Request
  <2>17. CASE Fault(r)
    BY <2>2, <2>3, <2>17 DEF Fault, CallFails, Crash
  <2>18. QED
    BY <2>4, <2>5, <2>6, <2>7, <2>8, <2>9, <2>10, <2>11, <2>12, <2>13, <2>14,
       <2>15, <2>16, <2>17 DEF Start, Step
<1>3. \A p \in Reqs \ {r} : req'[p] = req[p]
  BY <1>0, OthersStand
<1>4. QED
  BY <1>1, <1>2, <1>3 DEF NobodyCreates, WarmInv

\* So that is an invariant of deployments whose table exists.
LEMMA WarmInvariant == TableAtStart /\ Spec => []WarmInv
<1>1. TableAtStart /\ Init => WarmInv
  BY InitIInv DEF Init, WarmInv, NobodyCreates, NewRequest
<1>2. WarmInv /\ [Next]_vars => WarmInv'
  <2> SUFFICES ASSUME WarmInv, [Next]_vars PROVE WarmInv'
    OBVIOUS
  <2>1. IInv'
    BY NextIInv DEF WarmInv
  <2>2. CASE \E r \in Reqs : Start(r) \/ Step(r) \/ Fault(r)
    BY <2>1, <2>2, StepNobodyCreates DEF WarmInv
  <2>3. CASE UNCHANGED vars
    BY <2>1, <2>3 DEF vars, WarmInv, NobodyCreates
  <2>4. QED
    BY <2>2, <2>3 DEF Next, Rest
<1>3. QED
  BY <1>1, <1>2, PTL DEF Spec

-----------------------------------------------------------------------------
(* The mapping                                                             *)

\* Since no spot is double-booked, its holder is its one active row.
HolderIsActiveRow ==
    \A s \in Spots :
        /\ ~Held(s) => HolderOf(s) = 0
        /\ Held(s) => /\ HolderOf(s) \in DOMAIN bookings \ {0}
                      /\ bookings[HolderOf(s)].spot = s
                      /\ bookings[HolderOf(s)].active
        /\ \A i \in DOMAIN bookings :
              bookings[i].spot = s /\ bookings[i].active => HolderOf(s) = i

\* With each spot booked once, HolderOf's choice is that one row.
LEMMA HolderFact == IInv => HolderIsActiveRow
<1> SUFFICES ASSUME IInv, NEW s \in Spots
             PROVE  /\ ~Held(s) => HolderOf(s) = 0
                    /\ Held(s) => /\ HolderOf(s) \in DOMAIN bookings \ {0}
                                  /\ bookings[HolderOf(s)].spot = s
                                  /\ bookings[HolderOf(s)].active
                    /\ \A i \in DOMAIN bookings :
                          bookings[i].spot = s /\ bookings[i].active
                            => HolderOf(s) = i
  BY DEF HolderIsActiveRow
<1>1. ~Held(s) => HolderOf(s) = 0
  BY DEF HolderOf
<1>2. Held(s) => /\ HolderOf(s) \in DOMAIN bookings
                 /\ bookings[HolderOf(s)].spot = s
                 /\ bookings[HolderOf(s)].active
  BY DEF HolderOf, Held
<1>3. 0 \notin DOMAIN bookings
  BY DEF IInv, ShardsOK, RowsOK
<1>4. \A i \in DOMAIN bookings :
         bookings[i].spot = s /\ bookings[i].active => HolderOf(s) = i
  <2>1. SUFFICES ASSUME NEW i \in DOMAIN bookings,
                        bookings[i].spot = s, bookings[i].active
                 PROVE  HolderOf(s) = i
    OBVIOUS
  <2>2. Held(s)
    BY <2>1 DEF Held
  <2>3. QED
    BY <1>2, <2>1, <2>2 DEF IInv, NoDoubleBooking
<1>5. QED
  BY <1>1, <1>2, <1>3, <1>4

\* The same of the next state.
LEMMA HolderFactNext == IInv' => HolderIsActiveRow'
BY HolderFact, PTL

-----------------------------------------------------------------------------
(* The Ledger's variables, as Booking has them.                            *)

Holder == [s \in Spots |-> HolderOf(s)]
Tickets == [i \in DOMAIN bookings |-> bookings[i].spot]
Last == nextId - 1

\* A step that leaves the rows alone leaves the Ledger alone.
LEMMA SameRowsStutter ==
  ASSUME UNCHANGED <<bookings, nextId>>
  PROVE  UNCHANGED <<Holder, Tickets, Last>>
BY DEF Holder, Tickets, Last, HolderOf, Held

\* A step that changes neither the active rows nor the spots of any row,
\* nor the sequence, leaves the Ledger alone too.
LEMMA SameActiveStutter ==
  ASSUME IInv, IInv', nextId' = nextId, DOMAIN bookings' = DOMAIN bookings,
         \A i \in DOMAIN bookings : /\ bookings'[i].spot = bookings[i].spot
                                   /\ bookings'[i].active = bookings[i].active
  PROVE  UNCHANGED <<Holder, Tickets, Last>>
<1>1. ASSUME NEW s \in Spots
      PROVE  HolderOf(s)' = HolderOf(s)
  <2>1. Held(s)' <=> Held(s)
    BY DEF Held
  <2>2. CASE Held(s)
    BY <2>1, <2>2, HolderFact, HolderFactNext DEF HolderIsActiveRow
  <2>3. CASE ~Held(s)
    BY <2>1, <2>3, HolderFact, HolderFactNext DEF HolderIsActiveRow
  <2>4. QED
    BY <2>2, <2>3
<1>2. Holder' = Holder
  BY <1>1 DEF Holder
<1>3. Tickets' = Tickets
  BY Zenon DEF Tickets
<1>4. Last' = Last
  BY DEF Last
<1>5. QED
  BY <1>2, <1>3, <1>4

\* INSERT is a grant.
LEMMA InsertGrants ==
  ASSUME IInv, IInv', NEW r \in Reqs, InsertRow(r)
  PROVE  \E s \in Spots : L!Grant(s)
<1>0. PICK s0 \in Spots : s0 = req[r].spot
  BY DEF IInv, ReqsOK, OrderlyRequest, ProgramOrder, InsertRow, At
<1>1. /\ nextId \in Nat \ {0} /\ nextId' = nextId + 1
      /\ nextId \notin DOMAIN bookings
      /\ DOMAIN bookings' = DOMAIN bookings \cup {nextId}
      /\ bookings'[nextId].spot = s0 /\ bookings'[nextId].active
      /\ \A i \in DOMAIN bookings : bookings'[i] = bookings[i]
      /\ ~Held(s0)
  BY <1>0 DEF IInv, ShardsOK, RowsOK, InsertRow, IndexAllows
<1>2. HolderOf(s0) = 0 /\ HolderOf(s0)' = nextId
  <2>1. HolderOf(s0) = 0
    BY <1>0, <1>1, HolderFact DEF HolderIsActiveRow
  <2>2. nextId \in DOMAIN bookings'
    BY <1>1
  <2>3. HolderOf(s0)' = nextId
    BY <1>0, <1>1, <2>2, HolderFactNext DEF HolderIsActiveRow
  <2>4. QED
    BY <2>1, <2>3
<1>3. ASSUME NEW s \in Spots, s # s0
      PROVE  HolderOf(s)' = HolderOf(s)
  <2>1. Held(s)' <=> Held(s)
    BY <1>1, <1>3 DEF Held
  <2>2. CASE Held(s)
    <3>1. HolderOf(s) \in DOMAIN bookings' /\ bookings'[HolderOf(s)].spot = s
          /\ bookings'[HolderOf(s)].active
      BY <1>1, <2>2, HolderFact DEF HolderIsActiveRow
    <3>2. QED
      BY <3>1, HolderFactNext DEF HolderIsActiveRow
  <2>3. CASE ~Held(s)
    BY <2>1, <2>3, HolderFact, HolderFactNext DEF HolderIsActiveRow
  <2>4. QED
    BY <2>2, <2>3
<1>4. Holder' = [Holder EXCEPT ![s0] = nextId]
  BY <1>0, <1>2, <1>3 DEF Holder
<1>5. /\ Last' = Last + 1 /\ Last + 1 = nextId
  BY <1>1 DEF Last
<1>6. Tickets' = [t \in DOMAIN Tickets \cup {nextId} |->
                    IF t = nextId THEN s0 ELSE Tickets[t]]
  BY <1>1 DEF Tickets
<1>7. Holder[s0] = 0
  BY <1>0, <1>2 DEF Holder
<1>8. /\ Holder[s0] = 0
      /\ Last' = Last + 1
      /\ Tickets' = [t \in DOMAIN Tickets \cup {Last + 1} |->
                        IF t = Last + 1 THEN s0 ELSE Tickets[t]]
      /\ Holder' = [Holder EXCEPT ![s0] = Last + 1]
  BY <1>4, <1>5, <1>6, <1>7
<1>9. L!Grant(s0)
  BY <1>8, Zenon DEF L!Grant, L!Nobody, Holder, Tickets, Last
<1>10. QED
  BY <1>0, <1>9

\* An active row that becomes inactive, no other changing, releases its spot.
LEMMA DeactivationReleases ==
  ASSUME IInv, IInv', NEW j \in DOMAIN bookings, bookings[j].active,
         ~bookings'[j].active, bookings'[j].spot = bookings[j].spot,
         DOMAIN bookings' = DOMAIN bookings, nextId' = nextId,
         \A i \in DOMAIN bookings \ {j} : bookings'[i] = bookings[i]
  PROVE  \E s \in Spots : L!Release(s)
<1>0. PICK s0 \in Spots : s0 = bookings[j].spot
  BY DEF IInv, ShardsOK, RowsOK, Row
<1>1. Holder[s0] = j /\ j # 0
  <2>1. HolderOf(s0) = j
    BY <1>0, HolderFact DEF HolderIsActiveRow
  <2>2. j # 0
    BY DEF IInv, ShardsOK, RowsOK
  <2>3. QED
    BY <1>0, <2>1, <2>2 DEF Holder
<1>2. HolderOf(s0)' = 0
  <2>1. ~Held(s0)'
    BY <1>0 DEF Held, IInv, NoDoubleBooking
  <2>2. QED
    BY <2>1, HolderFactNext DEF HolderIsActiveRow
<1>3. ASSUME NEW s \in Spots, s # s0
      PROVE  HolderOf(s)' = HolderOf(s)
  <2>1. CASE Held(s)
    <3>1. PICK i \in DOMAIN bookings : bookings[i].spot = s /\ bookings[i].active
      BY <2>1 DEF Held
    <3>2. i # j
      BY <1>0, <1>3, <3>1
    <3>3. bookings'[i].spot = s /\ bookings'[i].active /\ i \in DOMAIN bookings'
      BY <3>1, <3>2
    <3>4. HolderOf(s) = i
      BY <3>1, HolderFact DEF HolderIsActiveRow
    <3>5. HolderOf(s)' = i
      BY <3>3, HolderFactNext DEF HolderIsActiveRow
    <3>6. QED
      BY <3>4, <3>5
  <2>2. CASE ~Held(s)
    <3>1. ~Held(s)'
      BY <1>0, <1>3, <2>2 DEF Held
    <3>2. QED
      BY <2>2, <3>1, HolderFact, HolderFactNext DEF HolderIsActiveRow
  <2>3. QED
    BY <2>1, <2>2
<1>4. Holder' = [Holder EXCEPT ![s0] = 0]
  BY <1>0, <1>2, <1>3 DEF Holder
<1>5. \A i \in DOMAIN bookings : bookings'[i].spot = bookings[i].spot
  OBVIOUS
<1>6. Tickets' = Tickets
  BY <1>5, Zenon DEF Tickets
<1>7. Last' = Last
  BY DEF Last
<1>8. L!Release(s0)
  BY <1>1, <1>4, <1>6, <1>7 DEF L!Release, L!Nobody, Holder, Tickets, Last
<1>9. QED
  BY <1>8

\* An inactive row that becomes active takes its own, free, spot back.
LEMMA ReactivationReclaims ==
  ASSUME IInv, IInv', NEW j \in DOMAIN bookings, ~bookings[j].active,
         bookings'[j].active, bookings'[j].spot = bookings[j].spot,
         DOMAIN bookings' = DOMAIN bookings, nextId' = nextId,
         \A i \in DOMAIN bookings \ {j} : bookings'[i] = bookings[i]
  PROVE  \E t \in DOMAIN Tickets : L!Reclaim(t)
<1>0. PICK s0 \in Spots : s0 = bookings[j].spot
  BY DEF IInv, ShardsOK, RowsOK, Row
<1>1. Holder[s0] = 0
  <2>1. ~Held(s0)
    BY <1>0 DEF Held, IInv, NoDoubleBooking
  <2>2. HolderOf(s0) = 0
    BY <2>1, HolderFact DEF HolderIsActiveRow
  <2>3. QED
    BY <1>0, <2>2 DEF Holder
<1>2. HolderOf(s0)' = j
  <2>1. j \in DOMAIN bookings'
    OBVIOUS
  <2>2. QED
    BY <1>0, <2>1, HolderFactNext DEF HolderIsActiveRow
<1>3. ASSUME NEW s \in Spots, s # s0
      PROVE  HolderOf(s)' = HolderOf(s)
  <2>1. CASE Held(s)
    <3>1. PICK i \in DOMAIN bookings : bookings[i].spot = s /\ bookings[i].active
      BY <2>1 DEF Held
    <3>2. i # j
      BY <1>0, <1>3, <3>1
    <3>3. bookings'[i].spot = s /\ bookings'[i].active /\ i \in DOMAIN bookings'
      BY <3>1, <3>2
    <3>4. HolderOf(s) = i
      BY <3>1, HolderFact DEF HolderIsActiveRow
    <3>5. HolderOf(s)' = i
      BY <3>3, HolderFactNext DEF HolderIsActiveRow
    <3>6. QED
      BY <3>4, <3>5
  <2>2. CASE ~Held(s)
    <3>1. ~Held(s)'
      BY <1>0, <1>3, <2>2 DEF Held
    <3>2. QED
      BY <2>2, <3>1, HolderFact, HolderFactNext DEF HolderIsActiveRow
  <2>3. QED
    BY <2>1, <2>2
<1>4. Holder' = [Holder EXCEPT ![s0] = j]
  BY <1>0, <1>2, <1>3 DEF Holder
<1>5. \A i \in DOMAIN bookings : bookings'[i].spot = bookings[i].spot
  OBVIOUS
<1>6. Tickets' = Tickets
  BY <1>5, Zenon DEF Tickets
<1>7. Last' = Last /\ j \in DOMAIN Tickets /\ Tickets[j] = s0
  BY <1>0 DEF Last, Tickets
<1>8. L!Reclaim(j)
  BY <1>1, <1>4, <1>6, <1>7 DEF L!Reclaim, L!Nobody, Holder, Tickets, Last
<1>9. QED
  BY <1>7, <1>8

\* An UPDATE of a row is a release, a reclaim, or nothing the Ledger sees.
LEMMA UpdateMaps ==
  ASSUME IInv, IInv', NEW r \in Reqs, Deactivate(r) \/ Modify(r)
  PROVE  [L!Next]_<<Holder, Tickets, Last>>
<1>1. PICK j : j = req[r].id
  OBVIOUS
<1>2. /\ j \in DOMAIN bookings /\ nextId' = nextId
      /\ DOMAIN bookings' = DOMAIN bookings
      /\ bookings'[j].spot = bookings[j].spot
      /\ \A i \in DOMAIN bookings \ {j} : bookings'[i] = bookings[i]
  BY <1>1 DEF IInv, ShardsOK, RowsOK, Row, Deactivate, Deactivated, Modify
<1>3. bookings[j].active \in BOOLEAN /\ bookings'[j].active \in BOOLEAN
  BY <1>2 DEF IInv, ShardsOK, RowsOK, Row
<1>4. CASE bookings[j].active /\ ~bookings'[j].active
  BY <1>2, <1>4, DeactivationReleases DEF L!Next
<1>5. CASE ~bookings[j].active /\ bookings'[j].active
  BY <1>2, <1>5, ReactivationReclaims DEF L!Next, Tickets
<1>6. CASE bookings'[j].active = bookings[j].active
  <2>1. \A i \in DOMAIN bookings : /\ bookings'[i].spot = bookings[i].spot
                                  /\ bookings'[i].active = bookings[i].active
    BY <1>2, <1>6
  <2>2. QED
    BY <1>2, <2>1, SameActiveStutter
<1>7. QED
  BY <1>3, <1>4, <1>5, <1>6

\* DELETE FROM bookings closes the books.
LEMMA WipeCloses ==
  ASSUME IInv, IInv', NEW r \in Reqs, Wipe(r)
  PROVE  L!CloseBooks
<1>1. bookings' = NoRows /\ nextId' = nextId /\ DOMAIN NoRows = {}
  BY DEF Wipe, NoRows
<1>2. \A s \in Spots : HolderOf(s)' = 0
  BY <1>1 DEF HolderOf, Held
<1>3. Holder' = [s \in Spots |-> 0]
  BY <1>2 DEF Holder
<1>4. Tickets' = [t \in {} |-> 0]
  BY <1>1 DEF Tickets
<1>5. QED
  BY <1>1, <1>3, <1>4 DEF L!CloseBooks, L!Nobody, Holder, Tickets

\* Every step of a request is a step of the Ledger or a stutter.
LEMMA StepMaps ==
  ASSUME WarmInv, IInv', NEW r \in Reqs, Start(r) \/ Step(r) \/ Fault(r)
  PROVE  [L!Next]_<<Holder, Tickets, Last>>
<1>0. IInv /\ tableExists /\ req[r].pc \notin {"drop", "create"}
  BY DEF WarmInv, NobodyCreates
<1>1. CASE Start(r) \/ Fault(r)
  BY <1>1, SameRowsStutter
  DEF Start, StartBook, StartBookAll, StartDelete, StartUpdate, StartClear,
      Reject, Fault, CallFails, Crash, shards
<1>2. CASE Step(r)
  <2>1. CASE Ensure(r)
    BY <1>0, <2>1, SameRowsStutter
    DEF Ensure, EnsureCheck, EnsureReplace, EnsureNothingToDrop, EnsureCreate,
        EnsureCreateFails, At, shards
  <2>2. CASE InsertRow(r)
    BY <1>0, <2>2, InsertGrants DEF L!Next
  <2>3. CASE InsertFails(r)
    <3>1. nextId \in Nat \ {0} /\ nextId' = nextId + 1 /\ bookings' = bookings
      BY <1>0, <2>3 DEF InsertFails, IInv, ShardsOK, RowsOK
    <3>2. Holder' = Holder /\ Tickets' = Tickets
      BY <3>1, Zenon DEF Holder, Tickets, HolderOf, Held
    <3>3. L!Waste
      BY <3>1, <3>2 DEF L!Waste, Holder, Tickets
    <3>4. QED
      BY <3>3 DEF L!Next
  <2>4. CASE Deactivate(r) \/ Modify(r)
    BY <1>0, <2>4, UpdateMaps
  <2>5. CASE Wipe(r)
    BY <1>0, <2>5, WipeCloses DEF L!Next
  <2>6. CASE \/ ControllerCheck(r) \/ ServiceCheck(r) \/ Mark(r)
             \/ Invalidate(r) \/ Scan(r) \/ LoopNext(r) \/ LoopEnd(r)
             \/ Find(r) \/ FindNone(r) \/ ModifyFails(r) \/ RowGone(r)
             \/ List(r) \/ ListFails(r)
    BY <2>6, SameRowsStutter
    DEF ControllerCheck, ServiceCheck, Mark, Invalidate, Scan, LoopNext,
        LoopEnd, Find, FindNone, ModifyFails, RowGone, List, ListFails, shards
  <2>7. QED
    BY <1>2, <2>1, <2>2, <2>3, <2>4, <2>5, <2>6 DEF Step
<1>3. QED
  BY <1>1, <1>2

\* The empty bookings table is the empty Ledger.
LEMMA InitMaps == Init => L!Init
<1> SUFFICES ASSUME Init PROVE L!Init
  OBVIOUS
<1>1. bookings = NoRows /\ nextId = 1 /\ DOMAIN NoRows = {}
  BY DEF Init, NoRows
<1>2. Holder = [s \in Spots |-> 0]
  BY <1>1 DEF Holder, HolderOf, Held
<1>3. Tickets = [t \in {} |-> 0]
  BY <1>1 DEF Tickets
<1>4. Last = 0
  BY <1>1 DEF Last
<1>5. QED
  BY <1>2, <1>3, <1>4 DEF L!Init, L!Nobody, Holder, Tickets, Last

\* Once the bookings table exists, the service is the Ledger: a spot has one
\* holder, a booking number is issued once and names one spot for ever.
THEOREM RefinesLedger == TableAtStart => (Spec => ImplementsLedger)
<1>1. WarmInv /\ WarmInv' /\ [Next]_vars => [L!Next]_<<Holder, Tickets, Last>>
  <2> SUFFICES ASSUME WarmInv, WarmInv', [Next]_vars
               PROVE  [L!Next]_<<Holder, Tickets, Last>>
    OBVIOUS
  <2>1. CASE \E r \in Reqs : Start(r) \/ Step(r) \/ Fault(r)
    BY <2>1, StepMaps DEF WarmInv
  <2>2. CASE UNCHANGED vars
    BY <2>2, SameRowsStutter DEF vars
  <2>3. QED
    BY <2>1, <2>2 DEF Next, Rest
<1>2. WarmInv /\ WarmInv' /\ [Next]_vars => [L!Next]_L!ledger
  BY <1>1 DEF L!ledger, Holder, Tickets, Last
<1>3. QED
  BY <1>2, InitMaps, WarmInvariant, PTL DEF Spec, ImplementsLedger, L!Spec

-----------------------------------------------------------------------------
(* What the Ledger promises follows from its actions alone, and so is kept *)
(* by the service: it is stated in the Ledger's own terms.                 *)

LedgerInv ==
    /\ Last \in Nat
    /\ DOMAIN Tickets \subseteq 1..Last
    /\ DOMAIN Holder = Spots
    /\ L!HoldersHaveTickets

LEMMA GrantKeeps ==
  ASSUME LedgerInv, NEW s \in Spots, L!Grant(s)
  PROVE  LedgerInv' /\ L!TicketsStand
<1> DEFINE n == Last + 1
<1>1. /\ Holder[s] = 0
      /\ Last' = n
      /\ Tickets' = [t \in DOMAIN Tickets \cup {n} |-> IF t = n THEN s ELSE Tickets[t]]
      /\ Holder' = [Holder EXCEPT ![s] = n]
  BY Zenon DEF L!Grant, L!Nobody, Holder, Tickets, Last
<1>2. /\ Last \in Nat /\ DOMAIN Tickets \subseteq 1..Last /\ DOMAIN Holder = Spots
      /\ \A p \in Spots : Holder[p] # 0 =>
            Holder[p] \in DOMAIN Tickets /\ Tickets[Holder[p]] = p
  BY DEF LedgerInv, L!HoldersHaveTickets, L!Nobody, Holder, Tickets
<1>3. n \notin DOMAIN Tickets /\ n \in Nat /\ n > Last
  BY <1>2
<1>4. /\ DOMAIN Tickets' = DOMAIN Tickets \cup {n} /\ Tickets'[n] = s
      /\ \A t \in DOMAIN Tickets : Tickets'[t] = Tickets[t]
  BY <1>1, <1>3
<1>5. /\ DOMAIN Holder' = Spots /\ Holder'[s] = n
      /\ \A p \in Spots \ {s} : Holder'[p] = Holder[p]
  BY <1>1, <1>2
<1>6. \A p \in Spots : Holder'[p] # 0 =>
         Holder'[p] \in DOMAIN Tickets' /\ Tickets'[Holder'[p]] = p
  BY <1>2, <1>4, <1>5
<1>7. DOMAIN Tickets' \subseteq 1..Last' /\ Last' \in Nat /\ Last' >= Last
  BY <1>1, <1>2, <1>4
<1>8. \A t \in DOMAIN Tickets' :
         \/ t \in DOMAIN Tickets /\ Tickets'[t] = Tickets[t]
         \/ t \notin DOMAIN Tickets /\ t > Last
  BY <1>3, <1>4
<1>9. LedgerInv'
  BY <1>5, <1>6, <1>7 DEF LedgerInv, L!HoldersHaveTickets, L!Nobody, Holder, Tickets
<1>10. L!TicketsStand
  BY <1>7, <1>8 DEF L!TicketsStand, Tickets, Last
<1>11. QED
  BY <1>9, <1>10

LEMMA HolderChangeKeeps ==
  ASSUME LedgerInv,
         \/ \E s \in Spots : L!Release(s)
         \/ \E t \in DOMAIN Tickets : L!Reclaim(t)
  PROVE  LedgerInv' /\ L!TicketsStand
<1>1. /\ Last \in Nat /\ DOMAIN Tickets \subseteq 1..Last /\ DOMAIN Holder = Spots
      /\ \A p \in Spots : Holder[p] # 0 =>
            Holder[p] \in DOMAIN Tickets /\ Tickets[Holder[p]] = p
  BY DEF LedgerInv, L!HoldersHaveTickets, L!Nobody, Holder, Tickets
<1>2. /\ Tickets' = Tickets /\ Last' = Last
      /\ \/ \E s \in Spots : Holder' = [Holder EXCEPT ![s] = 0]
         \/ \E t \in DOMAIN Tickets : Holder' = [Holder EXCEPT ![Tickets[t]] = t]
  BY Zenon DEF L!Release, L!Reclaim, L!Nobody, Holder, Tickets, Last
<1>3. /\ DOMAIN Holder' = Spots
      /\ \A p \in Spots : Holder'[p] # 0 =>
            Holder'[p] \in DOMAIN Tickets /\ Tickets[Holder'[p]] = p
  <2>1. CASE \E s \in Spots : Holder' = [Holder EXCEPT ![s] = 0]
    BY <1>1, <2>1
  <2>2. CASE \E t \in DOMAIN Tickets : Holder' = [Holder EXCEPT ![Tickets[t]] = t]
    BY <1>1, <2>2
  <2>3. QED
    BY <1>2, <2>1, <2>2
<1>4. LedgerInv'
  BY <1>1, <1>2, <1>3 DEF LedgerInv, L!HoldersHaveTickets, L!Nobody, Holder, Tickets
<1>5. L!TicketsStand
  <2>1. Last' >= Last
    BY <1>1, <1>2
  <2>2. QED
    BY <1>2, <2>1 DEF L!TicketsStand, Tickets, Last
<1>6. QED
  BY <1>4, <1>5

LEMMA WasteKeeps ==
  ASSUME LedgerInv, L!Waste
  PROVE  LedgerInv' /\ L!TicketsStand
<1>1. /\ Last' = Last + 1 /\ Holder' = Holder /\ Tickets' = Tickets
      /\ Last \in Nat /\ DOMAIN Tickets \subseteq 1..Last
  BY DEF L!Waste, LedgerInv, Holder, Tickets, Last
<1>2. /\ Last' \in Nat /\ Last' >= Last /\ DOMAIN Tickets' \subseteq 1..Last'
  BY <1>1
<1>3. LedgerInv'
  BY <1>1, <1>2 DEF LedgerInv, L!HoldersHaveTickets, L!Nobody, Holder, Tickets
<1>4. L!TicketsStand
  BY <1>1, <1>2 DEF L!TicketsStand, Tickets, Last
<1>5. QED
  BY <1>3, <1>4

LEMMA CloseBooksKeeps ==
  ASSUME LedgerInv, L!CloseBooks
  PROVE  LedgerInv' /\ L!TicketsStand
<1>1. /\ Last' = Last /\ Last \in Nat
      /\ Holder' = [s \in Spots |-> 0] /\ Tickets' = [t \in {} |-> 0]
  BY DEF L!CloseBooks, L!Nobody, LedgerInv, Holder, Tickets, Last
<1>2. DOMAIN Tickets' = {} /\ DOMAIN Holder' = Spots /\ \A s \in Spots : Holder'[s] = 0
  BY <1>1
<1>3. LedgerInv'
  BY <1>1, <1>2 DEF LedgerInv, L!HoldersHaveTickets, L!Nobody, Holder, Tickets
<1>4. L!TicketsStand
  <2>1. Last' >= Last
    BY <1>1
  <2>2. QED
    BY <1>2, <2>1 DEF L!TicketsStand, Tickets, Last
<1>5. QED
  BY <1>3, <1>4

\* A holder's booking number is of that spot, a number stays with its spot and
\* one that was deleted never comes back: consequences of the Ledger alone.
THEOREM LedgerKeepsPromises == L!Spec => L!Promises
<1>1. L!Init => LedgerInv
  <2> SUFFICES ASSUME L!Init PROVE LedgerInv
    OBVIOUS
  <2>1. Holder = [s \in Spots |-> 0] /\ Tickets = [t \in {} |-> 0] /\ Last = 0
    BY DEF L!Init, L!Nobody, Holder, Tickets, Last
  <2>2. DOMAIN Tickets = {} /\ DOMAIN Holder = Spots /\ \A s \in Spots : Holder[s] = 0
    BY <2>1
  <2>3. QED
    BY <2>1, <2>2 DEF LedgerInv, L!HoldersHaveTickets, L!Nobody, Holder, Tickets
<1>2. LedgerInv /\ [L!Next]_L!ledger => LedgerInv' /\ [L!TicketsStand]_L!ledger
  <2> SUFFICES ASSUME LedgerInv, [L!Next]_L!ledger
               PROVE  LedgerInv' /\ [L!TicketsStand]_L!ledger
    OBVIOUS
  <2>1. CASE L!Next
    BY <2>1, GrantKeeps, HolderChangeKeeps, WasteKeeps, CloseBooksKeeps
    DEF L!Next, Tickets
  <2>2. CASE UNCHANGED L!ledger
    <3>1. Holder' = Holder /\ Tickets' = Tickets /\ Last' = Last
      BY <2>2 DEF L!ledger, Holder, Tickets, Last
    <3>2. QED
      BY <2>2, <3>1 DEF LedgerInv, L!HoldersHaveTickets, L!Nobody, Holder, Tickets
  <2>3. QED
    BY <2>1, <2>2
<1>3. LedgerInv => L!HoldersHaveTickets
  BY DEF LedgerInv
<1>4. QED
  BY <1>1, <1>2, <1>3, PTL DEF L!Spec, L!Promises

\* So the booking service keeps them too, once its table exists.
THEOREM BookingKeepsPromises == TableAtStart => (Spec => L!Promises)
BY RefinesLedger, LedgerKeepsPromises, PTL DEF ImplementsLedger
=============================================================================

---------------------------- MODULE BookingProofs ---------------------------
(***************************************************************************)
(* Proofs about Booking and BookingRequirements, for any sets of requests, *)
(* vehicles and spots, any endpoints in use, with or without faults.       *)
(***************************************************************************)
EXTENDS BookingRequirements, FiniteSetTheorems, TLAPS

-----------------------------------------------------------------------------
(* The inductive invariant.  A row is well-typed because of the arguments  *)
(* the INSERT or UPDATE is given, and those depend on which handler a      *)
(* request is in: TypeOK alone is not inductive.                           *)

\* Which handler a step belongs to, and what its arguments are by then.
ProgramOrder(q) ==
    /\ q.pc \in {"ensure", "drop", "create"} => q.op \in AllOps \ {"clear"}
    /\ q.pc = "check" => q.op = "book"
    /\ q.pc \in {"recheck", "insert"} => q.op \in {"book", "bookall"}
    /\ q.pc = "find" => q.op \in {"delete", "update"}
    /\ q.pc = "deactivate" => q.op = "delete"
    /\ q.pc = "modify" => q.op = "update"
    /\ q.pc = "scan" => q.op = "bookall"
    /\ q.pc = "next" => q.op \in {"bookall", "clear"}
    /\ q.pc \in {"list", "wipe"} => q.op = "clear"
    /\ q.op \in {"book", "bookall", "update"} /\ q.pc # "done"
         => q.vehicle \in Vehicles
    /\ q.op = "book" /\ q.pc # "done" => q.spot \in Spots
    /\ q.pc \in {"recheck", "insert", "deactivate", "modify", "mark"}
         => q.spot \in Spots
    /\ q.op = "bookall" /\ q.pc \in {"ensure", "drop", "create"}
         => q.spot \in Spots

OrderlyRequest == {q \in Request : ProgramOrder(q)}

ReqsOK == req \in [Reqs -> OrderlyRequest]

RowsOK ==
    /\ DOMAIN bookings \subseteq 1..(nextId - 1)
    /\ bookings \in [DOMAIN bookings -> Row]
    /\ nextId \in Nat \ {0}

ShardsOK ==
    /\ RowsOK
    /\ tableExists \in BOOLEAN
    /\ status \in [Inventory -> Statuses]

IInv ==
    /\ ShardsOK
    /\ ReqsOK
    /\ NoDoubleBooking
    /\ EnsuredTableStays

\* The invariant gives type correctness.
LEMMA IInvTypeOK == IInv => TypeOK
BY DEF IInv, ShardsOK, RowsOK, ReqsOK, OrderlyRequest, TypeOK

-----------------------------------------------------------------------------
(* Requests                                                                *)

\* A request that becomes an orderly one leaves all of them orderly.
LEMMA BecomeOK ==
  ASSUME ReqsOK, NEW r \in Reqs, NEW q \in OrderlyRequest, Become(r, q)
  PROVE  ReqsOK'
BY DEF ReqsOK, Become

\* Any request may be answered.
LEMMA AnswerOK ==
  ASSUME ReqsOK, NEW r \in Reqs, NEW reply \in Replies, Answer(r, reply)
  PROVE  ReqsOK'
<1> DEFINE q == [req[r] EXCEPT !.pc = "done", !.reply = reply]
<1>1. req[r] \in Request
  BY DEF ReqsOK, OrderlyRequest
<1>2. q \in Request
  BY <1>1 DEF Request, Steps
<1>3. ProgramOrder(q)
  BY <1>1 DEF ProgramOrder, Request
<1>4. QED
  BY <1>2, <1>3, BecomeOK DEF Answer, OrderlyRequest

\* An exception inside the bulk booking's loop leads back to its head.
LEMMA ThrowOK ==
  ASSUME ReqsOK, NEW r \in Reqs, Throw(r)
  PROVE  ReqsOK'
<1> DEFINE q == [req[r] EXCEPT !.pc = "next"]
<1>1. req[r] \in Request /\ ProgramOrder(req[r])
  BY DEF ReqsOK, OrderlyRequest
<1>2. CASE InLoop(req[r])
  <2>1. q \in Request
    BY <1>1 DEF Request, Steps
  <2>2. ProgramOrder(q)
    BY <1>1, <1>2 DEF ProgramOrder, Request, InLoop
  <2>3. QED
    BY <1>2, <2>1, <2>2, BecomeOK DEF Throw, Goto, OrderlyRequest
<1>3. CASE ~InLoop(req[r])
  BY <1>3, AnswerOK DEF Throw, Replies
<1>4. QED
  BY <1>2, <1>3

\* What a request looks like when it arrives.
LEMMA StartReqs ==
  ASSUME ReqsOK, ShardsOK, NEW r \in Reqs, Start(r)
  PROVE  ReqsOK'
<1>0. /\ req[r] \in Request /\ ProgramOrder(req[r])
      /\ nextId \in Nat
  BY DEF ReqsOK, OrderlyRequest, ShardsOK, RowsOK
<1>1. CASE StartBook(r)
  <2>1. PICK s \in Spots, v \in Vehicles :
           Become(r, [req[r] EXCEPT !.op = "book", !.pc = "ensure",
                                    !.spot = s, !.vehicle = v])
    BY <1>1 DEF StartBook
  <2>2. [req[r] EXCEPT !.op = "book", !.pc = "ensure",
                       !.spot = s, !.vehicle = v] \in OrderlyRequest
    BY <1>0 DEF Request, Steps, AllOps, OrderlyRequest, ProgramOrder
  <2>3. QED
    BY <2>1, <2>2, BecomeOK
<1>2. CASE StartBookAll(r)
  <2>1. PICK v \in Vehicles, scope \in Lots \cup {Inventory} :
           Become(r, [req[r] EXCEPT !.op = "bookall", !.pc = "scan",
                                    !.vehicle = v, !.todo = scope])
    BY <1>2 DEF StartBookAll
  <2>2. scope \in SUBSET Spots
    BY ConstantsAssumption
  <2>3. [req[r] EXCEPT !.op = "bookall", !.pc = "scan",
                       !.vehicle = v, !.todo = scope] \in OrderlyRequest
    BY <1>0, <2>2 DEF Request, Steps, AllOps, OrderlyRequest, ProgramOrder
  <2>4. QED
    BY <2>1, <2>3, BecomeOK
<1>3. CASE StartDelete(r)
  <2>1. PICK i \in 1..nextId :
           Become(r, [req[r] EXCEPT !.op = "delete", !.pc = "ensure", !.id = i])
    BY <1>3 DEF StartDelete
  <2>2. i \in Nat
    BY <1>0
  <2>3. [req[r] EXCEPT !.op = "delete", !.pc = "ensure", !.id = i]
           \in OrderlyRequest
    BY <1>0, <2>2 DEF Request, Steps, AllOps, OrderlyRequest, ProgramOrder
  <2>4. QED
    BY <2>1, <2>3, BecomeOK
<1>4. CASE StartUpdate(r)
  <2>1. PICK i \in 1..nextId, v \in Vehicles, a \in BOOLEAN :
           Become(r, [req[r] EXCEPT !.op = "update", !.pc = "ensure",
                                    !.id = i, !.vehicle = v, !.active = a])
    BY <1>4 DEF StartUpdate
  <2>2. i \in Nat
    BY <1>0
  <2> DEFINE q == [req[r] EXCEPT !.op = "update", !.pc = "ensure", !.id = i,
                                 !.vehicle = v, !.active = a]
  <2>3. q \in Request
    BY <1>0, <2>2 DEF Request, Steps, AllOps
  <2>4. ProgramOrder(q)
    <3>1. /\ q.op = "update" /\ q.pc = "ensure" /\ q.vehicle = v
      BY <1>0 DEF Request
    <3>2. QED
      BY <3>1 DEF ProgramOrder, AllOps
  <2>5. q \in OrderlyRequest
    BY <2>3, <2>4 DEF OrderlyRequest
  <2>6. Become(r, q)
    BY <2>1
  <2> HIDE DEF q
  <2>7. QED
    BY <2>5, <2>6, BecomeOK
<1>5. CASE StartClear(r)
  <2>1. [req[r] EXCEPT !.op = "clear", !.pc = "list"] \in OrderlyRequest
    BY <1>0 DEF Request, Steps, AllOps, OrderlyRequest, ProgramOrder
  <2>2. QED
    BY <1>5, <2>1, BecomeOK DEF StartClear
<1>6. CASE Reject(r)
  <2>1. PICK op \in {"book", "bookall", "clear"} :
           Become(r, [req[r] EXCEPT !.op = op, !.pc = "done",
                                    !.reply = "badrequest"])
    BY <1>6 DEF Reject
  <2> DEFINE q == [req[r] EXCEPT !.op = op, !.pc = "done", !.reply = "badrequest"]
  <2>2. op \in AllOps
    BY DEF AllOps
  <2>3. q \in Request
    BY <1>0, <2>2 DEF Request, Steps, Replies
  <2>4. q.pc = "done"
    BY <1>0 DEF Request
  <2>5. ProgramOrder(q)
    BY <2>4 DEF ProgramOrder
  <2>6. q \in OrderlyRequest
    BY <2>3, <2>5 DEF OrderlyRequest
  <2>7. QED
    BY <2>1, <2>6, BecomeOK
<1>7. QED
  BY <1>1, <1>2, <1>3, <1>4, <1>5, <1>6 DEF Start

\* EnsureBookingsTableExistsAsync leads to the statement of its caller.
LEMMA EnsureReqs ==
  ASSUME ReqsOK, NEW r \in Reqs, Ensure(r)
  PROVE  ReqsOK'
<1>0. req[r] \in Request /\ ProgramOrder(req[r])
  BY DEF ReqsOK, OrderlyRequest
<1>1. ASSUME At(r, "ensure") \/ At(r, "drop") \/ At(r, "create")
      PROVE  [req[r] EXCEPT !.pc = AfterEnsure(req[r].op)] \in OrderlyRequest
  <2> DEFINE q == [req[r] EXCEPT !.pc = AfterEnsure(req[r].op)]
  <2>1. req[r].op \in AllOps \ {"clear"}
    BY <1>0, <1>1 DEF ProgramOrder, At
  <2>2. q \in Request
    BY <1>0 DEF Request, AfterEnsure, Steps
  <2>3. /\ q.op = req[r].op /\ q.pc = AfterEnsure(req[r].op)
        /\ q.spot = req[r].spot /\ q.vehicle = req[r].vehicle
    BY <1>0 DEF Request
  <2>4. ProgramOrder(q)
    <3> HIDE DEF q
    <3>1. CASE req[r].op = "book"
      BY <1>0, <1>1, <2>3, <3>1 DEF ProgramOrder, At, AfterEnsure
    <3>2. CASE req[r].op = "bookall"
      BY <1>0, <1>1, <2>3, <3>2 DEF ProgramOrder, At, AfterEnsure
    <3>3. CASE req[r].op \in {"delete", "update"}
      BY <1>0, <1>1, <2>3, <3>3 DEF ProgramOrder, At, AfterEnsure
    <3>4. QED
      BY <2>1, <3>1, <3>2, <3>3 DEF AllOps
  <2>5. QED
    BY <2>2, <2>4 DEF OrderlyRequest
<1>2. ASSUME NEW step \in {"drop", "create"},
             At(r, "ensure") \/ At(r, "drop")
      PROVE  [req[r] EXCEPT !.pc = step] \in OrderlyRequest
  BY <1>0, <1>2 DEF Request, Steps, OrderlyRequest, ProgramOrder, At
<1>3. CASE EnsureCheck(r)
  BY <1>1, <1>2, <1>3, BecomeOK DEF EnsureCheck, Goto
<1>4. CASE EnsureReplace(r)
  BY <1>1, <1>4, BecomeOK DEF EnsureReplace, Goto
<1>5. CASE EnsureNothingToDrop(r)
  BY <1>2, <1>5, BecomeOK DEF EnsureNothingToDrop, Goto
<1>6. CASE EnsureCreate(r)
  BY <1>1, <1>6, BecomeOK DEF EnsureCreate, Goto
<1>7. CASE EnsureCreateFails(r)
  BY <1>7, ThrowOK DEF EnsureCreateFails
<1>8. QED
  BY <1>3, <1>4, <1>5, <1>6, <1>7 DEF Ensure

\* Checking and inserting.
LEMMA BookReqs ==
  ASSUME ReqsOK, ShardsOK, NEW r \in Reqs,
         \/ ControllerCheck(r) \/ ServiceCheck(r)
         \/ InsertRow(r) \/ InsertFails(r)
  PROVE  ReqsOK'
<1>0. /\ req[r] \in Request /\ ProgramOrder(req[r])
      /\ nextId \in Nat
  BY DEF ReqsOK, OrderlyRequest, ShardsOK, RowsOK
<1>1. CASE ControllerCheck(r)
  <2>1. CASE Held(req[r].spot)
    BY <1>1, <2>1, AnswerOK DEF ControllerCheck, Replies
  <2>2. CASE ~Held(req[r].spot)
    <3>1. [req[r] EXCEPT !.pc = "recheck"] \in OrderlyRequest
      BY <1>0, <1>1
      DEF ControllerCheck, At, Request, Steps, OrderlyRequest, ProgramOrder
    <3>2. QED
      BY <1>1, <2>2, <3>1, BecomeOK DEF ControllerCheck, Goto
  <2>3. QED
    BY <2>1, <2>2
<1>2. CASE ServiceCheck(r)
  <2>1. CASE Held(req[r].spot)
    BY <1>2, <2>1, ThrowOK DEF ServiceCheck
  <2>2. CASE ~Held(req[r].spot)
    <3>1. [req[r] EXCEPT !.pc = "insert"] \in OrderlyRequest
      BY <1>0, <1>2
      DEF ServiceCheck, At, Request, Steps, OrderlyRequest, ProgramOrder
    <3>2. QED
      BY <1>2, <2>2, <3>1, BecomeOK DEF ServiceCheck, Goto
  <2>3. QED
    BY <2>1, <2>2
<1>3. CASE InsertRow(r)
  <2>1. [req[r] EXCEPT !.pc = "mark", !.id = nextId, !.mark = "occupied"]
           \in OrderlyRequest
    BY <1>0, <1>3
    DEF InsertRow, At, Request, Steps, Statuses, OrderlyRequest, ProgramOrder
  <2>2. QED
    BY <1>3, <2>1, BecomeOK DEF InsertRow
<1>4. CASE InsertFails(r)
  BY <1>4, ThrowOK DEF InsertFails
<1>5. QED
  BY <1>1, <1>2, <1>3, <1>4

\* The status write and the answer.
LEMMA ReplyReqs ==
  ASSUME ReqsOK, NEW r \in Reqs, Mark(r) \/ Invalidate(r)
  PROVE  ReqsOK'
<1>0. req[r] \in Request /\ ProgramOrder(req[r])
  BY DEF ReqsOK, OrderlyRequest
<1>1. CASE Mark(r)
  <2> DEFINE q == [req[r] EXCEPT !.pc = AfterMark(req[r].op),
                     !.count = IF req[r].op = "bookall" THEN @ + 1 ELSE @]
  <2>0. /\ req[r].count \in Nat
        /\ (IF req[r].op = "bookall" THEN req[r].count + 1 ELSE req[r].count) \in Nat
        /\ AfterMark(req[r].op) \in Steps
    BY <1>0 DEF Request, AfterMark, Steps
  <2>1. q \in Request
    BY <1>0, <2>0 DEF Request
  <2>2. /\ q.op = req[r].op /\ q.pc = AfterMark(req[r].op)
        /\ q.spot = req[r].spot /\ q.vehicle = req[r].vehicle
    BY <1>0 DEF Request
  <2>3. ProgramOrder(q)
    <3> HIDE DEF q
    <3>1. QED
      BY <1>0, <1>1, <2>2 DEF ProgramOrder, Mark, At, AfterMark
  <2>4. QED
    BY <1>1, <2>1, <2>3, BecomeOK DEF Mark, OrderlyRequest
<1>2. CASE Invalidate(r)
  BY <1>2, AnswerOK DEF Invalidate, Replies
<1>3. QED
  BY <1>1, <1>2

\* The loops over the spots scanned or listed.
LEMMA LoopReqs ==
  ASSUME ReqsOK, NEW r \in Reqs, Scan(r) \/ LoopNext(r) \/ LoopEnd(r)
  PROVE  ReqsOK'
<1>0. req[r] \in Request /\ ProgramOrder(req[r])
  BY DEF ReqsOK, OrderlyRequest
<1>1. CASE Scan(r)
  <2> DEFINE free == {s \in req[r].todo \cap Inventory : status[s] = "available"}
             q == [req[r] EXCEPT !.pc = "next", !.todo = free, !.scanned = free]
  <2>1. free \in SUBSET Spots
    BY ConstantsAssumption
  <2> HIDE DEF free
  <2>2. q \in OrderlyRequest
    BY <1>0, <1>1, <2>1
    DEF Scan, At, Request, Steps, OrderlyRequest, ProgramOrder
  <2>3. Become(r, q)
    BY <1>1 DEF Scan, free
  <2> HIDE DEF q
  <2>4. QED
    BY <2>2, <2>3, BecomeOK
<1>2. CASE LoopNext(r)
  <2>1. PICK s \in req[r].todo :
           Become(r, [req[r] EXCEPT !.pc = LoopStep(req[r].op), !.spot = s,
                                    !.todo = Remaining(@, s)])
    BY <1>2 DEF LoopNext
  <2> DEFINE q == [req[r] EXCEPT !.pc = LoopStep(req[r].op), !.spot = s,
                                 !.todo = Remaining(@, s)]
  <2>2. s \in Spots
    BY <1>0, <2>1 DEF Request
  <2>3. q \in Request
    BY <1>0, <2>2 DEF Request, LoopStep, Steps, Remaining
  <2>4. /\ q.op = req[r].op /\ q.pc = LoopStep(req[r].op)
        /\ q.spot = s /\ q.vehicle = req[r].vehicle
    BY <1>0 DEF Request
  <2>5. Become(r, q)
    BY <2>1
  <2> HIDE DEF q
  <2>6. ProgramOrder(q)
    BY <1>0, <1>2, <2>2, <2>4 DEF ProgramOrder, LoopNext, At, LoopStep, AllOps
  <2>7. QED
    BY <2>3, <2>5, <2>6, BecomeOK DEF OrderlyRequest
<1>3. CASE LoopEnd(r)
  <2>1. [req[r] EXCEPT !.pc = "invalidate"] \in OrderlyRequest
    BY <1>0, <1>3
    DEF LoopEnd, At, Request, Steps, OrderlyRequest, ProgramOrder
  <2>2. QED
    BY <1>3, <2>1, BecomeOK DEF LoopEnd, Goto
<1>4. QED
  BY <1>1, <1>2, <1>3

\* Reading a booking and changing it.
LEMMA ChangeReqs ==
  ASSUME ReqsOK, ShardsOK, NEW r \in Reqs,
         \/ Find(r) \/ FindNone(r) \/ Deactivate(r)
         \/ Modify(r) \/ ModifyFails(r) \/ RowGone(r)
  PROVE  ReqsOK'
<1>0. req[r] \in Request /\ ProgramOrder(req[r])
  BY DEF ReqsOK, OrderlyRequest
<1>1. CASE Find(r)
  <2> DEFINE row == bookings[req[r].id]
             q == [req[r] EXCEPT
                     !.pc = IF req[r].op = "delete" THEN "deactivate" ELSE "modify",
                     !.spot = row.spot, !.was = row.active]
  <2>1. row \in Row
    BY <1>1 DEF Find, ShardsOK, RowsOK
  <2>2. Become(r, q)
    BY <1>1 DEF Find
  <2> HIDE DEF row
  <2>3. q \in Request
    BY <1>0, <2>1 DEF Request, Row, Steps
  <2>4. /\ q.op = req[r].op /\ q.vehicle = req[r].vehicle /\ q.spot = row.spot
        /\ q.pc = IF req[r].op = "delete" THEN "deactivate" ELSE "modify"
    BY <1>0 DEF Request
  <2> HIDE DEF q
  <2>5. ProgramOrder(q)
    BY <1>0, <1>1, <2>1, <2>4 DEF ProgramOrder, Find, At, Row
  <2>6. QED
    BY <2>2, <2>3, <2>5, BecomeOK DEF OrderlyRequest
<1>2. CASE FindNone(r)
  BY <1>2, AnswerOK DEF FindNone, Replies
<1>3. CASE Deactivate(r)
  <2>0. req[r].spot \in Spots
    BY <1>0, <1>3 DEF ProgramOrder, Deactivate, At
  <2>1. [req[r] EXCEPT !.pc = "mark", !.mark = "available"] \in OrderlyRequest
    BY <1>0, <1>3, <2>0
    DEF Deactivate, At, Request, Steps, Statuses, OrderlyRequest, ProgramOrder
  <2>2. QED
    BY <1>3, <2>1, BecomeOK DEF Deactivate
<1>4. CASE Modify(r)
  <2> DEFINE q == [req[r] EXCEPT
                     !.pc = IF req[r].was # req[r].active THEN "mark" ELSE "invalidate",
                     !.mark = IF req[r].active THEN "occupied" ELSE "available"]
  <2>1. Become(r, q)
    BY <1>4 DEF Modify
  <2>2. q \in Request
    BY <1>0 DEF Request, Steps, Statuses
  <2>3. /\ q.op = req[r].op /\ q.vehicle = req[r].vehicle
        /\ q.spot = req[r].spot /\ q.pc \in {"mark", "invalidate"}
    BY <1>0 DEF Request
  <2> HIDE DEF q
  <2>4. ProgramOrder(q)
    BY <1>0, <1>4, <2>3 DEF ProgramOrder, Modify, At
  <2>5. QED
    BY <2>1, <2>2, <2>4, BecomeOK DEF OrderlyRequest
<1>5. CASE ModifyFails(r)
  BY <1>5, ThrowOK DEF ModifyFails
<1>6. CASE RowGone(r)
  BY <1>6, AnswerOK DEF RowGone, Replies
<1>7. QED
  BY <1>1, <1>2, <1>3, <1>4, <1>5, <1>6

\* The bulk delete.
LEMMA ClearReqs ==
  ASSUME ReqsOK, NEW r \in Reqs, List(r) \/ ListFails(r) \/ Wipe(r)
  PROVE  ReqsOK'
<1>0. req[r] \in Request /\ ProgramOrder(req[r])
  BY DEF ReqsOK, OrderlyRequest
<1>1. CASE List(r)
  <2> DEFINE held == {s \in Spots : Held(s)}
             q == [req[r] EXCEPT !.pc = "wipe", !.todo = held,
                                 !.mark = "available"]
  <2>1. Become(r, q)
    BY <1>1 DEF List
  <2>2. held \in SUBSET Spots
    OBVIOUS
  <2> HIDE DEF held
  <2>3. q \in OrderlyRequest
    BY <1>0, <1>1, <2>2
    DEF List, At, Request, Steps, Statuses, OrderlyRequest, ProgramOrder
  <2> HIDE DEF q
  <2>4. QED
    BY <2>1, <2>3, BecomeOK
<1>2. CASE ListFails(r)
  BY <1>2, ThrowOK DEF ListFails
<1>3. CASE Wipe(r)
  <2>1. [req[r] EXCEPT !.pc = "next"] \in OrderlyRequest
    BY <1>0, <1>3 DEF Wipe, At, Request, Steps, OrderlyRequest, ProgramOrder
  <2>2. QED
    BY <1>3, <2>1, BecomeOK DEF Wipe, Goto
<1>4. QED
  BY <1>1, <1>2, <1>3

\* Whatever a request does, every request stays orderly.
LEMMA StepReqs ==
  ASSUME ReqsOK, ShardsOK, NEW r \in Reqs, Start(r) \/ Step(r) \/ Fault(r)
  PROVE  ReqsOK'
<1>1. CASE Start(r)
  BY <1>1, StartReqs
<1>2. CASE Step(r)
  BY <1>2, EnsureReqs, BookReqs, ReplyReqs, LoopReqs, ChangeReqs, ClearReqs
  DEF Step
<1>3. CASE Fault(r)
  BY <1>3, ThrowOK, AnswerOK DEF Fault, CallFails, Crash, Replies
<1>4. QED
  BY <1>1, <1>2, <1>3

-----------------------------------------------------------------------------
(* The shards                                                              *)

\* No active row for the spot: inserting one keeps the rows well-typed and
\* each spot booked once.  The numbers in use stay below nextId, so the row
\* added is not an old one overwritten.
LEMMA InsertRows ==
  ASSUME IInv, NEW r \in Reqs, InsertRow(r)
  PROVE  RowsOK' /\ NoDoubleBooking'
<1> DEFINE new == [vehicle |-> req[r].vehicle, spot |-> req[r].spot,
                   active |-> TRUE]
<1>1. new \in Row
  <2>1. req[r] \in Request /\ ProgramOrder(req[r]) /\ req[r].pc = "insert"
    BY DEF IInv, ReqsOK, OrderlyRequest, InsertRow, At
  <2>2. req[r].vehicle \in Vehicles /\ req[r].spot \in Spots
    BY <2>1 DEF ProgramOrder
  <2>3. QED
    BY <2>2 DEF Row
<1>2. /\ nextId \in Nat \ {0} /\ nextId' = nextId + 1
      /\ DOMAIN bookings \subseteq 1..(nextId - 1)
      /\ bookings \in [DOMAIN bookings -> Row]
      /\ nextId \notin DOMAIN bookings
  BY DEF IInv, ShardsOK, RowsOK, InsertRow
<1>3. /\ DOMAIN bookings' = DOMAIN bookings \cup {nextId}
      /\ bookings'[nextId] = new
      /\ \A i \in DOMAIN bookings : bookings'[i] = bookings[i]
  BY <1>2 DEF InsertRow
<1>4. \A i \in DOMAIN bookings :
         ~(bookings[i].active /\ bookings[i].spot = req[r].spot)
  BY DEF InsertRow, IndexAllows, Held
<1>5. RowsOK'
  <2>1. DOMAIN bookings' \subseteq 1..(nextId' - 1)
    BY <1>2, <1>3
  <2>2. bookings' = [i \in DOMAIN bookings' |-> bookings'[i]]
    BY DEF InsertRow
  <2>3. \A i \in DOMAIN bookings' : bookings'[i] \in Row
    BY <1>1, <1>2, <1>3
  <2>4. QED
    BY <1>2, <2>1, <2>2, <2>3 DEF RowsOK
<1>6. NoDoubleBooking'
  BY <1>2, <1>3, <1>4 DEF IInv, NoDoubleBooking
<1>7. QED
  BY <1>5, <1>6

\* Deactivating a row books nothing.
LEMMA DeactivateRows ==
  ASSUME IInv, NEW r \in Reqs, Deactivate(r)
  PROVE  RowsOK' /\ NoDoubleBooking'
<1>1. /\ DOMAIN bookings' = DOMAIN bookings
      /\ \A i \in DOMAIN bookings :
            /\ bookings'[i] \in Row
            /\ bookings'[i].spot = bookings[i].spot
            /\ bookings'[i].active => bookings[i].active
  BY DEF IInv, ShardsOK, RowsOK, Deactivate, Deactivated, Row
<1>2. bookings' \in [DOMAIN bookings' -> Row]
  BY <1>1 DEF Deactivate, Deactivated, IInv, ShardsOK, RowsOK
<1>3. RowsOK'
  BY <1>1, <1>2 DEF IInv, ShardsOK, RowsOK, Deactivate
<1>4. NoDoubleBooking'
  BY <1>1 DEF IInv, NoDoubleBooking
<1>5. QED
  BY <1>3, <1>4

\* Re-activating one is allowed only when no other is active for its spot.
LEMMA ModifyRows ==
  ASSUME IInv, NEW r \in Reqs, Modify(r)
  PROVE  RowsOK' /\ NoDoubleBooking'
<1>1. req[r].vehicle \in Vehicles /\ req[r].active \in BOOLEAN
  BY DEF IInv, ReqsOK, OrderlyRequest, ProgramOrder, Request, Modify, At
<1>2. /\ DOMAIN bookings' = DOMAIN bookings
      /\ \A i \in DOMAIN bookings :
            /\ bookings'[i] \in Row
            /\ bookings'[i].spot = bookings[i].spot
            /\ i # req[r].id => bookings'[i] = bookings[i]
      /\ bookings'[req[r].id].active = req[r].active
  BY <1>1 DEF IInv, ShardsOK, RowsOK, Modify, Row
<1>3. bookings' \in [DOMAIN bookings' -> Row]
  BY <1>2 DEF Modify, IInv, ShardsOK, RowsOK
<1>4. RowsOK'
  BY <1>2, <1>3 DEF IInv, ShardsOK, RowsOK, Modify
<1>5. NoDoubleBooking'
  BY <1>2 DEF IInv, NoDoubleBooking, Modify, Collides
<1>6. QED
  BY <1>4, <1>5

\* A table made anew or emptied has no rows at all.
LEMMA NoRowsOK ==
  ASSUME bookings' = NoRows, nextId' \in Nat \ {0}
  PROVE  RowsOK' /\ NoDoubleBooking'
<1>1. DOMAIN NoRows = {} /\ NoRows \in [{} -> Row]
  BY DEF NoRows
<1>2. QED
  BY <1>1 DEF RowsOK, NoDoubleBooking

\* A request that stays off the rows leaves both shards well-formed.
LEMMA SameRows ==
  ASSUME IInv, UNCHANGED <<bookings, nextId>>
  PROVE  RowsOK' /\ NoDoubleBooking'
BY DEF IInv, ShardsOK, RowsOK, NoDoubleBooking

\* Whatever a request does, the rows stay well-typed, each spot booked once.
LEMMA StepRows ==
  ASSUME IInv, NEW r \in Reqs, Start(r) \/ Step(r) \/ Fault(r)
  PROVE  RowsOK' /\ NoDoubleBooking'
<1>0. nextId \in Nat \ {0}
  BY DEF IInv, ShardsOK, RowsOK
<1>1. CASE Start(r)
  BY <1>1, SameRows
  DEF Start, StartBook, StartBookAll, StartDelete, StartUpdate, StartClear,
      Reject, shards
<1>2. CASE Step(r)
  <2>1. CASE Ensure(r)
    BY <2>1, SameRows, NoRowsOK
    DEF Ensure, EnsureCheck, EnsureReplace, EnsureNothingToDrop, EnsureCreate,
        EnsureCreateFails, FreshTable, shards
  <2>2. CASE InsertRow(r)
    BY <2>2, InsertRows
  <2>3. CASE InsertFails(r)
    BY <1>0, <2>3 DEF IInv, ShardsOK, RowsOK, NoDoubleBooking, InsertFails
  <2>4. CASE Deactivate(r)
    BY <2>4, DeactivateRows
  <2>5. CASE Modify(r)
    BY <2>5, ModifyRows
  <2>6. CASE Wipe(r)
    BY <1>0, <2>6, NoRowsOK DEF Wipe
  <2>7. CASE \/ ControllerCheck(r) \/ ServiceCheck(r) \/ Mark(r)
             \/ Invalidate(r) \/ Scan(r) \/ LoopNext(r) \/ LoopEnd(r)
             \/ Find(r) \/ FindNone(r) \/ ModifyFails(r) \/ RowGone(r)
             \/ List(r) \/ ListFails(r)
    BY <2>7, SameRows
    DEF ControllerCheck, ServiceCheck, Mark, Invalidate, Scan, LoopNext,
        LoopEnd, Find, FindNone, ModifyFails, RowGone, List, ListFails, shards
  <2>8. QED
    BY <1>2, <2>1, <2>2, <2>3, <2>4, <2>5, <2>6, <2>7 DEF Step
<1>3. CASE Fault(r)
  BY <1>3, SameRows DEF Fault, CallFails, Crash, shards
<1>4. QED
  BY <1>1, <1>2, <1>3

\* Whatever a request does, a spot's status is one of the two, and a table
\* that is there stays there.
LEMMA StepTable ==
  ASSUME IInv, NEW r \in Reqs, Start(r) \/ Step(r) \/ Fault(r)
  PROVE  /\ tableExists' \in BOOLEAN
         /\ tableExists => tableExists'
         /\ status' \in [Inventory -> Statuses]
<1>1. CASE Start(r)
  BY <1>1
  DEF Start, StartBook, StartBookAll, StartDelete, StartUpdate, StartClear,
      Reject, shards, IInv, ShardsOK
<1>2. CASE Step(r)
  <2>1. CASE Ensure(r)
    BY <2>1
    DEF Ensure, EnsureCheck, EnsureReplace, EnsureNothingToDrop, EnsureCreate,
        EnsureCreateFails, FreshTable, shards, IInv, ShardsOK
  <2>2. CASE Mark(r)
    <3>1. req[r].mark \in Statuses
      BY DEF IInv, ReqsOK, OrderlyRequest, Request
    <3>2. QED
      BY <2>2, <3>1 DEF Mark, Written, IInv, ShardsOK
  <2>3. CASE \/ ControllerCheck(r) \/ ServiceCheck(r) \/ InsertRow(r)
             \/ InsertFails(r) \/ Invalidate(r) \/ Scan(r) \/ LoopNext(r)
             \/ LoopEnd(r) \/ Find(r) \/ FindNone(r) \/ Deactivate(r)
             \/ Modify(r) \/ ModifyFails(r) \/ RowGone(r) \/ List(r)
             \/ ListFails(r) \/ Wipe(r)
    BY <2>3
    DEF ControllerCheck, ServiceCheck, InsertRow, InsertFails, Invalidate, Scan,
        LoopNext, LoopEnd, Find, FindNone, Deactivate, Modify, ModifyFails,
        RowGone, List, ListFails, Wipe, shards, IInv, ShardsOK
  <2>4. QED
    BY <1>2, <2>1, <2>2, <2>3 DEF Step
<1>3. CASE Fault(r)
  BY <1>3 DEF Fault, CallFails, Crash, shards, IInv, ShardsOK
<1>4. QED
  BY <1>1, <1>2, <1>3

-----------------------------------------------------------------------------
(* Past Ensure                                                             *)

\* The steps that name the bookings table in their statement.
NeedsTable == {"check", "recheck", "insert", "find", "deactivate", "modify",
               "wipe"}

\* A request enters one of them only when the table is there, or from another.
LEMMA EntersWithTable ==
  ASSUME IInv, NEW r \in Reqs, Start(r) \/ Step(r) \/ Fault(r),
         req'[r].pc \in NeedsTable
  PROVE  tableExists' \/ req[r].pc \in NeedsTable
<1>0. req[r] \in Request /\ req \in [Reqs -> Request]
  BY DEF IInv, ReqsOK, OrderlyRequest
<1>1. ASSUME NEW st, Goto(r, st)
      PROVE  req'[r].pc = st
  BY <1>0, <1>1 DEF Goto, Become, Request
<1>2. ASSUME NEW reply, Answer(r, reply)
      PROVE  req'[r].pc = "done"
  BY <1>0, <1>2 DEF Answer, Become, Request
<1>3. ASSUME Throw(r)
      PROVE  req'[r].pc \in {"next", "done"}
  BY <1>1, <1>2, <1>3 DEF Throw
<1>4. CASE Start(r)
  <2>1. req'[r].pc \in {"ensure", "scan", "list", "done"}
    <3>1. CASE StartBook(r) \/ StartDelete(r) \/ StartUpdate(r)
      BY <1>0, <3>1 DEF StartBook, StartDelete, StartUpdate, Become, Request
    <3>2. CASE StartBookAll(r) \/ StartClear(r)
      BY <1>0, <3>2 DEF StartBookAll, StartClear, Become, Request
    <3>3. CASE Reject(r)
      BY <1>0, <3>3 DEF Reject, Become, Request
    <3>4. QED
      BY <1>4, <3>1, <3>2, <3>3 DEF Start
  <2>2. QED
    BY <2>1 DEF NeedsTable
<1>5. CASE Step(r)
  <2>1. CASE Ensure(r)
    BY <1>1, <1>3, <2>1
    DEF Ensure, EnsureCheck, EnsureReplace, EnsureNothingToDrop, EnsureCreate,
        EnsureCreateFails, FreshTable, shards, NeedsTable
  <2>2. CASE \/ ControllerCheck(r) \/ ServiceCheck(r) \/ InsertRow(r)
             \/ InsertFails(r) \/ Find(r) \/ FindNone(r) \/ Deactivate(r)
             \/ Modify(r) \/ ModifyFails(r) \/ RowGone(r) \/ Wipe(r)
    BY <2>2
    DEF ControllerCheck, ServiceCheck, InsertRow, InsertFails, Find, FindNone,
        Deactivate, Modify, ModifyFails, RowGone, Wipe, At, NeedsTable
  <2>3. CASE Mark(r)
    BY <1>0, <2>3 DEF Mark, AfterMark, Become, Request, NeedsTable
  <2>4. CASE Invalidate(r)
    BY <1>2, <2>4 DEF Invalidate, NeedsTable
  <2>5. CASE Scan(r)
    BY <1>0, <2>5 DEF Scan, Become, Request, NeedsTable
  <2>6. CASE LoopNext(r)
    BY <1>0, <2>6 DEF LoopNext, LoopStep, Become, Request, NeedsTable
  <2>7. CASE LoopEnd(r)
    BY <1>1, <2>7 DEF LoopEnd, NeedsTable
  <2>8. CASE List(r)
    BY <2>8 DEF List, shards
  <2>9. CASE ListFails(r)
    BY <1>3, <2>9 DEF ListFails, NeedsTable
  <2>10. QED
    BY <1>5, <2>1, <2>2, <2>3, <2>4, <2>5, <2>6, <2>7, <2>8, <2>9 DEF Step
<1>6. CASE Fault(r)
  BY <1>2, <1>3, <1>6 DEF Fault, CallFails, Crash, NeedsTable
<1>7. QED
  BY <1>4, <1>5, <1>6

\* A step of one request leaves the others where they were.
LEMMA OthersStand ==
  ASSUME IInv, NEW r \in Reqs, Start(r) \/ Step(r) \/ Fault(r),
         NEW p \in Reqs, p # r
  PROVE  req'[p] = req[p]
<1>1. ASSUME NEW q, Become(r, q)
      PROVE  req'[p] = req[p]
  BY <1>1 DEF Become, IInv, ReqsOK
<1>2. CASE Start(r)
  BY <1>1, <1>2
  DEF Start, StartBook, StartBookAll, StartDelete, StartUpdate, StartClear, Reject
<1>3. CASE Step(r)
  BY <1>1, <1>3
  DEF Step, Ensure, EnsureCheck, EnsureReplace, EnsureNothingToDrop,
      EnsureCreate, EnsureCreateFails, ControllerCheck, ServiceCheck, InsertRow,
      InsertFails, Mark, Invalidate, Scan, LoopNext, LoopEnd, Find, FindNone,
      Deactivate, Modify, ModifyFails, RowGone, List, ListFails, Wipe,
      Goto, Answer, Throw
<1>4. CASE Fault(r)
  BY <1>1, <1>4 DEF Fault, CallFails, Crash, Throw, Goto, Answer
<1>5. QED
  BY <1>2, <1>3, <1>4

\* Hence a request past Ensure always finds a table.
LEMMA StepEnsured ==
  ASSUME IInv, NEW r \in Reqs, Start(r) \/ Step(r) \/ Fault(r)
  PROVE  EnsuredTableStays'
<1>1. SUFFICES ASSUME NEW p \in Reqs, req'[p].pc \in NeedsTable
               PROVE  tableExists'
  BY DEF EnsuredTableStays, NeedsTable
<1>2. req[p].pc \in NeedsTable => tableExists
  BY DEF IInv, EnsuredTableStays, NeedsTable
<1>3. CASE p = r
  BY <1>1, <1>2, <1>3, EntersWithTable, StepTable
<1>4. CASE p # r
  BY <1>1, <1>2, <1>4, OthersStand, StepTable
<1>5. QED
  BY <1>3, <1>4

-----------------------------------------------------------------------------
(* Progress: every step of a request is one towards its answer.            *)

Advanced(q, n) == Onward(q, n) \/ NextRound(q, n)

\* The places of the steps, with the tests of a request's pc decided.
LEMMA Places ==
  /\ Place["new"] = 0 /\ Place["scan"] = 1 /\ Place["list"] = 1 /\ Place["wipe"] = 2
  /\ Place["ensure"] = 3 /\ Place["drop"] = 4 /\ Place["create"] = 5
  /\ Place["check"] = 6 /\ Place["recheck"] = 7 /\ Place["insert"] = 8
  /\ Place["find"] = 9 /\ Place["deactivate"] = 10 /\ Place["modify"] = 11
  /\ Place["mark"] = 12 /\ Place["next"] = 13
  /\ Place["invalidate"] = 14 /\ Place["done"] = 15
BY DEF Place

\* A later step with the same list, whatever else the request learns.
LEMMA OnwardTo ==
  ASSUME NEW q \in Request, NEW n, n.todo = q.todo, Place[q.pc] < Place[n.pc]
  PROVE  Advanced(q, n)
BY DEF Advanced, Onward

LEMMA GotoAdvances ==
  ASSUME IInv, NEW r \in Reqs, NEW st \in Steps, Goto(r, st),
         Place[req[r].pc] < Place[st]
  PROVE  Advanced(req[r], req'[r])
<1>1. /\ req[r] \in Request
      /\ req'[r] = [req[r] EXCEPT !.pc = st]
  BY DEF IInv, ReqsOK, OrderlyRequest, Goto, Become
<1>2. req'[r].pc = st /\ req'[r].todo = req[r].todo
  BY <1>1 DEF Request
<1>3. QED
  BY <1>1, <1>2, OnwardTo

\* An answer ends the program.
LEMMA AnswerAdvances ==
  ASSUME IInv, NEW r \in Reqs, NEW reply, Answer(r, reply), ~At(r, "done")
  PROVE  Advanced(req[r], req'[r])
<1>1. /\ req[r] \in Request
      /\ req'[r] = [req[r] EXCEPT !.pc = "done", !.reply = reply]
  BY DEF IInv, ReqsOK, OrderlyRequest, Answer, Become
<1>2. /\ req'[r].pc = "done" /\ req'[r].todo = req[r].todo
      /\ req[r].pc \in Steps \ {"done"}
  BY <1>1 DEF Request, At
<1>3. Place[req[r].pc] < Place["done"]
  BY <1>2, Places DEF Steps
<1>4. QED
  BY <1>1, <1>2, <1>3, OnwardTo

\* An exception ends it too, or leads to the head of the loop, the last step
\* of a round.
LEMMA ThrowAdvances ==
  ASSUME IInv, NEW r \in Reqs, Throw(r), ~At(r, "next"), ~At(r, "done")
  PROVE  Advanced(req[r], req'[r])
<1>1. CASE InLoop(req[r])
  <2>1. req[r].pc \in Steps \ {"new", "scan", "next", "invalidate", "done"}
    BY <1>1 DEF InLoop, IInv, ReqsOK, OrderlyRequest, Request, At
  <2>2. Place[req[r].pc] < Place["next"]
    BY <2>1, Places DEF Steps
  <2>3. QED
    BY <1>1, <2>2, GotoAdvances DEF Throw, Steps
<1>2. CASE ~InLoop(req[r])
  BY <1>2, AnswerAdvances DEF Throw
<1>3. QED
  BY <1>1, <1>2

LEMMA StartAdvances ==
  ASSUME IInv, NEW r \in Reqs, Start(r)
  PROVE  Advanced(req[r], req'[r])
<1>1. /\ req \in [Reqs -> Request] /\ req[r] \in Request /\ req[r].pc = "new"
  BY DEF IInv, ReqsOK, OrderlyRequest, At, Start,
         StartBook, StartBookAll, StartDelete, StartUpdate, StartClear, Reject
<1>2. ASSUME NEW q, Become(r, q)
      PROVE  req'[r] = q
  BY <1>1, <1>2 DEF Become
<1>3. SUFFICES req'[r].pc \in {"ensure", "scan", "list", "done"}
  BY <1>1, Places DEF Advanced, Onward, SetsList
<1>4. CASE StartBook(r)
  BY <1>1, <1>2, <1>4 DEF StartBook, Request
<1>5. CASE StartBookAll(r)
  BY <1>1, <1>2, <1>5 DEF StartBookAll, Request
<1>6. CASE StartDelete(r)
  BY <1>1, <1>2, <1>6 DEF StartDelete, Request
<1>7. CASE StartUpdate(r)
  BY <1>1, <1>2, <1>7 DEF StartUpdate, Request
<1>8. CASE StartClear(r)
  BY <1>1, <1>2, <1>8 DEF StartClear, Request
<1>9. CASE Reject(r)
  BY <1>1, <1>2, <1>9 DEF Reject, Request
<1>10. QED
  BY <1>4, <1>5, <1>6, <1>7, <1>8, <1>9 DEF Start

\* The list is set by the scan and the listing, and the head of the loop takes
\* one spot off it.
LEMMA LoopAdvances ==
  ASSUME IInv, NEW r \in Reqs, Scan(r) \/ List(r) \/ LoopNext(r) \/ LoopEnd(r)
  PROVE  Advanced(req[r], req'[r])
<1>1. /\ req \in [Reqs -> Request] /\ req[r] \in Request /\ ProgramOrder(req[r])
  BY DEF IInv, ReqsOK, OrderlyRequest
<1>2. ASSUME NEW q, Become(r, q)
      PROVE  req'[r] = q
  BY <1>1, <1>2 DEF Become
<1>3. CASE Scan(r)
  <2>1. req[r].pc = "scan" /\ req'[r].pc = "next"
    BY <1>1, <1>2, <1>3 DEF Scan, At, Request
  <2>2. QED
    BY <2>1, Places DEF Advanced, Onward, SetsList
<1>4. CASE List(r)
  <2>1. req[r].pc = "list" /\ req'[r].pc = "wipe"
    BY <1>1, <1>2, <1>4 DEF List, At, Request
  <2>2. QED
    BY <2>1, Places DEF Advanced, Onward, SetsList
<1>5. CASE LoopNext(r)
  <2>1. PICK s \in req[r].todo :
           req'[r] = [req[r] EXCEPT !.pc = LoopStep(req[r].op), !.spot = s,
                                    !.todo = Remaining(@, s)]
    BY <1>2, <1>5 DEF LoopNext
  <2>2. /\ req'[r].todo = req[r].todo \ {s}
        /\ req'[r].pc \in {"ensure", "mark"}
    BY <1>1, <2>1 DEF Remaining, LoopStep, Request
  <2>3. req[r].pc = "next"
    BY <1>5 DEF LoopNext, At
  <2>4. QED
    BY <2>1, <2>2, <2>3 DEF Advanced, NextRound, SetsList
<1>6. CASE LoopEnd(r)
  BY <1>6, GotoAdvances, Places DEF LoopEnd, At, Steps
<1>7. QED
  BY <1>3, <1>4, <1>5, <1>6

\* A handler's statements follow each other in the order of the code.
LEMMA StatementAdvances ==
  ASSUME IInv, NEW r \in Reqs,
         \/ Ensure(r) \/ ControllerCheck(r) \/ ServiceCheck(r)
         \/ InsertRow(r) \/ InsertFails(r) \/ Mark(r) \/ Invalidate(r)
         \/ Find(r) \/ FindNone(r) \/ Deactivate(r)
         \/ Modify(r) \/ ModifyFails(r) \/ RowGone(r) \/ ListFails(r) \/ Wipe(r)
  PROVE  Advanced(req[r], req'[r])
<1>1. /\ req \in [Reqs -> Request] /\ req[r] \in Request
  BY DEF IInv, ReqsOK, OrderlyRequest
<1>2. ASSUME NEW q, Become(r, q)
      PROVE  req'[r] = q
  BY <1>1, <1>2 DEF Become
<1>3. CASE Ensure(r)
  <2>1. AfterEnsure(req[r].op) \in {"check", "recheck", "find"}
    BY DEF AfterEnsure
  <2>2. \A st \in {"ensure", "drop", "create"} :
           Place[st] < Place[AfterEnsure(req[r].op)]
    BY <2>1, Places
  <2>3. AfterEnsure(req[r].op) \in Steps
    BY <2>1 DEF Steps
  <2>4. CASE EnsureCheck(r)
    BY <2>2, <2>3, <2>4, GotoAdvances, Places DEF EnsureCheck, At, Steps
  <2>5. CASE EnsureReplace(r)
    BY <2>2, <2>3, <2>5, GotoAdvances DEF EnsureReplace, At
  <2>6. CASE EnsureNothingToDrop(r)
    BY <2>6, GotoAdvances, Places DEF EnsureNothingToDrop, At, Steps
  <2>7. CASE EnsureCreate(r)
    BY <2>2, <2>3, <2>7, GotoAdvances DEF EnsureCreate, At
  <2>8. CASE EnsureCreateFails(r)
    BY <2>8, ThrowAdvances DEF EnsureCreateFails, At
  <2>9. QED
    BY <1>3, <2>4, <2>5, <2>6, <2>7, <2>8 DEF Ensure
<1>4. CASE ControllerCheck(r)
  BY <1>4, AnswerAdvances, GotoAdvances, Places DEF ControllerCheck, At, Steps
<1>5. CASE ServiceCheck(r)
  BY <1>5, ThrowAdvances, GotoAdvances, Places DEF ServiceCheck, At, Steps
<1>6. CASE InsertRow(r)
  <2>1. /\ req[r].pc = "insert" /\ req'[r].pc = "mark" /\ req'[r].todo = req[r].todo
    BY <1>1, <1>2, <1>6 DEF InsertRow, At, Request
  <2>2. QED
    BY <1>1, <2>1, OnwardTo, Places
<1>7. CASE InsertFails(r) \/ ModifyFails(r) \/ ListFails(r)
  BY <1>7, ThrowAdvances DEF InsertFails, ModifyFails, ListFails, At
<1>8. CASE Mark(r)
  <2>1. /\ req[r].pc = "mark" /\ req'[r].pc = AfterMark(req[r].op)
        /\ req'[r].todo = req[r].todo
    BY <1>1, <1>2, <1>8 DEF Mark, At, Request
  <2>2. AfterMark(req[r].op) \in {"next", "invalidate"}
    BY DEF AfterMark
  <2>3. QED
    BY <1>1, <2>1, <2>2, OnwardTo, Places
<1>9. CASE Invalidate(r) \/ FindNone(r) \/ RowGone(r)
  BY <1>9, AnswerAdvances DEF Invalidate, FindNone, RowGone, At
<1>10. CASE Find(r)
  <2>1. /\ req[r].pc = "find" /\ req'[r].pc \in {"deactivate", "modify"}
        /\ req'[r].todo = req[r].todo
    BY <1>1, <1>2, <1>10 DEF Find, At, Request
  <2>2. QED
    BY <1>1, <2>1, OnwardTo, Places
<1>11. CASE Deactivate(r)
  <2>1. /\ req[r].pc = "deactivate" /\ req'[r].pc = "mark"
        /\ req'[r].todo = req[r].todo
    BY <1>1, <1>2, <1>11 DEF Deactivate, At, Request
  <2>2. QED
    BY <1>1, <2>1, OnwardTo, Places
<1>12. CASE Modify(r)
  <2>1. /\ req[r].pc = "modify" /\ req'[r].pc \in {"mark", "invalidate"}
        /\ req'[r].todo = req[r].todo
    BY <1>1, <1>2, <1>12 DEF Modify, At, Request
  <2>2. QED
    BY <1>1, <2>1, OnwardTo, Places
<1>13. CASE Wipe(r)
  BY <1>13, GotoAdvances, Places DEF Wipe, At, Steps
<1>14. QED
  BY <1>3, <1>4, <1>5, <1>6, <1>7, <1>8, <1>9, <1>10, <1>11, <1>12, <1>13

LEMMA StepAdvances ==
  ASSUME IInv, NEW r \in Reqs, Start(r) \/ Step(r) \/ Fault(r)
  PROVE  Advanced(req[r], req'[r])
<1>1. CASE Start(r)
  BY <1>1, StartAdvances
<1>2. CASE Step(r)
  BY <1>2, LoopAdvances, StatementAdvances DEF Step
<1>3. CASE Fault(r)
  BY <1>3, ThrowAdvances, AnswerAdvances DEF Fault, CallFails, Crash, At
<1>4. QED
  BY <1>1, <1>2, <1>3

-----------------------------------------------------------------------------
(* The theorems                                                            *)

\* The invariant holds when the API starts ...
LEMMA InitIInv == Init => IInv
<1> SUFFICES ASSUME Init PROVE IInv
  OBVIOUS
<1>1. RowsOK /\ NoDoubleBooking
  <2>1. DOMAIN NoRows = {} /\ NoRows \in [{} -> Row]
    BY DEF NoRows
  <2>2. QED
    BY <2>1 DEF Init, RowsOK, NoDoubleBooking
<1>2. NewRequest \in OrderlyRequest
  BY DEF NewRequest, OrderlyRequest, Request, ProgramOrder, Steps, Statuses, Replies
<1>3. ReqsOK /\ EnsuredTableStays
  BY <1>2 DEF Init, ReqsOK, EnsuredTableStays, NewRequest
<1>4. ShardsOK
  BY <1>1, ConstantsAssumption DEF Init, ShardsOK
<1>5. QED
  BY <1>1, <1>3, <1>4 DEF IInv

\* ... and every step keeps it.
LEMMA NextIInv == IInv /\ [Next]_vars => IInv'
<1> SUFFICES ASSUME IInv, [Next]_vars PROVE IInv'
  OBVIOUS
<1>1. ASSUME NEW r \in Reqs, Start(r) \/ Step(r) \/ Fault(r)
      PROVE  IInv'
  BY <1>1, StepReqs, StepRows, StepTable, StepEnsured DEF IInv, ShardsOK
<1>2. CASE UNCHANGED vars
  BY <1>2
  DEF vars, IInv, ShardsOK, RowsOK, ReqsOK, NoDoubleBooking, EnsuredTableStays
<1>3. QED
  BY <1>1, <1>2 DEF Next, Rest

\* The invariant is one of the specification.
LEMMA Invariant == Spec => []IInv
BY InitIInv, NextIInv, PTL DEF Spec

\* Rows, statuses and request records are always well-typed: no INSERT or
\* UPDATE is ever given a spot or vehicle its request does not have.
THEOREM TypeCorrect == Spec => []TypeOK
BY Invariant, IInvTypeOK, PTL

\* No spot ever has two active bookings, for any number of concurrent
\* requests, cold start and faults included.
THEOREM NeverDoubleBooked == Spec => []NoDoubleBooking
<1>1. IInv => NoDoubleBooking
  BY DEF IInv
<1>2. QED
  BY <1>1, Invariant, PTL

\* No statement after EnsureBookingsTableExistsAsync ever misses its table.
THEOREM TableStaysEnsured == Spec => []EnsuredTableStays
<1>1. IInv => EnsuredTableStays
  BY DEF IInv
<1>2. QED
  BY <1>1, Invariant, PTL

\* Every statement, exception or crash brings its request closer to its
\* answer, and no other request takes it back: the handlers' loops end
\* whatever the shards say, for any lists, requests and endpoints.
THEOREM HandlersAdvance == Spec => RequestsAdvance
<1>1. IInv /\ [Next]_vars
        => [\A r \in Reqs : Advances(r)]_vars
  <2> SUFFICES ASSUME IInv, NEW r \in Reqs, Start(r) \/ Step(r) \/ Fault(r),
                      NEW p \in Reqs
               PROVE  Advances(p)
    BY DEF Next, Rest
  <2>1. CASE p = r
    BY <2>1, StepAdvances DEF Advances, Advanced
  <2>2. CASE p # r
    BY <2>2, OthersStand DEF Advances
  <2>3. QED
    BY <2>1, <2>2
<1>2. QED
  BY <1>1, Invariant, PTL DEF Spec, RequestsAdvance

-----------------------------------------------------------------------------
(* ... and there is no advancing for ever: lists only get shorter, and on  *)
(* the same list the steps only get later.                                 *)

\* The steps that may still come after the one a request is at.
Ahead(q) == {i \in 0..15 : Place[q.pc] < i}

LEMMA PlaceInOrder ==
  ASSUME NEW q \in Request
  PROVE  /\ Place[q.pc] \in 0..15
         /\ q.pc \notin SetsList <=> 1 < Place[q.pc]
<1>1. q.pc \in Steps
  BY DEF Request
<1>2. QED
  BY <1>1, Places DEF Steps, SetsList

LEMMA AheadShrinks ==
  ASSUME NEW q \in Request, NEW n \in Request, Place[q.pc] < Place[n.pc]
  PROVE  <<Ahead(n), Ahead(q)>> \in StrictSubsetOrdering(0..15)
<1>1. Place[q.pc] \in 0..15 /\ Place[n.pc] \in 0..15
  BY PlaceInOrder
<1>2. Ahead(n) \subseteq Ahead(q)
  BY <1>1 DEF Ahead
<1>3. Place[n.pc] \in Ahead(q) /\ Place[n.pc] \notin Ahead(n)
  BY <1>1 DEF Ahead
<1>4. Ahead(n) \subseteq 0..15 /\ Ahead(q) \subseteq 0..15
  BY DEF Ahead
<1>5. QED
  BY <1>2, <1>3, <1>4 DEF StrictSubsetOrdering

\* Of any requests' states, one is as far as can be.
LEMMA FurthestOf ==
  ASSUME NEW T, T \subseteq Request, T # {}
  PROVE  \E q \in T : \A n \in T : ~(Place[q.pc] < Place[n.pc])
<1> DEFINE D == {Ahead(q) : q \in T}
<1>1. IsWellFoundedOn(StrictSubsetOrdering(0..15), FiniteSubsetsOf(0..15))
  BY FS_StrictSubsetOrderingWellFounded
<1>2. IsFiniteSet(0..15)
  <2>1. \A a, b \in Int : IsFiniteSet(a..b)
    BY FS_Interval
  <2>2. 0 \in Int /\ 15 \in Int
    OBVIOUS
  <2>3. QED
    BY <2>1, <2>2, Zenon
<1>3. FiniteSubsetsOf(0..15) = SUBSET (0..15)
  BY <1>2, FS_FiniteSubsetsOfFinite
<1>4. D \subseteq SUBSET (0..15) /\ D # {}
  <2>1. PICK q \in T : TRUE
    OBVIOUS
  <2>2. Ahead(q) \in D
    OBVIOUS
  <2>3. \A p \in T : Ahead(p) \subseteq 0..15
    BY DEF Ahead
  <2>4. QED
    BY <2>2, <2>3
<1>5. PICK A \in D : \A B \in D : <<B, A>> \notin StrictSubsetOrdering(0..15)
  <2> HIDE DEF D
  <2> QED BY <1>1, <1>3, <1>4, WFMin
<1>6. PICK q \in T : A = Ahead(q)
  OBVIOUS
<1>7. ASSUME NEW n \in T, Place[q.pc] < Place[n.pc]
      PROVE  FALSE
  <2>1. q \in Request /\ n \in Request
    OBVIOUS
  <2>2. Ahead(n) \in D
    OBVIOUS
  <2> HIDE DEF D
  <2>3. QED
    BY <1>5, <1>6, <1>7, <2>1, <2>2, AheadShrinks
<1>8. QED
  BY <1>7

\* n is what a step may make of q.
Progress == {ss \in Request \X Request : Advanced(ss[2], ss[1])}

\* A request cannot advance for ever: with finitely many spots, from its
\* arrival to its answer it takes finitely many statements, however often they
\* throw.  What EveryRequestAnswered needs beside this is that it goes on.
THEOREM ProgressEnds ==
  ASSUME IsFiniteSet(Spots)
  PROVE  IsWellFoundedOn(Progress, Request)
<1> SUFFICES ASSUME NEW T \in SUBSET Request, T # {}
             PROVE  \E q \in T : \A n \in T : <<n, q>> \notin Progress
  BY MinWF
<1> DEFINE Looping == {q \in T : q.pc \notin SetsList}
<1>1. CASE Looping = {}
  <2>1. PICK q \in T : \A n \in T : ~(Place[q.pc] < Place[n.pc])
    BY FurthestOf
  <2>2. q.pc \in SetsList
    BY <1>1
  <2>3. \A n \in T : ~Advanced(q, n)
    BY <2>1, <2>2 DEF Advanced, Onward, NextRound, SetsList
  <2>4. QED
    BY <2>3 DEF Progress
<1>2. CASE Looping # {}
  <2> DEFINE Lists == {q.todo : q \in Looping}
  <2>1. IsWellFoundedOn(StrictSubsetOrdering(Spots), SUBSET Spots)
    BY FS_StrictSubsetOrderingWellFounded, FS_FiniteSubsetsOfFinite
  <2>2. Lists \subseteq SUBSET Spots /\ Lists # {}
    BY <1>2 DEF Request
  <2>3. PICK m \in Lists : \A l \in Lists : <<l, m>> \notin StrictSubsetOrdering(Spots)
    <3> HIDE DEF Lists
    <3> QED BY <2>1, <2>2, WFMin
  <2> DEFINE Last == {q \in Looping : q.todo = m}
  <2>4. Last \subseteq Request /\ Last # {}
    OBVIOUS
  <2>5. PICK q \in Last : \A n \in Last : ~(Place[q.pc] < Place[n.pc])
    <3> HIDE DEF Last
    <3> QED BY <2>4, FurthestOf
  <2>6. /\ q \in T /\ q \in Request /\ q.pc \notin SetsList /\ q.todo = m
    OBVIOUS
  <2>7. ASSUME NEW n \in T, Onward(q, n)
        PROVE  FALSE
    <3>1. n.todo = m /\ Place[q.pc] < Place[n.pc] /\ n \in Request
      BY <2>6, <2>7 DEF Onward
    <3>2. n.pc \notin SetsList
      BY <2>6, <3>1, PlaceInOrder
    <3>3. n \in Last
      BY <3>1, <3>2
    <3>4. QED
      BY <2>5, <3>1, <3>3
  <2>8. ASSUME NEW n \in T, NextRound(q, n)
        PROVE  FALSE
    <3>1. n \in Looping /\ n.todo \subseteq m /\ n.todo # m
      BY <2>6, <2>8 DEF NextRound
    <3>2. n.todo \in Lists
      BY <3>1
    <3>3. n.todo \in SUBSET Spots /\ m \in SUBSET Spots
      BY <2>2, <3>2
    <3>4. <<n.todo, m>> \in StrictSubsetOrdering(Spots)
      BY <3>1, <3>3 DEF StrictSubsetOrdering
    <3>5. QED
      BY <2>3, <3>2, <3>4
  <2>9. \A n \in T : <<n, q>> \notin Progress
    BY <2>7, <2>8 DEF Progress, Advanced
  <2>10. QED
    BY <2>6, <2>9
<1>3. QED
  BY <1>1, <1>2
=============================================================================

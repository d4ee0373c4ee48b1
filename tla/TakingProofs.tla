---------------------------- MODULE TakingProofs ----------------------------
(***************************************************************************)
(* Proofs about deployments in which spots are only taken (POST book and   *)
(* book-all, on a bookings table that exists): what the two shards, the    *)
(* bulk booking's answer, the number of bookings answered and a GET of a   *)
(* spot's details then agree on.                                           *)
(***************************************************************************)
EXTENDS BookingRefinement, SpotDetails, FiniteSetTheorems

Taking == Ops \subseteq {"book", "bookall"} /\ TableAtStart

-----------------------------------------------------------------------------
(* The invariant: nobody releases, so every row is active, and a status    *)
(* write under way is one of "occupied", for a spot that has its row.      *)

OnlyTaking == \A r \in Reqs : req[r].op \in {"none", "book", "bookall"}

RowsActive == \A i \in DOMAIN bookings : bookings[i].active

MarksOccupy ==
    \A r \in Reqs : At(r, "mark") => req[r].mark = "occupied" /\ Held(req[r].spot)

TakeInv == WarmInv /\ OnlyTaking /\ RowsActive /\ MarksOccupy

\* The only actions left.
LEMMA TakingSteps ==
  ASSUME Taking, TakeInv, NEW r \in Reqs, Start(r) \/ Step(r) \/ Fault(r)
  PROVE  \/ StartBook(r) \/ StartBookAll(r) \/ Reject(r) \/ EnsureCheck(r)
         \/ ControllerCheck(r) \/ ServiceCheck(r) \/ InsertRow(r) \/ InsertFails(r)
         \/ Mark(r) \/ Invalidate(r) \/ Scan(r) \/ LoopNext(r) \/ LoopEnd(r)
         \/ Fault(r)
<1>1. /\ ProgramOrder(req[r]) /\ req[r].op \in {"none", "book", "bookall"}
      /\ req[r].pc \notin {"drop", "create"}
  BY DEF TakeInv, WarmInv, IInv, ReqsOK, OrderlyRequest, NobodyCreates, OnlyTaking
<1>2. req[r].pc \notin {"drop", "create", "find", "deactivate", "modify", "list", "wipe"}
  BY <1>1 DEF ProgramOrder
<1>3. ~StartDelete(r) /\ ~StartUpdate(r) /\ ~StartClear(r)
  BY DEF Taking, StartDelete, StartUpdate, StartClear
<1>4. CASE Start(r)
  BY <1>3, <1>4 DEF Start
<1>5. CASE Step(r)
  BY <1>2, <1>5
  DEF Step, Ensure, EnsureReplace, EnsureNothingToDrop, EnsureCreate,
      EnsureCreateFails, Find, FindNone, Deactivate, Modify, ModifyFails, RowGone,
      List, ListFails, Wipe, At
<1>6. QED
  BY <1>4, <1>5

\* Where a request can be after a step that is neither an INSERT nor the
\* loop's head, and that it stays in its handler.
LEMMA TakingReq ==
  ASSUME Taking, TakeInv, NEW r \in Reqs, Start(r) \/ Step(r) \/ Fault(r)
  PROVE  /\ req'[r].op \in {"none", "book", "bookall"}
         /\ req'[r].pc = "mark" => InsertRow(r)
<1>0. /\ req \in [Reqs -> Request] /\ req[r] \in Request
      /\ req[r].op \in {"none", "book", "bookall"}
  BY DEF TakeInv, WarmInv, IInv, ReqsOK, OrderlyRequest, OnlyTaking
<1> DEFINE Good == /\ req'[r].op \in {"none", "book", "bookall"}
                   /\ req'[r].pc # "mark"
<1>1. ASSUME NEW st \in Steps \ {"mark"}, Goto(r, st)
      PROVE  Good
  BY <1>0, <1>1 DEF Goto, Become, Request
<1>2. ASSUME NEW reply, Answer(r, reply)
      PROVE  Good
  BY <1>0, <1>2 DEF Answer, Become, Request
<1>3. ASSUME Throw(r)
      PROVE  Good
  BY <1>1, <1>2, <1>3 DEF Throw, Steps
<1>4. CASE StartBook(r)
  BY <1>0, <1>4 DEF StartBook, Become, Request
<1>5. CASE StartBookAll(r)
  BY <1>0, <1>5 DEF StartBookAll, Become, Request
<1>6. CASE Reject(r)
  <2>1. PICK op \in {"book", "bookall"} :
               Become(r, [req[r] EXCEPT !.op = op, !.pc = "done", !.reply = "badrequest"])
    BY <1>6 DEF Reject, Taking
  <2>2. QED
    BY <1>0, <2>1 DEF Become, Request
<1>7. CASE EnsureCheck(r)
  <2>1. tableExists
    BY DEF TakeInv, WarmInv, NobodyCreates
  <2>2. AfterEnsure(req[r].op) \in Steps \ {"mark"}
    BY DEF AfterEnsure, Steps
  <2>3. QED
    BY <1>1, <1>7, <2>1, <2>2 DEF EnsureCheck
<1>8. CASE ControllerCheck(r) \/ ServiceCheck(r)
  BY <1>1, <1>2, <1>3, <1>8 DEF ControllerCheck, ServiceCheck, Steps
<1>9. CASE InsertRow(r)
  BY <1>0, <1>9 DEF InsertRow, Become, Request
<1>10. CASE InsertFails(r)
  BY <1>3, <1>10 DEF InsertFails
<1>11. CASE Mark(r)
  BY <1>0, <1>11 DEF Mark, AfterMark, Become, Request
<1>12. CASE Invalidate(r)
  BY <1>2, <1>12 DEF Invalidate
<1>13. CASE Scan(r)
  BY <1>0, <1>13 DEF Scan, Become, Request
<1>14. CASE LoopNext(r)
  <2>1. req[r].op = "bookall"
    BY <1>0, <1>14
    DEF LoopNext, At, TakeInv, WarmInv, IInv, ReqsOK, OrderlyRequest, ProgramOrder
  <2>2. QED
    BY <1>0, <1>14, <2>1 DEF LoopNext, LoopStep, Become, Request
<1>15. CASE LoopEnd(r)
  BY <1>1, <1>15 DEF LoopEnd, Steps
<1>16. CASE Fault(r)
  BY <1>2, <1>3, <1>16 DEF Fault, CallFails, Crash
<1>17. QED
  BY <1>4, <1>5, <1>6, <1>7, <1>8, <1>9, <1>10, <1>11, <1>12, <1>13, <1>14,
     <1>15, <1>16, TakingSteps

\* What an INSERT does: the spot has an active row, and its request is to
\* write the status.
LEMMA InsertTakes ==
  ASSUME TakeInv, NEW r \in Reqs, InsertRow(r)
  PROVE  /\ \A i \in DOMAIN bookings :
               i \in DOMAIN bookings' /\ bookings'[i] = bookings[i]
         /\ \A i \in DOMAIN bookings' :
               \/ i \in DOMAIN bookings
               \/ bookings'[i].spot = req[r].spot
         /\ RowsActive'
         /\ Held(req[r].spot)'
         /\ req'[r].spot = req[r].spot /\ req'[r].mark = "occupied"
         /\ req'[r].pc = "mark"
<1>1. /\ req \in [Reqs -> Request] /\ req[r] \in Request
      /\ DOMAIN bookings \subseteq 1..(nextId - 1) /\ nextId \in Nat \ {0}
  BY DEF TakeInv, WarmInv, IInv, ReqsOK, OrderlyRequest, ShardsOK, RowsOK
<1> DEFINE new == [vehicle |-> req[r].vehicle, spot |-> req[r].spot, active |-> TRUE]
<1>2. nextId \notin DOMAIN bookings
  BY <1>1
<1>3. /\ DOMAIN bookings' = DOMAIN bookings \cup {nextId}
      /\ bookings'[nextId] = new
      /\ \A i \in DOMAIN bookings : bookings'[i] = bookings[i]
  BY <1>2 DEF InsertRow
<1>4. new.spot = req[r].spot /\ new.active = TRUE
  OBVIOUS
<1>5. RowsActive'
  BY <1>3, <1>4 DEF RowsActive, TakeInv
<1>6. Held(req[r].spot)'
  <2>1. \E i \in DOMAIN bookings' :
           bookings'[i].spot = req[r].spot /\ bookings'[i].active
    BY <1>3, <1>4
  <2>2. req'[r].spot = req[r].spot
    BY <1>1 DEF InsertRow, Become, Request
  <2>3. QED
    BY <2>1, <2>2 DEF Held
<1>7. /\ req'[r].spot = req[r].spot /\ req'[r].mark = "occupied"
      /\ req'[r].pc = "mark"
  BY <1>1 DEF InsertRow, Become, Request
<1>8. QED
  BY <1>3, <1>4, <1>5, <1>6, <1>7

\* The other steps leave the rows, and all but Mark the statuses.
LEMMA TakingShards ==
  ASSUME Taking, TakeInv, NEW r \in Reqs, Start(r) \/ Step(r) \/ Fault(r)
  PROVE  /\ InsertRow(r) \/ bookings' = bookings
         /\ Mark(r) \/ status' = status
BY TakingSteps
DEF StartBook, StartBookAll, Reject, EnsureCheck, ControllerCheck, ServiceCheck,
    InsertRow, InsertFails, Mark, Invalidate, Scan, LoopNext, LoopEnd, Fault,
    CallFails, Crash, shards

\* A spot that is held stays held.
LEMMA HeldGrows ==
  ASSUME Taking, TakeInv, NEW r \in Reqs, Start(r) \/ Step(r) \/ Fault(r), NEW s,
         Held(s)
  PROVE  \E i \in DOMAIN bookings' : bookings'[i].spot = s /\ bookings'[i].active
BY TakingShards, InsertTakes DEF Held

\* So the invariant is inductive.
LEMMA StepTakeInv ==
  ASSUME Taking, TakeInv, NEW r \in Reqs, Start(r) \/ Step(r) \/ Fault(r)
  PROVE  OnlyTaking' /\ RowsActive' /\ MarksOccupy'
<1>1. \A p \in Reqs \ {r} : req'[p] = req[p]
  BY OthersStand DEF TakeInv, WarmInv
<1>2. OnlyTaking'
  BY <1>1, TakingReq DEF OnlyTaking, TakeInv
<1>3. RowsActive'
  BY TakingShards, InsertTakes DEF TakeInv, RowsActive
<1>4. MarksOccupy'
  <2> SUFFICES ASSUME NEW p \in Reqs, req'[p].pc = "mark"
               PROVE  /\ req'[p].mark = "occupied"
                      /\ \E i \in DOMAIN bookings' :
                            bookings'[i].spot = req'[p].spot /\ bookings'[i].active
    BY DEF MarksOccupy, At, Held
  <2>1. CASE p = r
    BY <2>1, TakingReq, InsertTakes DEF Held
  <2>2. CASE p # r
    <3>1. req[p].pc = "mark" /\ req'[p] = req[p]
      BY <1>1, <2>2
    <3>2. req[p].mark = "occupied" /\ Held(req[p].spot)
      BY <3>1 DEF TakeInv, MarksOccupy, At
    <3>3. QED
      BY <3>1, <3>2, HeldGrows
  <2>3. QED
    BY <2>1, <2>2
<1>5. QED
  BY <1>2, <1>3, <1>4

LEMMA TakeInvariant ==
  ASSUME Taking
  PROVE  Spec => []TakeInv
<1>1. Init /\ WarmInv => TakeInv
  BY DEF Init, TakeInv, OnlyTaking, RowsActive, MarksOccupy, At, NewRequest, NoRows
<1>2. TakeInv /\ WarmInv' /\ [Next]_vars => TakeInv'
  <2> SUFFICES ASSUME TakeInv, WarmInv', [Next]_vars
               PROVE  TakeInv'
    OBVIOUS
  <2>1. CASE \E r \in Reqs : Start(r) \/ Step(r) \/ Fault(r)
    BY <2>1, StepTakeInv DEF TakeInv
  <2>2. CASE UNCHANGED vars
    BY <2>2 DEF vars, TakeInv, OnlyTaking, RowsActive, MarksOccupy, At, Held
  <2>3. QED
    BY <2>1, <2>2 DEF Next, Rest
<1>3. TableAtStart
  BY DEF Taking
<1>4. QED
  BY <1>1, <1>2, <1>3, WarmInvariant, PTL DEF Spec

-----------------------------------------------------------------------------
(* Without faults, a booked spot is marked or about to be.                 *)

LEMMA StepBookedIsMarked ==
  ASSUME Taking, ~Faults, TakeInv, BookedIsMarked,
         NEW r \in Reqs, Start(r) \/ Step(r) \/ Fault(r)
  PROVE  BookedIsMarked'
<1> SUFFICES ASSUME NEW s \in Inventory, Held(s)', status'[s] = "available"
             PROVE  \E p \in Reqs : req'[p].pc = "mark" /\ req'[p].spot = s
  BY DEF BookedIsMarked, Owed, At
<1>1. \A p \in Reqs \ {r} : req'[p] = req[p]
  BY OthersStand DEF TakeInv, WarmInv
<1>2. ASSUME Held(s), status[s] = "available", ~(At(r, "mark") /\ req[r].spot = s)
      PROVE  \E p \in Reqs : req'[p].pc = "mark" /\ req'[p].spot = s
  BY <1>1, <1>2 DEF BookedIsMarked, Owed, At
<1>3. CASE InsertRow(r)
  <2>1. CASE s = req[r].spot
    BY <1>3, <2>1, InsertTakes
  <2>2. CASE s # req[r].spot
    <3>1. Held(s)
      BY <1>3, <2>2, InsertTakes DEF Held, TakeInv, RowsActive
    <3>2. QED
      BY <1>2, <1>3, <2>2, <3>1 DEF InsertRow, At
  <2>3. QED
    BY <2>1, <2>2
<1>4. CASE Mark(r)
  <2>1. bookings' = bookings /\ req[r].mark = "occupied"
    BY <1>4 DEF Mark, TakeInv, MarksOccupy
  <2>2. s # req[r].spot
    BY <1>4, <2>1 DEF Mark, Written
  <2>3. Held(s) /\ status[s] = "available"
    BY <1>4, <2>1, <2>2 DEF Mark, Written, Held
  <2>4. QED
    BY <1>2, <2>2, <2>3
<1>5. CASE ~InsertRow(r) /\ ~Mark(r)
  <2>1. bookings' = bookings /\ status' = status
    BY <1>5, TakingShards
  <2>2. ~At(r, "mark")
    BY <1>5, TakingSteps
    DEF StartBook, StartBookAll, Reject, EnsureCheck, ControllerCheck, ServiceCheck,
        InsertFails, Invalidate, Scan, LoopNext, LoopEnd, Fault, At
  <2>3. Held(s) /\ status[s] = "available"
    BY <2>1 DEF Held
  <2>4. QED
    BY <1>2, <2>2, <2>3
<1>6. QED
  BY <1>3, <1>4, <1>5

\* A booked spot still marked available has its status write under way, for
\* any number of requests: at rest the two shards agree on what is booked.
THEOREM BookedSpotsAreMarked ==
  ASSUME Taking, ~Faults
  PROVE  Spec => []BookedIsMarked
<1>1. Init => BookedIsMarked
  BY DEF Init, BookedIsMarked, Held, NoRows
<1>2. TakeInv /\ BookedIsMarked /\ [Next]_vars => BookedIsMarked'
  <2> SUFFICES ASSUME TakeInv, BookedIsMarked, [Next]_vars
               PROVE  BookedIsMarked'
    OBVIOUS
  <2>1. CASE \E r \in Reqs : Start(r) \/ Step(r) \/ Fault(r)
    BY <2>1, StepBookedIsMarked
  <2>2. CASE UNCHANGED vars
    BY <2>2 DEF vars, BookedIsMarked, Owed, At, Held
  <2>3. QED
    BY <2>1, <2>2 DEF Next, Rest
<1>3. QED
  BY <1>1, <1>2, TakeInvariant, PTL DEF Spec

\* What the messages at PostgresService.cs:428 and :576 claim of the two shards
\* is true as long as nobody deletes and nothing fails: once every request is
\* answered, a booked spot is marked occupied.  Run shards_diverge shows that
\* one deletion is enough to break it.
THEOREM AtRestShardsAgree ==
  ASSUME Taking, ~Faults
  PROVE  Spec => []AtRestBookedIsOccupied
<1>1. TakeInv /\ BookedIsMarked => AtRestBookedIsOccupied
  <2> SUFFICES ASSUME TakeInv, BookedIsMarked, AtRest, NEW s \in Inventory, Held(s)
               PROVE  status[s] = "occupied"
    BY DEF AtRestBookedIsOccupied
  <2>1. ~Owed(s)
    BY DEF AtRest, Owed, At
  <2>2. status[s] \in Statuses
    BY DEF TakeInv, WarmInv, IInv, ShardsOK
  <2>3. QED
    BY <2>1, <2>2 DEF BookedIsMarked, Statuses
<1>2. QED
  BY <1>1, TakeInvariant, BookedSpotsAreMarked, PTL

-----------------------------------------------------------------------------
(* Without faults, the bulk booking accounts for every spot of its scan:   *)
(* it is still to come, being booked, or held.                             *)

Pending(q) ==
    q.todo \cup (IF q.pc \in {"ensure", "recheck", "insert"} THEN {q.spot} ELSE {})

CoverInv ==
    \A r \in Reqs :
        /\ At(r, "new") => req[r] = NewRequest
        /\ ~At(r, "done") => req[r].reply = "none"
        /\ req[r].op = "bookall" /\ ~At(r, "new") /\ ~At(r, "scan")
             => \A s \in req[r].scanned : s \in Pending(req[r]) \/ Held(s)
        /\ At(r, "scan") => req[r].scanned = {}
        /\ req[r].op = "bookall" /\ (At(r, "invalidate") \/ At(r, "done"))
             => req[r].todo = {}

\* A step that writes nothing and leaves the lists alone.
LEMMA CoverMoves ==
  ASSUME Taking, TakeInv, CoverInv, NEW r \in Reqs, Start(r) \/ Step(r) \/ Fault(r),
         ~At(r, "new"), ~At(r, "scan"),
         req'[r].op = req[r].op, req'[r].pc \notin {"new", "scan"},
         req'[r].scanned = req[r].scanned,
         req'[r].pc # "done" => req'[r].reply = "none",
         req[r].op = "bookall" =>
             /\ \A s \in Pending(req[r]) :
                   \/ s \in Pending(req'[r])
                   \/ \E i \in DOMAIN bookings' :
                         bookings'[i].spot = s /\ bookings'[i].active
             /\ req'[r].pc \in {"invalidate", "done"} => req'[r].todo = {}
  PROVE  CoverInv'
<1>1. \A p \in Reqs \ {r} : req'[p] = req[p]
  BY OthersStand DEF TakeInv, WarmInv
<1>2. \A s : Held(s) => Held(s)'
  BY HeldGrows DEF Held
<1>3. ASSUME NEW s, \E i \in DOMAIN bookings' :
                      bookings'[i].spot = s /\ bookings'[i].active
      PROVE  Held(s)'
  BY <1>3 DEF Held
<1>4. \A s \in req'[r].scanned :
         req[r].op = "bookall" => s \in Pending(req'[r]) \/ Held(s)'
  BY <1>2, <1>3 DEF CoverInv, At
<1> HIDE DEF Pending
<1>5. ASSUME NEW p \in Reqs
      PROVE  /\ req'[p].pc = "new" => req'[p] = NewRequest
             /\ req'[p].pc # "done" => req'[p].reply = "none"
             /\ req'[p].op = "bookall" /\ req'[p].pc # "new" /\ req'[p].pc # "scan"
                  => \A s \in req'[p].scanned : s \in Pending(req'[p]) \/ Held(s)'
             /\ req'[p].pc = "scan" => req'[p].scanned = {}
             /\ req'[p].op = "bookall" /\ req'[p].pc \in {"invalidate", "done"}
                  => req'[p].todo = {}
  <2>1. CASE p = r
    BY <1>4, <2>1
  <2>2. CASE p # r
    BY <1>1, <1>2, <2>2 DEF CoverInv, At
  <2>3. QED
    BY <2>1, <2>2
<1>6. QED
  BY <1>5 DEF CoverInv, At, Pending

LEMMA StepCover ==
  ASSUME Taking, ~Faults, TakeInv, CoverInv,
         NEW r \in Reqs, Start(r) \/ Step(r) \/ Fault(r)
  PROVE  CoverInv'
<1>0. /\ req \in [Reqs -> Request] /\ req[r] \in Request /\ ProgramOrder(req[r])
      /\ \A p \in Reqs \ {r} : req'[p] = req[p]
      /\ \A s : Held(s) => Held(s)'
  BY OthersStand, HeldGrows DEF TakeInv, WarmInv, IInv, ReqsOK, OrderlyRequest, Held
<1>1. ASSUME NEW q, Become(r, q)
      PROVE  req'[r] = q
  BY <1>0, <1>1 DEF Become
<1> DEFINE New(q) == /\ q.pc # "new"
                     /\ q.pc # "done" => q.reply = "none"
                     /\ q.op = "bookall" /\ q.pc # "scan"
                          => \A s \in q.scanned : s \in Pending(q) \/ Held(s)'
                     /\ q.pc = "scan" => q.scanned = {}
                     /\ q.op = "bookall" /\ q.pc \in {"invalidate", "done"}
                          => q.todo = {}
<1>2. ASSUME New(req'[r])
      PROVE  CoverInv'
  BY <1>0, <1>2 DEF CoverInv, At, Pending
<1>3. CASE At(r, "new")
  <2>1. req[r] = NewRequest
    BY <1>3 DEF CoverInv
  <2>2. CASE StartBook(r)
    <3>1. PICK s \in Spots, v \in Vehicles :
            req'[r] = [req[r] EXCEPT !.op = "book", !.pc = "ensure", !.spot = s,
                                     !.vehicle = v]
      BY <1>1, <2>2 DEF StartBook
    <3>2. New(req'[r])
      BY <2>1, <3>1 DEF NewRequest
    <3>3. QED
      BY <1>2, <3>2
  <2>3. CASE StartBookAll(r)
    <3>1. PICK v \in Vehicles, scope \in Lots \cup {Inventory} :
            req'[r] = [req[r] EXCEPT !.op = "bookall", !.pc = "scan", !.vehicle = v,
                                     !.todo = scope]
      BY <1>1, <2>3 DEF StartBookAll
    <3>2. New(req'[r])
      BY <2>1, <3>1 DEF NewRequest
    <3>3. QED
      BY <1>2, <3>2
  <2>4. CASE Reject(r)
    <3>1. PICK op \in Ops :
            req'[r] = [req[r] EXCEPT !.op = op, !.pc = "done", !.reply = "badrequest"]
      BY <1>1, <2>4 DEF Reject
    <3>2. New(req'[r])
      BY <2>1, <3>1 DEF NewRequest
    <3>3. QED
      BY <1>2, <3>2
  <2>5. QED
    BY <1>3, <2>2, <2>3, <2>4, TakingSteps
    DEF At, EnsureCheck, ControllerCheck, ServiceCheck, InsertRow, InsertFails, Mark,
        Invalidate, Scan, LoopNext, LoopEnd, Fault
<1>4. CASE At(r, "scan")
  <2>1. Scan(r)
    BY <1>4, TakingSteps
    DEF At, StartBook, StartBookAll, Reject, EnsureCheck, ControllerCheck, ServiceCheck,
        InsertRow, InsertFails, Mark, Invalidate, LoopNext, LoopEnd, Fault
  <2> DEFINE free == {s \in req[r].todo \cap Inventory : status[s] = "available"}
             q == [req[r] EXCEPT !.pc = "next", !.todo = free, !.scanned = free]
  <2>2. Become(r, q)
    BY <2>1 DEF Scan
  <2>3. /\ q.pc = "next" /\ q.todo = free /\ q.scanned = free
        /\ q.reply = req[r].reply
    BY <1>0 DEF Request
  <2>4. q.reply = "none"
    BY <1>4, <2>3 DEF CoverInv, At
  <2> HIDE DEF q
  <2>5. New(q)
    BY <2>3, <2>4 DEF Pending
  <2>6. QED
    BY <1>1, <1>2, <2>2, <2>5
<1>5. CASE ~At(r, "new") /\ ~At(r, "scan")
  <2>0. ASSUME NEW st, Goto(r, st)
        PROVE  req'[r] = [req[r] EXCEPT !.pc = st]
    BY <1>1, <2>0 DEF Goto
  <2> DEFINE Kept == /\ req'[r].op = req[r].op /\ req'[r].pc \notin {"new", "scan"}
                     /\ req'[r].scanned = req[r].scanned
                     /\ req'[r].pc # "done" => req'[r].reply = "none"
             Handed == \A s \in Pending(req[r]) :
                          \/ s \in Pending(req'[r])
                          \/ \E i \in DOMAIN bookings' :
                                bookings'[i].spot = s /\ bookings'[i].active
             Emptied == req'[r].pc \in {"invalidate", "done"} => req'[r].todo = {}
  <2> req[r].pc # "done" => req[r].reply = "none"
    BY DEF CoverInv, At
  <2>1. SUFFICES Kept /\ (req[r].op = "bookall" => Handed /\ Emptied)
    BY <1>5, <2>1, CoverMoves
  <2>2. CASE EnsureCheck(r)
    <3>1. req'[r] = [req[r] EXCEPT !.pc = AfterEnsure(req[r].op)]
      BY <2>0, <2>2 DEF EnsureCheck, TakeInv, WarmInv, NobodyCreates
    <3>2. /\ AfterEnsure(req[r].op) \in {"check", "recheck", "find"}
          /\ req[r].op = "bookall" => AfterEnsure(req[r].op) = "recheck"
      BY DEF AfterEnsure
    <3>3. QED
      BY <1>0, <2>2, <3>1, <3>2 DEF EnsureCheck, At, Request, Pending
  <2>3. CASE ControllerCheck(r)
    <3>1. req[r].op = "book"
      BY <1>0, <2>3 DEF ControllerCheck, At, ProgramOrder
    <3>2. Kept
      <4>1. CASE Held(req[r].spot)
        <5>1. req'[r] = [req[r] EXCEPT !.pc = "done", !.reply = "conflict"]
          BY <1>1, <2>3, <4>1 DEF ControllerCheck, Answer
        <5>2. QED
          BY <1>0, <5>1 DEF Request
      <4>2. CASE ~Held(req[r].spot)
        <5>1. req'[r] = [req[r] EXCEPT !.pc = "recheck"] /\ req[r].pc = "check"
          BY <2>0, <2>3, <4>2 DEF ControllerCheck, At
        <5>2. QED
          BY <1>0, <5>1 DEF Request
      <4>3. QED
        BY <4>1, <4>2
    <3>3. QED
      BY <3>1, <3>2
  <2>4. ASSUME Throw(r), Held(req[r].spot), At(r, "recheck") \/ At(r, "insert")
        PROVE  Kept /\ (req[r].op = "bookall" => Handed /\ Emptied)
    <3>1. CASE req[r].op = "bookall"
      <4>1. req'[r] = [req[r] EXCEPT !.pc = "next"]
        BY <2>0, <2>4, <3>1 DEF Throw, InLoop, At
      <4>2. \E i \in DOMAIN bookings' :
               bookings'[i].spot = req[r].spot /\ bookings'[i].active
        BY <2>4, HeldGrows
      <4>3. Kept /\ Emptied
        BY <1>0, <2>4, <4>1 DEF Request, At
      <4>4. req'[r].todo = req[r].todo
        BY <1>0, <4>1 DEF Request
      <4>5. Handed
        BY <2>4, <4>2, <4>4 DEF Pending, At
      <4>6. QED
        BY <4>3, <4>5
    <3>2. CASE req[r].op # "bookall"
      BY <1>0, <1>1, <2>4, <3>2 DEF Throw, InLoop, Answer, Request
    <3>3. QED
      BY <3>1, <3>2
  <2>5. CASE ServiceCheck(r)
    <3>1. CASE Held(req[r].spot)
      BY <2>4, <2>5, <3>1 DEF ServiceCheck
    <3>2. CASE ~Held(req[r].spot)
      <4>1. req'[r] = [req[r] EXCEPT !.pc = "insert"] /\ req[r].pc = "recheck"
        BY <2>0, <2>5, <3>2 DEF ServiceCheck, At
      <4>2. QED
        BY <1>0, <4>1 DEF Request, Pending
    <3>3. QED
      BY <3>1, <3>2
  <2>6. CASE InsertRow(r)
    <3>1. \E i \in DOMAIN bookings' :
             bookings'[i].spot = req[r].spot /\ bookings'[i].active
      BY <2>6, InsertTakes DEF Held
    <3>2. /\ req'[r].op = req[r].op /\ req'[r].scanned = req[r].scanned
          /\ req'[r].todo = req[r].todo /\ req'[r].pc = "mark"
          /\ req'[r].reply = req[r].reply /\ req[r].pc # "done"
      BY <1>0, <1>1, <2>6 DEF InsertRow, At, Request
    <3>3. QED
      BY <3>1, <3>2 DEF Pending
  <2>7. CASE InsertFails(r)
    BY <2>4, <2>7 DEF InsertFails, IndexAllows
  <2>8. CASE Mark(r)
    <3>1. /\ req'[r].op = req[r].op /\ req'[r].scanned = req[r].scanned
          /\ req'[r].todo = req[r].todo /\ req'[r].pc = AfterMark(req[r].op)
          /\ req'[r].reply = req[r].reply /\ req[r].pc # "done"
      BY <1>0, <1>1, <2>8 DEF Mark, At, Request
    <3>2. QED
      BY <2>8, <3>1 DEF Mark, At, AfterMark, Pending
  <2>9. CASE Invalidate(r)
    <3>1. req'[r] = [req[r] EXCEPT !.pc = "done", !.reply = "ok"]
      BY <1>1, <2>9 DEF Invalidate, Answer
    <3>2. req[r].op = "bookall" => req[r].todo = {}
      BY <2>9 DEF Invalidate, CoverInv
    <3>3. QED
      BY <1>0, <2>9, <3>1, <3>2 DEF Invalidate, At, Request, Pending
  <2>10. CASE LoopNext(r)
    <3>1. req[r].op = "bookall"
      BY <1>0, <2>10 DEF LoopNext, At, ProgramOrder, TakeInv, OnlyTaking
    <3>2. PICK s \in req[r].todo :
            req'[r] = [req[r] EXCEPT !.pc = "ensure", !.spot = s, !.todo = @ \ {s}]
      BY <1>1, <2>10, <3>1 DEF LoopNext, LoopStep, Remaining
    <3>3. QED
      BY <1>0, <2>10, <3>2 DEF LoopNext, At, Request, Pending
  <2>11. CASE LoopEnd(r)
    <3>1. req'[r] = [req[r] EXCEPT !.pc = "invalidate"]
      BY <2>0, <2>11 DEF LoopEnd
    <3>2. QED
      BY <1>0, <2>11, <3>1 DEF LoopEnd, At, Request, Pending
  <2>12. QED
    BY <1>5, <2>2, <2>3, <2>5, <2>6, <2>7, <2>8, <2>9, <2>10, <2>11, TakingSteps
    DEF StartBook, StartBookAll, Reject, Scan, Fault
<1>6. QED
  BY <1>3, <1>4, <1>5

LEMMA CoverInvariant ==
  ASSUME Taking, ~Faults
  PROVE  Spec => []CoverInv
<1>1. Init => CoverInv
  BY DEF Init, CoverInv, At, NewRequest
<1>2. TakeInv /\ CoverInv /\ [Next]_vars => CoverInv'
  <2> SUFFICES ASSUME TakeInv, CoverInv, [Next]_vars
               PROVE  CoverInv'
    OBVIOUS
  <2>1. CASE \E r \in Reqs : Start(r) \/ Step(r) \/ Fault(r)
    BY <2>1, StepCover
  <2>2. CASE UNCHANGED vars
    BY <2>2 DEF vars, CoverInv, At, Held, Pending
  <2>3. QED
    BY <2>1, <2>2 DEF Next, Rest
<1>3. QED
  BY <1>1, <1>2, TakeInvariant, PTL DEF Spec

\* A bulk booking answered 200 leaves no spot of its scan unbooked, whichever
\* of them other requests took first, for any number of requests and spots.
THEOREM BulkBookingCovers ==
  ASSUME Taking, ~Faults
  PROVE  Spec => []BookAllCovers
<1>1. TakeInv /\ CoverInv => BookAllCovers
  <2> SUFFICES ASSUME TakeInv, CoverInv, NEW r \in Reqs, Answered(r, "bookall"),
                      NEW s \in req[r].scanned
               PROVE  Held(s)
    BY DEF BookAllCovers
  <2>1. At(r, "done") /\ ~At(r, "new") /\ ~At(r, "scan") /\ req[r].op = "bookall"
    BY DEF CoverInv, Answered, At
  <2>2. req[r].todo = {} /\ (s \in Pending(req[r]) \/ Held(s))
    BY <2>1 DEF CoverInv
  <2>3. QED
    BY <2>1, <2>2 DEF Pending, At
<1>2. QED
  BY <1>1, CoverInvariant, TakeInvariant, PTL

-----------------------------------------------------------------------------
(* Without faults, every row is somebody's.  The bookedCounts are added up *)
(* by a fold, whose value needs an induction over the set of requests: a   *)
(* set that holds a set with one element more whenever it holds a set      *)
(* holds them all.                                                         *)

LEMMA SubsetInduction ==
  ASSUME NEW S, IsFiniteSet(S), NEW G, {} \in G,
         \A U \in SUBSET S : U # {} => \E x \in U : U \ {x} \in G => U \in G
  PROVE  S \in G
<1> SUFFICES ASSUME S \notin G PROVE FALSE
  OBVIOUS
<1> DEFINE Bad == {U \in SUBSET S : U \notin G}
<1>1. /\ IsWellFoundedOn(StrictSubsetOrdering(S), FiniteSubsetsOf(S))
      /\ FiniteSubsetsOf(S) = SUBSET S
  BY FS_StrictSubsetOrderingWellFounded, FS_FiniteSubsetsOfFinite
<1>2. Bad \subseteq FiniteSubsetsOf(S) /\ Bad # {}
  BY <1>1
<1>3. PICK U \in Bad : \A V \in Bad : <<V, U>> \notin StrictSubsetOrdering(S)
  <2> HIDE DEF Bad
  <2> QED BY <1>1, <1>2, WFMin
<1>4. U \in SUBSET S /\ U \notin G
  OBVIOUS
<1>5. PICK x \in U : U \ {x} \in G => U \in G
  <2>1. U # {}
    <3> SUFFICES ASSUME U = {} PROVE FALSE
      OBVIOUS
    <3> HIDE DEF Bad
    <3> QED BY <1>4
  <2> QED BY <1>4, <2>1
<1>6. U \ {x} \in Bad
  BY <1>4, <1>5
<1>7. <<U \ {x}, U>> \in StrictSubsetOrdering(S)
  BY <1>4 DEF StrictSubsetOrdering
<1> QED BY <1>3, <1>6, <1>7

Total(q) == MapThenSumSet(LAMBDA r : q[r].count, Reqs)

\* The recursion that Total stands for, of any function there may be ...
IsSum(f, q) ==
    f = [s \in SUBSET Reqs |->
            IF s = {} THEN 0
            ELSE q[CHOOSE x \in s : TRUE].count + f[s \ {CHOOSE x \in s : TRUE}]]

LEMMA TotalIsSum == ASSUME NEW q, NEW f, IsSum(f,q) PROVE \E g : IsSum(g,q) /\ Total(q) = g[Reqs]
<1> DEFINE g == CHOOSE h : IsSum(h, q)
<1>1. IsSum(g, q)
  OBVIOUS
<1>2. Total(q) = g[Reqs]
  BY DEF Total, MapThenSumSet, MapThenFoldSet, IsSum
<1> HIDE DEF g
<1> QED BY <1>1, <1>2

\* ... and one that exists: the number of marks, as many for a request as it
\* has counted bookings.
Tally(q, s) == {c \in s \X Nat : c[2] \in 1..q[c[1]].count}

LEMMA TallySplit ==
  ASSUME NEW q \in [Reqs -> Request], NEW s \in SUBSET Reqs, NEW x \in s,
         IsFiniteSet(Tally(q, s \ {x}))
  PROVE  /\ IsFiniteSet(Tally(q, s))
         /\ Cardinality(Tally(q, s)) = q[x].count + Cardinality(Tally(q, s \ {x}))
<1> DEFINE A == Tally(q, s \ {x})
           B == {x} \X (1..q[x].count)
<1>1. q[x].count \in Nat
  BY DEF Request
<1>2. Tally(q, s) = B \cup A /\ A \cap B = {}
  <2>1. ASSUME NEW c \in s \X Nat
        PROVE  c \in Tally(q, s) <=> c \in B \/ c \in A
    <3>1. c = <<c[1], c[2]>> /\ c[1] \in s /\ c[2] \in Nat
      OBVIOUS
    <3>2. c \in B <=> c[1] = x /\ c[2] \in 1..q[x].count
      BY <3>1
    <3>3. c \in A <=> c[1] # x /\ c[2] \in 1..q[c[1]].count
      BY <3>1 DEF Tally
    <3> QED BY <3>2, <3>3 DEF Tally
  <2>2. A \subseteq s \X Nat /\ B \subseteq s \X Nat
    BY <1>1 DEF Tally
  <2>3. \A c \in A : c \notin B
    BY DEF Tally
  <2>4. Tally(q, s) \subseteq s \X Nat
    BY DEF Tally
  <2> HIDE DEF A, B
  <2> QED BY <2>1, <2>2, <2>3, <2>4
<1>3. /\ IsFiniteSet(1..q[x].count) /\ Cardinality(1..q[x].count) = q[x].count
      /\ IsFiniteSet({x}) /\ Cardinality({x}) = 1
  <2>1. /\ IsFiniteSet(1..q[x].count)
        /\ Cardinality(1..q[x].count) = IF 1 > q[x].count THEN 0 ELSE q[x].count - 1 + 1
    BY <1>1, FS_Interval
  <2>2. Cardinality(1..q[x].count) = q[x].count
    BY <1>1, <2>1
  <2> QED BY <2>1, <2>2, FS_Singleton
<1>4. IsFiniteSet(B) /\ Cardinality(B) = q[x].count
  <2>1. /\ IsFiniteSet(B)
        /\ Cardinality(B) = Cardinality({x}) * Cardinality(1..q[x].count)
    BY <1>3, FS_Product
  <2>2. Cardinality(B) = 1 * q[x].count
    BY <1>3, <2>1
  <2> HIDE DEF B
  <2> QED BY <1>1, <2>1, <2>2
<1> HIDE DEF A, B
<1>5. IsFiniteSet(A) /\ Cardinality(A) \in Nat
  BY FS_CardinalityType DEF A
<1>6. /\ IsFiniteSet(B \cup A)
      /\ Cardinality(B \cup A) = Cardinality(B) + Cardinality(A) - Cardinality(B \cap A)
  BY <1>4, <1>5, FS_Union
<1>7. Cardinality(B \cap A) = 0
  BY <1>2, FS_EmptySet
<1> QED BY <1>1, <1>2, <1>4, <1>5, <1>6, <1>7 DEF A

LEMMA TallyFinite ==
  ASSUME NEW q \in [Reqs -> Request], IsFiniteSet(Reqs), NEW s \in SUBSET Reqs
  PROVE  IsFiniteSet(Tally(q, s))
<1> DEFINE G == {U \in SUBSET Reqs : IsFiniteSet(Tally(q, U))}
<1>1. {} \in G
  <2>1. Tally(q, {}) = {}
    BY DEF Tally
  <2> QED BY <2>1, FS_EmptySet
<1>2. ASSUME NEW U \in SUBSET s, U # {}
      PROVE  \E x \in U : U \ {x} \in G => U \in G
  <2>1. PICK x \in U : TRUE
    BY <1>2
  <2>2. U \ {x} \in G => IsFiniteSet(Tally(q, U))
    BY TallySplit
  <2> QED BY <2>2
<1>3. IsFiniteSet(s)
  BY FS_Subset
<1> HIDE DEF G
<1>4. s \in G
  BY <1>1, <1>2, <1>3, SubsetInduction
<1> QED BY <1>4 DEF G

LEMMA TallySums ==
  ASSUME NEW q \in [Reqs -> Request], IsFiniteSet(Reqs)
  PROVE  IsSum([s \in SUBSET Reqs |-> Cardinality(Tally(q, s))], q)
<1> DEFINE Pick(s) == CHOOSE x \in s : TRUE
           f == [s \in SUBSET Reqs |-> Cardinality(Tally(q, s))]
<1>1. ASSUME NEW s \in SUBSET Reqs
      PROVE  f[s] = IF s = {} THEN 0 ELSE q[Pick(s)].count + f[s \ {Pick(s)}]
  <2>1. CASE s = {}
    <3>1. Tally(q, {}) = {}
      BY DEF Tally
    <3> QED BY <2>1, <3>1, FS_EmptySet
  <2>2. CASE s # {}
    <3>1. Pick(s) \in s
      BY <2>2
    <3> HIDE DEF Pick
    <3>2. s \ {Pick(s)} \in SUBSET Reqs
      OBVIOUS
    <3>3. Cardinality(Tally(q, s)) = q[Pick(s)].count + Cardinality(Tally(q, s \ {Pick(s)}))
      BY <3>1, <3>2, TallyFinite, TallySplit
    <3> QED BY <2>2, <3>2, <3>3
  <2> QED BY <2>1, <2>2
<1>2. f = [s \in SUBSET Reqs |->
             IF s = {} THEN 0 ELSE q[Pick(s)].count + f[s \ {Pick(s)}]]
  <2> HIDE DEF Pick
  <2>1. f = [s \in SUBSET Reqs |-> f[s]]
    OBVIOUS
  <2> HIDE DEF f
  <2> QED BY <1>1, <2>1
<1> QED BY <1>2 DEF IsSum

LEMMA TotalIsTally ==
  ASSUME NEW q \in [Reqs -> Request], IsFiniteSet(Reqs)
  PROVE  Total(q) = Cardinality(Tally(q, Reqs))
<1> DEFINE f == [s \in SUBSET Reqs |-> Cardinality(Tally(q, s))]
<1>1. IsSum(f, q)
  BY TallySums
<1> HIDE DEF f
<1>2. PICK g : IsSum(g, q) /\ Total(q) = g[Reqs]
  BY <1>1, TotalIsSum
<1> DEFINE G == {s \in SUBSET Reqs : g[s] = f[s]}
<1>3. {} \in G
  BY <1>1, <1>2 DEF IsSum
<1>4. ASSUME NEW U \in SUBSET Reqs, U # {}
      PROVE  \E x \in U : U \ {x} \in G => U \in G
  <2> DEFINE x == CHOOSE x \in U : TRUE
  <2>1. x \in U
    BY <1>4
  <2>2. g[U] = q[x].count + g[U \ {x}]
    BY <1>2, <1>4 DEF IsSum
  <2>3. f[U] = q[x].count + f[U \ {x}]
    BY <1>1, <1>4 DEF IsSum
  <2> HIDE DEF x
  <2> QED BY <2>1, <2>2, <2>3
<1> HIDE DEF G
<1>5. Reqs \in G
  BY <1>3, <1>4, SubsetInduction
<1>6. g[Reqs] = f[Reqs]
  BY <1>5 DEF G
<1> QED BY <1>2, <1>6 DEF f

\* What the steps do to the total.
LEMMA TotalKept ==
  ASSUME IsFiniteSet(Reqs), NEW q \in [Reqs -> Request], NEW p \in [Reqs -> Request],
         \A r \in Reqs : p[r].count = q[r].count
  PROVE  Total(p) = Total(q)
<1>1. Tally(p, Reqs) = Tally(q, Reqs)
  BY DEF Tally
<1> QED BY <1>1, TotalIsTally

LEMMA TotalGrows ==
  ASSUME IsFiniteSet(Reqs), NEW q \in [Reqs -> Request], NEW p \in [Reqs -> Request],
         NEW r \in Reqs, p[r].count = q[r].count + 1,
         \A t \in Reqs \ {r} : p[t].count = q[t].count
  PROVE  Total(p) = Total(q) + 1
<1> DEFINE c == <<r, p[r].count>>
<1>1. p[r].count \in Nat /\ q[r].count \in Nat
  BY DEF Request
<1>2. c \notin Tally(q, Reqs)
  BY <1>1 DEF Tally
<1>3. Tally(p, Reqs) = Tally(q, Reqs) \cup {c}
  <2>1. ASSUME NEW t \in Reqs, NEW n \in Nat
        PROVE  n \in 1..p[t].count <=> n \in 1..q[t].count \/ (t = r /\ n = p[r].count)
    <3>1. p[t].count \in Nat /\ q[t].count \in Nat
      BY DEF Request
    <3>2. CASE t = r
      BY <1>1, <3>2
    <3>3. CASE t # r
      BY <3>3
    <3> QED BY <3>2, <3>3
  <2>2. ASSUME NEW d \in Reqs \X Nat
        PROVE  d \in Tally(p, Reqs) <=> d \in Tally(q, Reqs) \/ d = c
    <3>1. d = <<d[1], d[2]>> /\ d[1] \in Reqs /\ d[2] \in Nat
      OBVIOUS
    <3>2. d = c <=> d[1] = r /\ d[2] = p[r].count
      BY <3>1
    <3> QED BY <2>1, <3>1, <3>2 DEF Tally
  <2>3. c \in Reqs \X Nat
    BY <1>1
  <2> HIDE DEF c
  <2> QED BY <2>2, <2>3 DEF Tally
<1>4. IsFiniteSet(Tally(q, Reqs))
  BY TallyFinite
<1> HIDE DEF c
<1>5. Cardinality(Tally(p, Reqs)) = Cardinality(Tally(q, Reqs)) + 1
  BY <1>2, <1>3, <1>4, FS_AddElement
<1> QED BY <1>5, TotalIsTally

LEMMA TotalOfNone ==
  ASSUME IsFiniteSet(Reqs), NEW q \in [Reqs -> Request],
         \A r \in Reqs : q[r].count = 0
  PROVE  Total(q) = 0
<1>1. Tally(q, Reqs) = {}
  BY DEF Tally
<1> QED BY <1>1, TotalIsTally, FS_EmptySet

LEMMA TotalIsNat ==
  ASSUME IsFiniteSet(Reqs), NEW q \in [Reqs -> Request]
  PROVE  Total(q) \in Nat
BY TotalIsTally, TallyFinite, FS_CardinalityType

\* A row has an owner: the request between its INSERT and its bookedCount, or
\* the client of POST book from the INSERT on.
Owns(q) ==
    \/ q.pc = "mark"
    \/ q.op = "book" /\ q.pc = "invalidate"
    \/ q.op = "book" /\ q.reply = "ok"

Owners == {r \in Reqs : Owns(req[r])}

\* Only INSERTs and status writes change what is owned or counted.
LEMMA StepOwns ==
  ASSUME Taking, ~Faults, TakeInv, CoverInv,
         NEW r \in Reqs, Start(r) \/ Step(r) \/ Fault(r), ~InsertRow(r), ~Mark(r)
  PROVE  req'[r].count = req[r].count /\ (Owns(req'[r]) <=> Owns(req[r]))
<1> DEFINE Kept == req'[r].count = req[r].count /\ (Owns(req'[r]) <=> Owns(req[r]))
<1>0. /\ req \in [Reqs -> Request] /\ req[r] \in Request /\ ProgramOrder(req[r])
      /\ req[r].op \in {"none", "book", "bookall"}
      /\ req[r].pc = "new" => req[r] = NewRequest
      /\ req[r].pc # "done" => req[r].reply = "none"
  BY DEF TakeInv, WarmInv, IInv, ReqsOK, OrderlyRequest, OnlyTaking, CoverInv, At
<1>1. ASSUME NEW q, Become(r, q)
      PROVE  req'[r] = q
  BY <1>0, <1>1 DEF Become
<1>2. ASSUME NEW st, Goto(r, st), st \notin {"mark", "invalidate"},
             req[r].pc \notin {"mark", "invalidate", "done"}
      PROVE  Kept
  <2>1. req'[r] = [req[r] EXCEPT !.pc = st]
    BY <1>1, <1>2 DEF Goto
  <2> QED BY <1>0, <1>2, <2>1 DEF Owns, Request
<1>3. ASSUME NEW reply, Answer(r, reply), reply # "ok",
             req[r].pc \notin {"mark", "invalidate", "done"}
      PROVE  Kept
  <2>1. req'[r] = [req[r] EXCEPT !.pc = "done", !.reply = reply]
    BY <1>1, <1>3 DEF Answer
  <2> QED BY <1>0, <1>3, <2>1 DEF Owns, Request
<1>4. CASE StartBook(r) \/ StartBookAll(r) \/ Reject(r)
  <2>1. req[r] = NewRequest
    BY <1>0, <1>4 DEF StartBook, StartBookAll, Reject, At
  <2>2. CASE StartBook(r)
    <3>1. PICK s \in Spots, v \in Vehicles :
             req'[r] = [NewRequest EXCEPT !.op = "book", !.pc = "ensure",
                                          !.spot = s, !.vehicle = v]
      BY <1>1, <2>1, <2>2 DEF StartBook
    <3> QED BY <2>1, <3>1 DEF NewRequest, Owns
  <2>3. CASE StartBookAll(r)
    <3>1. PICK v \in Vehicles, scope \in Lots \cup {Inventory} :
             req'[r] = [NewRequest EXCEPT !.op = "bookall", !.pc = "scan",
                                          !.vehicle = v, !.todo = scope]
      BY <1>1, <2>1, <2>3 DEF StartBookAll
    <3> QED BY <2>1, <3>1 DEF NewRequest, Owns
  <2>4. CASE Reject(r)
    <3>1. PICK op \in Ops :
             req'[r] = [NewRequest EXCEPT !.op = op, !.pc = "done",
                                          !.reply = "badrequest"]
      BY <1>1, <2>1, <2>4 DEF Reject
    <3> QED BY <2>1, <3>1 DEF NewRequest, Owns
  <2> QED BY <1>4, <2>2, <2>3, <2>4
<1>5. CASE EnsureCheck(r)
  <2>1. Goto(r, AfterEnsure(req[r].op))
    BY <1>5 DEF EnsureCheck, TakeInv, WarmInv, NobodyCreates
  <2>2. AfterEnsure(req[r].op) \in {"check", "recheck", "find"}
    BY DEF AfterEnsure
  <2> QED BY <1>2, <1>5, <2>1, <2>2 DEF EnsureCheck, At
<1>6. CASE ControllerCheck(r) \/ ServiceCheck(r) \/ InsertFails(r)
  BY <1>2, <1>3, <1>6 DEF ControllerCheck, ServiceCheck, InsertFails, Throw, At
<1>7. CASE Invalidate(r)
  <2>1. req'[r] = [req[r] EXCEPT !.pc = "done", !.reply = "ok"] /\ req[r].pc = "invalidate"
    BY <1>1, <1>7 DEF Invalidate, Answer, At
  <2> QED BY <1>0, <2>1 DEF Owns, Request
<1>8. CASE Scan(r)
  <2> DEFINE free == {s \in req[r].todo \cap Inventory : status[s] = "available"}
  <2>1. /\ req'[r] = [req[r] EXCEPT !.pc = "next", !.todo = free, !.scanned = free]
        /\ req[r].pc = "scan"
    BY <1>1, <1>8 DEF Scan, At
  <2> HIDE DEF free
  <2> QED BY <1>0, <2>1 DEF Owns, Request
<1>9. CASE LoopNext(r)
  <2>1. req[r].pc = "next" /\ req[r].op = "bookall"
    BY <1>0, <1>9 DEF LoopNext, At, ProgramOrder
  <2>2. PICK s \in req[r].todo :
          req'[r] = [req[r] EXCEPT !.pc = "ensure", !.spot = s, !.todo = @ \ {s}]
    BY <1>1, <1>9, <2>1 DEF LoopNext, LoopStep, Remaining
  <2> QED BY <1>0, <2>1, <2>2 DEF Owns, Request
<1>10. CASE LoopEnd(r)
  <2>1. req[r].pc = "next" /\ req[r].op = "bookall"
    BY <1>0, <1>10 DEF LoopEnd, At, ProgramOrder
  <2>2. req'[r] = [req[r] EXCEPT !.pc = "invalidate"]
    BY <1>1, <1>10 DEF LoopEnd, Goto
  <2> QED BY <1>0, <2>1, <2>2 DEF Owns, Request
<1> QED BY <1>4, <1>5, <1>6, <1>7, <1>8, <1>9, <1>10, TakingSteps DEF Fault

AccountInv ==
    /\ IsFiniteSet(DOMAIN bookings)
    /\ Cardinality(DOMAIN bookings) = Cardinality(Owners) + Total(req)
    /\ \A r \in Reqs : At(r, "mark") => req[r].op \in {"book", "bookall"}

LEMMA StepAccount ==
  ASSUME Taking, ~Faults, IsFiniteSet(Reqs), TakeInv, TakeInv', CoverInv, AccountInv,
         NEW r \in Reqs, Start(r) \/ Step(r) \/ Fault(r)
  PROVE  AccountInv'
<1>0. /\ req \in [Reqs -> Request] /\ req' \in [Reqs -> Request]
      /\ req[r] \in Request
      /\ \A p \in Reqs \ {r} : req'[p] = req[p]
      /\ req[r].pc # "done" => req[r].reply = "none"
      /\ req[r].op \in {"none", "book", "bookall"} /\ ProgramOrder(req[r])
  BY OthersStand
  DEF TakeInv, WarmInv, IInv, ReqsOK, OrderlyRequest, OnlyTaking, CoverInv, At
<1>1. /\ IsFiniteSet(Owners) /\ Cardinality(Owners) \in Nat /\ Total(req) \in Nat
      /\ Cardinality(DOMAIN bookings) \in Nat
  BY <1>0, FS_Subset, FS_CardinalityType, TotalIsNat DEF Owners, AccountInv
<1>m. ASSUME NEW t \in Reqs, req'[t].pc = "mark"
      PROVE  req'[t].op \in {"book", "bookall"}
  <2>1. CASE t # r
    BY <1>0, <1>m, <2>1 DEF AccountInv, At
  <2>2. CASE t = r
    <3>1. InsertRow(r)
      BY <1>m, <2>2, TakingReq
    <3> QED BY <1>0, <2>2, <3>1 DEF InsertRow, Become, At, Request, ProgramOrder
  <2> QED BY <2>1, <2>2
<1>2. CASE InsertRow(r)
  <2>1. /\ req[r].pc = "insert" /\ req'[r].pc = "mark" /\ req'[r].count = req[r].count
        /\ req[r].op \in {"book", "bookall"} /\ req[r].reply = "none"
    BY <1>0, <1>2 DEF InsertRow, Become, At, Request, ProgramOrder
  <2>2. Owners' = Owners \cup {r} /\ r \notin Owners
    BY <1>0, <2>1 DEF Owners, Owns
  <2>3. Cardinality(Owners') = Cardinality(Owners) + 1
    BY <1>1, <2>2, FS_AddElement
  <2>4. Total(req') = Total(req)
    <3>1. \A t \in Reqs : req'[t].count = req[t].count
      BY <1>0, <2>1
    <3> QED BY <1>0, <3>1, TotalKept
  <2>5. /\ IsFiniteSet(DOMAIN bookings')
        /\ Cardinality(DOMAIN bookings') = Cardinality(DOMAIN bookings) + 1
    <3>1. DOMAIN bookings' = DOMAIN bookings \cup {nextId}
      BY <1>2 DEF InsertRow
    <3>2. nextId \notin DOMAIN bookings
      BY DEF TakeInv, WarmInv, IInv, ShardsOK, RowsOK
    <3> QED BY <3>1, <3>2, FS_AddElement DEF AccountInv
  <2> QED BY <1>1, <1>m, <2>3, <2>4, <2>5 DEF AccountInv, At
<1>3. CASE Mark(r)
  <2>1. /\ req[r].pc = "mark" /\ bookings' = bookings
        /\ req'[r] = [req[r] EXCEPT !.pc = AfterMark(req[r].op),
                                    !.count = IF req[r].op = "bookall" THEN @ + 1 ELSE @]
    BY <1>0, <1>3 DEF Mark, Become, At
  <2>2. r \in Owners
    BY <2>1 DEF Owners, Owns
  <2>3. CASE req[r].op = "bookall"
    <3>1. req'[r].count = req[r].count + 1 /\ ~Owns(req'[r])
      BY <1>0, <2>1, <2>3 DEF Request, Owns, AfterMark
    <3>2. Total(req') = Total(req) + 1
      BY <1>0, <3>1, TotalGrows
    <3>3. Owners' = Owners \ {r}
      BY <1>0, <3>1 DEF Owners
    <3>4. Cardinality(Owners') = Cardinality(Owners) - 1
      BY <1>1, <2>2, <3>3, FS_RemoveElement
    <3> QED BY <1>1, <1>m, <2>1, <3>2, <3>4 DEF AccountInv, At
  <2>4. CASE req[r].op # "bookall"
    <3>1. req[r].op = "book"
      BY <1>3, <2>4 DEF AccountInv, Mark
    <3>2. req'[r].count = req[r].count /\ Owns(req'[r])
      BY <1>0, <2>1, <3>1 DEF Request, Owns, AfterMark
    <3>3. Total(req') = Total(req)
      <4>1. \A t \in Reqs : req'[t].count = req[t].count
        BY <1>0, <3>2
      <4> QED BY <1>0, <4>1, TotalKept
    <3>4. Owners' = Owners
      BY <1>0, <2>2, <3>2 DEF Owners
    <3> QED BY <1>m, <2>1, <3>3, <3>4 DEF AccountInv, At
  <2> QED BY <2>3, <2>4
<1>4. CASE ~InsertRow(r) /\ ~Mark(r)
  <2>1. req'[r].count = req[r].count /\ (Owns(req'[r]) <=> Owns(req[r]))
    BY <1>4, StepOwns
  <2>2. bookings' = bookings
    BY <1>4, TakingShards
  <2>3. Owners' = Owners
    BY <1>0, <2>1 DEF Owners
  <2>4. Total(req') = Total(req)
    <3>1. \A t \in Reqs : req'[t].count = req[t].count
      BY <1>0, <2>1
    <3> QED BY <1>0, <3>1, TotalKept
  <2> QED BY <1>m, <2>2, <2>3, <2>4 DEF AccountInv, At
<1> QED BY <1>2, <1>3, <1>4

\* The rows' owners, by what has become of them.
LEMMA OwnersSplit ==
  ASSUME IsFiniteSet(Reqs), TakeInv, CoverInv
  PROVE  Cardinality(Owners)
           = Cardinality({r \in Reqs : At(r, "mark")})
             + Cardinality({r \in Reqs : req[r].op = "book" /\ At(r, "invalidate")})
             + Cardinality({r \in Reqs : Answered(r, "book")})
<1> DEFINE A == {r \in Reqs : At(r, "mark")}
           B == {r \in Reqs : req[r].op = "book" /\ At(r, "invalidate")}
           C == {r \in Reqs : Answered(r, "book")}
<1>1. Owners = (A \cup B) \cup C
  BY DEF Owners, Owns, At, Answered
<1>2. A \cap B = {} /\ (A \cup B) \cap C = {}
  BY DEF At, Answered, CoverInv
<1>3. IsFiniteSet(A) /\ IsFiniteSet(B) /\ IsFiniteSet(C)
  BY FS_Subset
<1> HIDE DEF A, B, C
<1>4. ASSUME NEW S, NEW T, IsFiniteSet(S), IsFiniteSet(T), S \cap T = {}
      PROVE  /\ IsFiniteSet(S \cup T)
             /\ Cardinality(S \cup T) = Cardinality(S) + Cardinality(T)
  <2>1. /\ IsFiniteSet(S \cup T)
        /\ Cardinality(S \cup T) = Cardinality(S) + Cardinality(T) - Cardinality(S \cap T)
    BY <1>4, FS_Union
  <2>2. Cardinality(S) \in Nat /\ Cardinality(T) \in Nat /\ Cardinality(S \cap T) = 0
    BY <1>4, FS_CardinalityType, FS_EmptySet
  <2> QED BY <2>1, <2>2
<1>5. /\ Cardinality(A \cup B) = Cardinality(A) + Cardinality(B)
      /\ Cardinality((A \cup B) \cup C) = Cardinality(A \cup B) + Cardinality(C)
  BY <1>2, <1>3, <1>4
<1>6. Cardinality(Owners) = Cardinality(A) + Cardinality(B) + Cardinality(C)
  BY <1>1, <1>5
<1> QED BY <1>6 DEF A, B, C

\* Rows correspond one to one to the bookings answered 200, the bookedCounts
\* and the requests between an INSERT and its answer: no booking is lost, none
\* is counted twice, whatever interleaves, for any finite number of requests
\* (the sum is over them).
THEOREM BookingsAccountedFor ==
  ASSUME Taking, ~Faults, IsFiniteSet(Reqs)
  PROVE  Spec => []BookingsAreAccountedFor
<1>1. Init /\ TakeInv => AccountInv
  <2> SUFFICES ASSUME Init, TakeInv PROVE AccountInv
    OBVIOUS
  <2>1. /\ DOMAIN bookings = {} /\ \A r \in Reqs : req[r] = NewRequest
        /\ req \in [Reqs -> Request]
    <3>1. DOMAIN bookings = {}
      BY DEF Init, NoRows
    <3>2. req \in [Reqs -> Request]
      BY DEF TakeInv, WarmInv, IInv, ReqsOK, OrderlyRequest
    <3> QED BY <3>1, <3>2 DEF Init
  <2>2. Owners = {} /\ \A r \in Reqs : req[r].count = 0 /\ ~At(r, "mark")
    BY <2>1 DEF Owners, Owns, NewRequest, At
  <2>3. Total(req) = 0
    BY <2>1, <2>2, TotalOfNone
  <2> QED BY <2>1, <2>2, <2>3, FS_EmptySet DEF AccountInv
<1>2. TakeInv /\ TakeInv' /\ CoverInv /\ AccountInv /\ [Next]_vars => AccountInv'
  <2> SUFFICES ASSUME TakeInv, TakeInv', CoverInv, AccountInv, [Next]_vars
               PROVE  AccountInv'
    OBVIOUS
  <2>1. CASE \E r \in Reqs : Start(r) \/ Step(r) \/ Fault(r)
    BY <2>1, StepAccount
  <2>2. CASE UNCHANGED vars
    <3>1. bookings' = bookings /\ req' = req
      BY <2>2 DEF vars
    <3> QED BY <3>1 DEF AccountInv, Owners, At
  <2> QED BY <2>1, <2>2 DEF Next, Rest
<1>3. TakeInv /\ CoverInv /\ AccountInv => BookingsAreAccountedFor
  <2> SUFFICES ASSUME TakeInv, CoverInv, AccountInv PROVE BookingsAreAccountedFor
    OBVIOUS
  <2>1. /\ IsFiniteSet(Reqs) /\ Total(req) = MapThenSumSet(LAMBDA r : req[r].count, Reqs)
    BY DEF Total
  <2> QED BY <2>1, OwnersSplit DEF BookingsAreAccountedFor, AccountInv
<1> QED BY <1>1, <1>2, <1>3, CoverInvariant, TakeInvariant, PTL DEF Spec

-----------------------------------------------------------------------------
(* A GET of a spot's details beside them, faults included.                 *)

\* The statuses the shard shows are seeded ones or those of held spots; so are
\* the ones a GET has read, and it then finds the row that explains them.
DetailsInv ==
    /\ seeded \in [Inventory -> Statuses]
    /\ \A s \in Inventory : status[s] = "occupied" => seeded[s] = "occupied" \/ Held(s)
    /\ view \in [Gets -> View]
    /\ \A g \in Gets :
          /\ view[g].at # "over" => view[g].reply = "none"
          /\ view[g].at = "second" =>
                /\ view[g].spot \in Inventory
                /\ view[g].status = "occupied" /\ seeded[view[g].spot] = "available"
                     => Held(view[g].spot)
          /\ view[g].reply = "ok" /\ view[g].status = "occupied"
                /\ seeded[view[g].spot] = "available" => view[g].booked

\* The requests of Booking are not aware of readers.
LEMMA DetailsOfBooking == DetailsSpec => Spec
<1>1. DetailsInit => Init
  BY DEF DetailsInit
<1>2. [DetailsNext]_detailsVars => [Next]_vars
  BY DEF DetailsNext, detailsVars, vars, Get
<1>3. QED
  BY <1>1, <1>2, PTL DEF DetailsSpec, Spec

\* A booking's status write is for a spot whose row is there already.
LEMMA StepStatuses ==
  ASSUME Taking, TakeInv, DetailsInv, UNCHANGED <<view, seeded>>,
         NEW r \in Reqs, Start(r) \/ Step(r) \/ Fault(r)
  PROVE  DetailsInv'
<1>1. ASSUME NEW s, Held(s)
      PROVE  Held(s)'
  BY <1>1, HeldGrows DEF Held
<1>2. ASSUME NEW s \in Inventory, status'[s] = "occupied"
      PROVE  seeded[s] = "occupied" \/ Held(s)
  <2>1. CASE Mark(r)
    <3>1. status'[s] = IF s = req[r].spot THEN req[r].mark ELSE status[s]
      BY <2>1 DEF Mark, Written
    <3>2. Held(req[r].spot)
      BY <2>1 DEF Mark, TakeInv, MarksOccupy
    <3>3. QED
      BY <1>2, <3>1, <3>2 DEF DetailsInv
  <2>2. CASE ~Mark(r)
    BY <1>2, <2>2, TakingShards DEF DetailsInv
  <2>3. QED
    BY <2>1, <2>2
<1>3. QED
  BY <1>1, <1>2 DEF DetailsInv

\* The five latest rows of a held spot include its active one: it is the only
\* row, as none is ever released.
LEMMA HeldIsListed ==
  ASSUME TakeInv, NEW s, Held(s)
  PROVE  \E i \in LatestRows(s) : bookings[i].active
<1>1. PICK i \in DOMAIN bookings : bookings[i].spot = s /\ bookings[i].active
  BY DEF Held
<1>2. NewerRows(i) = {}
  <2>1. DOMAIN bookings \subseteq Nat
    BY DEF TakeInv, WarmInv, IInv, ShardsOK, RowsOK
  <2>2. \A j \in DOMAIN bookings : bookings[j].spot = s => j = i
    BY <1>1 DEF TakeInv, WarmInv, IInv, RowsActive, NoDoubleBooking
  <2>3. QED
    BY <1>1, <2>1, <2>2 DEF NewerRows
<1>3. Cardinality(NewerRows(i)) = 0
  BY <1>2, FS_EmptySet
<1>4. QED
  BY <1>1, <1>3 DEF LatestRows, HistoryLimit

LEMMA GetKeeps ==
  ASSUME TakeInv, DetailsInv, NEW g \in Gets, Get(g)
  PROVE  DetailsInv'
<1>0. /\ view \in [Gets -> View] /\ view[g] \in View
      /\ seeded \in [Inventory -> Statuses] /\ status \in [Inventory -> Statuses]
      /\ seeded' = seeded /\ status' = status /\ bookings' = bookings
  BY DEF DetailsInv, Get, vars, TakeInv, WarmInv, IInv, ShardsOK
<1> DEFINE Fine(v) == /\ v \in View
                      /\ v.at # "over" => v.reply = "none"
                      /\ v.at = "second" =>
                            /\ v.spot \in Inventory
                            /\ v.status = "occupied" /\ seeded[v.spot] = "available"
                                 => Held(v.spot)
                      /\ v.reply = "ok" /\ v.status = "occupied"
                            /\ seeded[v.spot] = "available" => v.booked
<1>1. ASSUME NEW v, Fine(v), view' = [view EXCEPT ![g] = v]
      PROVE  DetailsInv'
  <2>1. \A s : Held(s) <=> Held(s)'
    BY <1>0 DEF Held
  <2>2. /\ view' \in [Gets -> View] /\ view'[g] = v
        /\ \A h \in Gets \ {g} : view'[h] = view[h]
    BY <1>0, <1>1
  <2>3. QED
    BY <1>0, <1>1, <2>1, <2>2 DEF DetailsInv
<1>2. NewView \in View
  BY DEF NewView, View
<1>3. ASSUME NEW reply \in {"notfound", "error"}, Refused(g, reply)
      PROVE  DetailsInv'
  <2> DEFINE v == [NewView EXCEPT !.at = "over", !.reply = reply]
  <2>1. v \in View /\ v.at = "over" /\ v.reply \notin {"none", "ok"}
    BY <1>2, <1>3 DEF View
  <2>2. QED
    BY <1>1, <1>3, <2>1 DEF Refused
<1>4. CASE \E s \in Spots : ReadStatus(g, s)
  <2>1. PICK s \in Spots : ReadStatus(g, s)
    BY <1>4
  <2>2. view[g].at = "first" /\ view[g].reply = "none" /\ s \in Inventory
    BY <1>0, <2>1 DEF ReadStatus, Reads, ReadOrder, DetailsInv, View
  <2> DEFINE q == [view[g] EXCEPT !.spot = s, !.status = status[s]]
             v == [q EXCEPT !.at = "second"]
  <2>3. /\ q \in View /\ q.at = "first" /\ q.reply = "none" /\ q.spot = s
        /\ q.status = status[s]
    BY <1>0, <2>2 DEF View
  <2> HIDE DEF q
  <2>4. /\ view' = [view EXCEPT ![g] = v]
        /\ v \in View /\ v.at = "second" /\ v.reply = "none" /\ v.spot = s
        /\ v.status = status[s]
    <3>1. view' = [view EXCEPT ![g] = v]
      BY <2>1, <2>3 DEF ReadStatus, Seen, q
    <3>2. QED
      BY <2>3, <3>1 DEF View
  <2>5. status[s] = "occupied" /\ seeded[s] = "available" => Held(s)
    BY <2>2 DEF DetailsInv
  <2>6. QED
    BY <1>1, <2>2, <2>4, <2>5
<1>5. CASE \E s \in Spots : ReadHistory(g, s)
  <2>1. PICK s \in Spots : ReadHistory(g, s)
    BY <1>5
  <2>2. view[g].at = "second" /\ view[g].reply = "none" /\ view[g].spot = s
    BY <1>0, <2>1, ConstantsAssumption
    DEF ReadHistory, Reads, ReadOrder, DetailsInv, View
  <2> DEFINE b == \E i \in LatestRows(s) : bookings[i].active
             q == [view[g] EXCEPT !.spot = s, !.booked = b]
             v == [q EXCEPT !.at = "over", !.reply = "ok"]
  <2>3. /\ q \in View /\ q.at = "second" /\ q.spot = s
        /\ q.status = view[g].status /\ q.booked = b
    <3>1. b \in BOOLEAN
      OBVIOUS
    <3> HIDE DEF b
    <3>2. QED
      BY <1>0, <2>2, <3>1 DEF View
  <2> HIDE DEF q
  <2>4. /\ view' = [view EXCEPT ![g] = v]
        /\ v \in View /\ v.at = "over" /\ v.reply = "ok" /\ v.spot = s
        /\ v.status = view[g].status /\ v.booked = b
    <3>1. view' = [view EXCEPT ![g] = v]
      BY <2>1, <2>3 DEF ReadHistory, Seen, q
    <3> HIDE DEF b
    <3>2. QED
      BY <2>3, <3>1 DEF View
  <2>5. view[g].status = "occupied" /\ seeded[s] = "available" => b
    BY <2>2, HeldIsListed DEF DetailsInv
  <2> HIDE DEF b
  <2>6. QED
    BY <1>1, <2>4, <2>5
<1>6. QED
  BY <1>3, <1>4, <1>5 DEF Get, NoSuchSpot, ReadFails

\* Whatever bookings run beside it, a GET that shows a spot as occupied, other
\* than by seeding, shows the booking too: for any number of requests and GETs,
\* exceptions and crashes included.
THEOREM DetailsAreExplained ==
  ASSUME Taking
  PROVE  DetailsSpec => []DetailsExplainStatus
<1>1. DetailsInit => DetailsInv
  <2>1. NewView \in View /\ NewView.at = "first" /\ NewView.reply = "none"
    BY DEF NewView, View
  <2>2. QED
    BY <2>1 DEF DetailsInit, Init, DetailsInv
<1>2. TakeInv /\ DetailsInv /\ [DetailsNext]_detailsVars => DetailsInv'
  <2> SUFFICES ASSUME TakeInv, DetailsInv, [DetailsNext]_detailsVars
               PROVE  DetailsInv'
    OBVIOUS
  <2>1. CASE \E g \in Gets : Get(g)
    BY <2>1, GetKeeps
  <2>2. ASSUME NEW r \in Reqs, Start(r) \/ Step(r) \/ Fault(r), UNCHANGED <<view, seeded>>
        PROVE  DetailsInv'
    BY <2>2, StepStatuses
  <2>3. CASE UNCHANGED detailsVars
    BY <2>3 DEF detailsVars, DetailsInv, Held
  <2>4. QED
    BY <2>1, <2>2, <2>3 DEF DetailsNext, Next, Rest, vars, detailsVars
<1>3. DetailsInv => DetailsExplainStatus
  BY DEF DetailsInv, DetailsExplainStatus
<1>4. QED
  BY <1>1, <1>2, <1>3, DetailsOfBooking, TakeInvariant, PTL DEF DetailsSpec
=============================================================================

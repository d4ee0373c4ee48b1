------------------------------ MODULE AckProofs ------------------------------
(***************************************************************************)
(* Proof that a booking answered 200 stays its client's: no other client   *)
(* is told its id, its row keeps the spot, and only the bulk delete, when  *)
(* it has run, takes the row away.  All endpoints, exceptions and crashes. *)
(* Where nobody calls the bulk delete, then, no row is ever lost.          *)
(***************************************************************************)
EXTENDS BookingRefinement

-----------------------------------------------------------------------------
(* The invariant: what AckedBookingStands says holds from the INSERT on,   *)
(* before the client is told.                                              *)

\* A POST book that has its row, told or not yet.
Granted(q) == q.op = "book" /\ (q.pc \in {"mark", "invalidate"} \/ q.reply = "ok")

\* A bulk delete past its DELETE, or one that failed.
Cleared(q) ==
    q.op = "clear" /\ q.pc \notin {"new", "list", "wipe"} /\ q.reply # "badrequest"

Renames(q, i, v) == q.op = "update" /\ q.pc # "new" /\ q.id = i /\ q.vehicle = v

RequestsInv ==
    \A r \in Reqs :
        /\ At(r, "new") => req[r] = NewRequest
        /\ ~At(r, "done") => req[r].reply = "none"

GrantsInv ==
    \A r \in Reqs : Granted(req[r]) =>
        /\ req[r].id \in 1..(nextId - 1)
        /\ \A p \in Reqs \ {r} : Granted(req[p]) => req[p].id # req[r].id
        /\ req[r].id \in DOMAIN bookings =>
              /\ bookings[req[r].id].spot = req[r].spot
              /\ \/ bookings[req[r].id].vehicle = req[r].vehicle
                 \/ \E u \in Reqs :
                       Renames(req[u], req[r].id, bookings[req[r].id].vehicle)
        /\ req[r].id \notin DOMAIN bookings => \E c \in Reqs : Cleared(req[c])

AckInv == WarmInv /\ RequestsInv /\ GrantsInv

-----------------------------------------------------------------------------
(* What a step does to the request that takes it                           *)

\* A request under way keeps its handler, its vehicle and, apart from the
\* INSERT, its id; a POST book keeps its spot.
Kept(q, n, inserts) ==
    /\ n.pc # "new"
    /\ n.op = q.op /\ n.vehicle = q.vehicle
    /\ n.id = q.id \/ inserts
    /\ q.op = "book" => n.spot = q.spot
    /\ Granted(n) => Granted(q) \/ inserts
    /\ Cleared(q) => Cleared(n)
    /\ n.pc # "done" => n.reply = "none"

LEMMA KeptGoto ==
  ASSUME NEW q \in Request, q.pc # "done", q.reply = "none",
         NEW st \in Steps \ {"new", "done", "mark"},
         q.op = "book" /\ st = "invalidate" => q.pc = "mark",
         st \in {"list", "wipe"} => q.pc = "list"
  PROVE  Kept(q, [q EXCEPT !.pc = st], FALSE)
BY DEF Kept, Granted, Cleared, Request

LEMMA KeptAnswer ==
  ASSUME NEW q \in Request, q.pc # "new", NEW reply \in Replies,
         q.op = "book" /\ reply = "ok" => Granted(q), reply # "badrequest"
  PROVE  Kept(q, [q EXCEPT !.pc = "done", !.reply = reply], FALSE)
BY DEF Kept, Granted, Cleared, Request

\* Exceptions are neither 200s nor writes.
LEMMA KeptThrow ==
  ASSUME AckInv, NEW r \in Reqs, ~At(r, "new"), ~At(r, "done"), Throw(r)
  PROVE  Kept(req[r], req'[r], FALSE)
<1>1. /\ req \in [Reqs -> Request] /\ req[r] \in Request /\ req[r].reply = "none"
  BY DEF AckInv, RequestsInv, WarmInv, IInv, ReqsOK, OrderlyRequest
<1>2. CASE InLoop(req[r])
  <2>1. req'[r] = [req[r] EXCEPT !.pc = "next"]
    BY <1>1, <1>2 DEF Throw, Goto, Become
  <2>2. QED
    BY <1>1, <2>1, KeptGoto DEF At, Steps
<1>3. CASE ~InLoop(req[r])
  <2>1. req'[r] = [req[r] EXCEPT !.pc = "done", !.reply = "error"]
    BY <1>1, <1>3 DEF Throw, Answer, Become
  <2>2. QED
    BY <1>1, <2>1, KeptAnswer DEF At, Replies
<1>4. QED
  BY <1>2, <1>3

LEMMA StepKept ==
  ASSUME AckInv, NEW r \in Reqs, Step(r) \/ Fault(r)
  PROVE  /\ ~At(r, "new")
         /\ Kept(req[r], req'[r], InsertRow(r))
<1>0. /\ req \in [Reqs -> Request] /\ req[r] \in Request /\ ProgramOrder(req[r])
      /\ ~At(r, "done") => req[r].reply = "none"
      /\ req[r].pc \notin {"drop", "create"} /\ tableExists
  BY DEF AckInv, RequestsInv, WarmInv, IInv, ReqsOK, OrderlyRequest, NobodyCreates
<1>1. ~At(r, "new") /\ ~At(r, "done")
  BY DEF Step, Ensure, EnsureCheck, EnsureReplace, EnsureNothingToDrop, EnsureCreate,
         EnsureCreateFails, ControllerCheck, ServiceCheck, InsertRow, InsertFails, Mark,
         Invalidate, Scan, LoopNext, LoopEnd, Find, FindNone, Deactivate, Modify,
         ModifyFails, RowGone, List, ListFails, Wipe, Fault, CallFails, Crash, At
<1>2. ASSUME NEW q, Become(r, q)
      PROVE  req'[r] = q
  BY <1>0, <1>2 DEF Become
<1>3. SUFFICES ~InsertRow(r) => Kept(req[r], req'[r], FALSE)
  <2>1. CASE InsertRow(r)
    <3>1. req'[r] = [req[r] EXCEPT !.pc = "mark", !.id = nextId, !.mark = "occupied"]
      BY <1>2, <2>1 DEF InsertRow
    <3>2. req[r].op # "clear"
      BY <1>0, <2>1 DEF InsertRow, At, ProgramOrder
    <3>3. QED
      BY <1>0, <1>1, <2>1, <3>1, <3>2 DEF Kept, Granted, Cleared, Request
  <2>2. CASE ~InsertRow(r)
    BY <1>1, <1>3, <2>2 DEF Kept
  <2>3. QED
    BY <2>1, <2>2
<1>4. ASSUME NEW st \in Steps \ {"new", "done", "mark"}, Goto(r, st),
             req[r].op = "book" /\ st = "invalidate" => req[r].pc = "mark",
             st \in {"list", "wipe"} => req[r].pc = "list"
      PROVE  Kept(req[r], req'[r], FALSE)
  BY <1>0, <1>1, <1>2, <1>4, KeptGoto DEF Goto, At
<1>5. ASSUME NEW reply \in Replies \ {"ok", "badrequest"}, Answer(r, reply)
      PROVE  Kept(req[r], req'[r], FALSE)
  BY <1>0, <1>1, <1>2, <1>5, KeptAnswer DEF Answer, At
<1>6. ASSUME Throw(r)
      PROVE  Kept(req[r], req'[r], FALSE)
  BY <1>1, <1>6, KeptThrow
<1>7. CASE Ensure(r)
  <2>1. EnsureCheck(r)
    BY <1>0, <1>7
    DEF Ensure, EnsureReplace, EnsureNothingToDrop, EnsureCreate, EnsureCreateFails, At
  <2>2. AfterEnsure(req[r].op) \in {"check", "recheck", "find"}
    BY DEF AfterEnsure
  <2>3. Goto(r, AfterEnsure(req[r].op))
    BY <1>0, <2>1 DEF EnsureCheck
  <2>4. QED
    BY <1>4, <2>2, <2>3 DEF Steps
<1>8. CASE ControllerCheck(r) \/ ServiceCheck(r)
  BY <1>4, <1>5, <1>6, <1>8 DEF ControllerCheck, ServiceCheck, Steps, Replies
<1>9. CASE InsertFails(r) \/ ModifyFails(r) \/ ListFails(r)
  BY <1>6, <1>9 DEF InsertFails, ModifyFails, ListFails
<1>10. CASE Mark(r)
  <2> DEFINE q == [req[r] EXCEPT !.pc = AfterMark(req[r].op),
                     !.count = IF req[r].op = "bookall" THEN @ + 1 ELSE @]
  <2>1. req'[r] = q /\ req[r].pc = "mark"
    BY <1>2, <1>10 DEF Mark, At
  <2>2. /\ q.op = req[r].op /\ q.pc = AfterMark(req[r].op) /\ q.spot = req[r].spot
        /\ q.vehicle = req[r].vehicle /\ q.id = req[r].id /\ q.reply = req[r].reply
    BY <1>0 DEF Request
  <2> HIDE DEF q
  <2>3. QED
    BY <1>0, <2>1, <2>2 DEF At, AfterMark, Kept, Granted, Cleared
<1>11. CASE Invalidate(r)
  BY <1>0, <1>1, <1>2, <1>11, KeptAnswer
  DEF Invalidate, Answer, At, Granted, Replies
<1>12. CASE Scan(r)
  <2> DEFINE free == {s \in req[r].todo \cap Inventory : status[s] = "available"}
             q == [req[r] EXCEPT !.pc = "next", !.todo = free, !.scanned = free]
  <2>1. req'[r] = q /\ req[r].op = "bookall" /\ req[r].pc = "scan"
    BY <1>0, <1>2, <1>12 DEF Scan, At, ProgramOrder
  <2>2. /\ q.op = req[r].op /\ q.pc = "next" /\ q.reply = req[r].reply
        /\ q.vehicle = req[r].vehicle /\ q.id = req[r].id
    BY <1>0 DEF Request
  <2> HIDE DEF q
  <2>3. QED
    BY <1>0, <2>1, <2>2 DEF At, Kept, Granted, Cleared
<1>13. CASE LoopNext(r)
  <2>1. PICK s \in req[r].todo :
          req'[r] = [req[r] EXCEPT !.pc = LoopStep(req[r].op), !.spot = s,
                                   !.todo = Remaining(@, s)]
    BY <1>2, <1>13 DEF LoopNext
  <2> DEFINE q == [req[r] EXCEPT !.pc = LoopStep(req[r].op), !.spot = s,
                                 !.todo = Remaining(@, s)]
  <2>2. req[r].op \in {"bookall", "clear"} /\ req[r].pc = "next"
    BY <1>0, <1>13 DEF LoopNext, At, ProgramOrder
  <2>3. /\ q.op = req[r].op /\ q.pc = LoopStep(req[r].op) /\ q.reply = req[r].reply
        /\ q.vehicle = req[r].vehicle /\ q.id = req[r].id
    BY <1>0 DEF Request
  <2> HIDE DEF q
  <2>4. QED
    BY <1>0, <2>1, <2>2, <2>3 DEF At, LoopStep, Kept, Granted, Cleared, q
<1>14. CASE LoopEnd(r)
  <2>1. req[r].op # "book"
    BY <1>0, <1>14 DEF LoopEnd, At, ProgramOrder
  <2>2. QED
    BY <1>4, <1>14, <2>1 DEF LoopEnd, Steps
<1>15. CASE Find(r)
  <2> DEFINE q == [req[r] EXCEPT
                     !.pc = IF req[r].op = "delete" THEN "deactivate" ELSE "modify",
                     !.spot = bookings[req[r].id].spot,
                     !.was = bookings[req[r].id].active]
  <2>1. req'[r] = q /\ req[r].op \in {"delete", "update"} /\ req[r].pc = "find"
    BY <1>0, <1>2, <1>15 DEF Find, At, ProgramOrder
  <2>2. /\ q.op = req[r].op /\ q.pc \in {"deactivate", "modify"}
        /\ q.vehicle = req[r].vehicle /\ q.id = req[r].id /\ q.reply = req[r].reply
    BY <1>0 DEF Request
  <2> HIDE DEF q
  <2>3. QED
    BY <1>0, <2>1, <2>2 DEF At, Kept, Granted, Cleared
<1>16. CASE FindNone(r) \/ RowGone(r)
  BY <1>5, <1>16 DEF FindNone, RowGone, Replies
<1>17. CASE Deactivate(r)
  <2> DEFINE q == [req[r] EXCEPT !.pc = "mark", !.mark = "available"]
  <2>1. req'[r] = q /\ req[r].op = "delete" /\ req[r].pc = "deactivate"
    BY <1>0, <1>2, <1>17 DEF Deactivate, At, ProgramOrder
  <2>2. QED
    BY <1>0, <2>1 DEF At, Kept, Granted, Cleared, Request
<1>18. CASE Modify(r)
  <2> DEFINE q == [req[r] EXCEPT
                     !.pc = IF req[r].was # req[r].active THEN "mark" ELSE "invalidate",
                     !.mark = IF req[r].active THEN "occupied" ELSE "available"]
  <2>1. req'[r] = q /\ req[r].op = "update" /\ req[r].pc = "modify"
    BY <1>0, <1>2, <1>18 DEF Modify, At, ProgramOrder
  <2>2. /\ q.op = req[r].op /\ q.pc \in {"mark", "invalidate"}
        /\ q.vehicle = req[r].vehicle /\ q.id = req[r].id /\ q.reply = req[r].reply
    BY <1>0 DEF Request
  <2> HIDE DEF q
  <2>3. QED
    BY <1>0, <2>1, <2>2 DEF At, Kept, Granted, Cleared
<1>19. CASE List(r)
  <2> DEFINE q == [req[r] EXCEPT !.pc = "wipe", !.todo = {s \in Spots : Held(s)},
                                 !.mark = "available"]
  <2>1. req'[r] = q /\ req[r].op = "clear" /\ req[r].pc = "list"
    BY <1>0, <1>2, <1>19 DEF List, At, ProgramOrder
  <2>2. /\ q.op = req[r].op /\ q.pc = "wipe"
        /\ q.vehicle = req[r].vehicle /\ q.id = req[r].id /\ q.reply = req[r].reply
    BY <1>0 DEF Request
  <2> HIDE DEF q
  <2>3. QED
    BY <1>0, <2>1, <2>2 DEF At, Kept, Granted, Cleared
<1>20. CASE Wipe(r)
  BY <1>4, <1>20 DEF Wipe, Steps
<1>21. CASE Fault(r)
  BY <1>5, <1>6, <1>21 DEF Fault, CallFails, Crash, Replies
<1>22. QED
  BY <1>7, <1>8, <1>9, <1>10, <1>11, <1>12, <1>13, <1>14, <1>15, <1>16, <1>17,
     <1>18, <1>19, <1>20, <1>21 DEF Step

\* A request that arrives has been granted nothing yet.
LEMMA StartKept ==
  ASSUME AckInv, NEW r \in Reqs, Start(r)
  PROVE  /\ req[r] = NewRequest
         /\ req'[r].pc # "new" /\ ~Granted(req'[r])
         /\ req'[r].pc # "done" => req'[r].reply = "none"
<1>1. /\ req \in [Reqs -> Request] /\ req[r] = NewRequest
  BY DEF AckInv, RequestsInv, WarmInv, IInv, ReqsOK, OrderlyRequest, At, Start,
         StartBook, StartBookAll, StartDelete, StartUpdate, StartClear, Reject
<1>2. ASSUME NEW q, Become(r, q)
      PROVE  req'[r] = q
  BY <1>1, <1>2 DEF Become
<1>3. CASE StartBook(r)
  <2>1. PICK s \in Spots, v \in Vehicles :
          req'[r] = [req[r] EXCEPT !.op = "book", !.pc = "ensure", !.spot = s, !.vehicle = v]
    BY <1>2, <1>3 DEF StartBook
  <2>2. QED
    BY <1>1, <2>1 DEF NewRequest, Granted
<1>4. CASE StartBookAll(r)
  <2>1. PICK v \in Vehicles, scope \in Lots \cup {Inventory} :
          req'[r] = [req[r] EXCEPT !.op = "bookall", !.pc = "scan", !.vehicle = v,
                                   !.todo = scope]
    BY <1>2, <1>4 DEF StartBookAll
  <2>2. QED
    BY <1>1, <2>1 DEF NewRequest, Granted
<1>5. CASE StartDelete(r)
  <2>1. PICK i \in 1..nextId :
          req'[r] = [req[r] EXCEPT !.op = "delete", !.pc = "ensure", !.id = i]
    BY <1>2, <1>5 DEF StartDelete
  <2>2. QED
    BY <1>1, <2>1 DEF NewRequest, Granted
<1>6. CASE StartUpdate(r)
  <2>1. PICK i \in 1..nextId, v \in Vehicles, a \in BOOLEAN :
          req'[r] = [req[r] EXCEPT !.op = "update", !.pc = "ensure", !.id = i,
                                   !.vehicle = v, !.active = a]
    BY <1>2, <1>6 DEF StartUpdate
  <2>2. QED
    BY <1>1, <2>1 DEF NewRequest, Granted
<1>7. CASE StartClear(r)
  <2>1. req'[r] = [req[r] EXCEPT !.op = "clear", !.pc = "list"]
    BY <1>2, <1>7 DEF StartClear
  <2>2. QED
    BY <1>1, <2>1 DEF NewRequest, Granted
<1>8. CASE Reject(r)
  <2>1. PICK op \in Ops :
          req'[r] = [req[r] EXCEPT !.op = op, !.pc = "done", !.reply = "badrequest"]
    BY <1>2, <1>8 DEF Reject
  <2>2. QED
    BY <1>1, <2>1 DEF NewRequest, Granted
<1>9. QED
  BY <1>1, <1>3, <1>4, <1>5, <1>6, <1>7, <1>8 DEF Start

-----------------------------------------------------------------------------
(* What a step does to the rows                                            *)

\* An INSERT adds one row under a new id.
LEMMA InsertAdds ==
  ASSUME AckInv, NEW r \in Reqs, InsertRow(r)
  PROVE  /\ nextId' = nextId + 1 /\ nextId \notin DOMAIN bookings
         /\ DOMAIN bookings' = DOMAIN bookings \cup {nextId}
         /\ \A i \in DOMAIN bookings : bookings'[i] = bookings[i]
         /\ bookings'[nextId].spot = req[r].spot
         /\ bookings'[nextId].vehicle = req[r].vehicle
         /\ req'[r].id = nextId /\ req'[r].spot = req[r].spot
         /\ req'[r].vehicle = req[r].vehicle
         /\ req[r].op \in {"book", "bookall"}
<1>1. /\ req \in [Reqs -> Request] /\ req[r] \in Request /\ ProgramOrder(req[r])
      /\ DOMAIN bookings \subseteq 1..(nextId - 1) /\ nextId \in Nat \ {0}
  BY DEF AckInv, WarmInv, IInv, ReqsOK, OrderlyRequest, ShardsOK, RowsOK
<1> DEFINE new == [vehicle |-> req[r].vehicle, spot |-> req[r].spot, active |-> TRUE]
<1>2. nextId \notin DOMAIN bookings
  BY <1>1
<1>3. /\ DOMAIN bookings' = DOMAIN bookings \cup {nextId}
      /\ bookings'[nextId] = new
      /\ \A i \in DOMAIN bookings : bookings'[i] = bookings[i]
      /\ nextId' = nextId + 1
  BY <1>2 DEF InsertRow
<1>4. req'[r] = [req[r] EXCEPT !.pc = "mark", !.id = nextId, !.mark = "occupied"]
  BY <1>1 DEF InsertRow, Become
<1>5. req[r].op \in {"book", "bookall"}
  BY <1>1 DEF InsertRow, At, ProgramOrder
<1>6. QED
  BY <1>1, <1>2, <1>3, <1>4, <1>5 DEF Request

\* Every other step leaves each row its spot and, but for a PUT of that
\* row, its vehicle; the bulk delete takes them all.
LEMMA RowsStay ==
  ASSUME AckInv, NEW r \in Reqs, Start(r) \/ Step(r) \/ Fault(r), ~InsertRow(r)
  PROVE  /\ nextId' \in Nat /\ nextId <= nextId'
         /\ \/ Wipe(r) /\ DOMAIN bookings' = {}
            \/ /\ DOMAIN bookings' = DOMAIN bookings
               /\ \A i \in DOMAIN bookings :
                     /\ bookings'[i].spot = bookings[i].spot
                     /\ \/ bookings'[i].vehicle = bookings[i].vehicle
                        \/ /\ Renames(req[r], i, bookings'[i].vehicle)
                           /\ Modify(r)
<1>0. /\ req \in [Reqs -> Request] /\ req[r] \in Request /\ ProgramOrder(req[r])
      /\ bookings \in [DOMAIN bookings -> Row] /\ nextId \in Nat \ {0}
      /\ req[r].pc \notin {"drop", "create"}
  BY DEF AckInv, WarmInv, IInv, ReqsOK, OrderlyRequest, ShardsOK, RowsOK, NobodyCreates
<1>1. CASE Wipe(r)
  <2>1. bookings' = NoRows /\ nextId' = nextId
    BY <1>1 DEF Wipe
  <2>2. QED
    BY <1>0, <1>1, <2>1 DEF NoRows
<1>2. CASE Modify(r)
  <2> DEFINE i == req[r].id
             row == [bookings[i] EXCEPT !.vehicle = req[r].vehicle, !.active = req[r].active]
  <2>1. /\ i \in DOMAIN bookings /\ nextId' = nextId
        /\ bookings' = [bookings EXCEPT ![i] = row]
    BY <1>2 DEF Modify
  <2>2. row.spot = bookings[i].spot /\ row.vehicle = req[r].vehicle
    BY <1>0, <2>1 DEF Row
  <2>3. Renames(req[r], i, req[r].vehicle)
    BY <1>0, <1>2 DEF Modify, At, ProgramOrder, Renames
  <2> HIDE DEF row
  <2>4. QED
    BY <1>0, <1>2, <2>1, <2>2, <2>3
<1>3. CASE Deactivate(r)
  <2> DEFINE i == req[r].id
             row == [bookings[i] EXCEPT !.active = FALSE]
  <2>1. /\ i \in DOMAIN bookings /\ nextId' = nextId
        /\ bookings' = [bookings EXCEPT ![i] = row]
    BY <1>3 DEF Deactivate, Deactivated
  <2>2. row.spot = bookings[i].spot /\ row.vehicle = bookings[i].vehicle
    BY <1>0, <2>1 DEF Row
  <2> HIDE DEF row
  <2>3. QED
    BY <1>0, <2>1, <2>2
<1>4. CASE InsertFails(r)
  BY <1>0, <1>4 DEF InsertFails
<1>5. CASE ~Wipe(r) /\ ~Modify(r) /\ ~Deactivate(r) /\ ~InsertFails(r)
  <2>1. bookings' = bookings /\ nextId' = nextId
    BY <1>0, <1>5
    DEF Start, StartBook, StartBookAll, StartDelete, StartUpdate, StartClear, Reject,
        Step, Ensure, EnsureCheck, EnsureReplace, EnsureNothingToDrop, EnsureCreate,
        EnsureCreateFails, ControllerCheck, ServiceCheck, Mark, Invalidate, Scan,
        LoopNext, LoopEnd, Find, FindNone, ModifyFails, RowGone, List, ListFails,
        Fault, CallFails, Crash, shards, At
  <2>2. QED
    BY <1>0, <2>1
<1>6. QED
  BY <1>1, <1>2, <1>3, <1>4, <1>5

-----------------------------------------------------------------------------
(* The invariant is inductive                                              *)

LEMMA StepAckInv ==
  ASSUME AckInv, NEW r \in Reqs, Start(r) \/ Step(r) \/ Fault(r)
  PROVE  RequestsInv' /\ GrantsInv'
<1>0. /\ \A p \in Reqs \ {r} : req'[p] = req[p]
      /\ nextId \in Nat \ {0}
  BY OthersStand DEF AckInv, WarmInv, IInv, ShardsOK, RowsOK
<1>1. /\ req'[r].pc # "new"
      /\ req'[r].pc # "done" => req'[r].reply = "none"
  BY StartKept, StepKept DEF Kept
<1>2. RequestsInv'
  BY <1>0, <1>1 DEF RequestsInv, AckInv, At
\* Who was granted a booking before, and who is now.
<1>3. ASSUME NEW p \in Reqs, Granted(req'[p]), ~(p = r /\ InsertRow(r))
      PROVE  /\ Granted(req[p])
             /\ req'[p].id = req[p].id /\ req'[p].spot = req[p].spot
             /\ req'[p].vehicle = req[p].vehicle
  <2>1. CASE p # r
    BY <1>0, <1>3, <2>1
  <2>2. CASE p = r
    <3>1. ~Start(r)
      BY <1>3, <2>2, StartKept
    <3>2. Kept(req[r], req'[r], InsertRow(r))
      BY <3>1, StepKept
    <3>3. QED
      BY <1>3, <2>2, <3>2 DEF Kept, Granted
  <2>3. QED
    BY <2>1, <2>2
\* The requests that explain a row's absence or its vehicle stay.
<1>4. ASSUME NEW c \in Reqs, Cleared(req[c])
      PROVE  Cleared(req'[c])
  <2>1. CASE c # r
    BY <1>0, <1>4, <2>1
  <2>2. CASE c = r
    <3>1. ~Start(r)
      BY <1>4, <2>2, StartKept DEF Cleared, NewRequest
    <3>2. QED
      BY <1>4, <2>2, <3>1, StepKept DEF Kept
  <2>3. QED
    BY <2>1, <2>2
<1>5. ASSUME NEW u \in Reqs, NEW i, NEW v, Renames(req[u], i, v)
      PROVE  Renames(req'[u], i, v)
  <2>1. CASE u # r
    BY <1>0, <1>5, <2>1
  <2>2. CASE u = r
    <3>1. ~Start(r)
      BY <1>5, <2>2, StartKept DEF Renames, NewRequest
    <3>2. ~InsertRow(r)
      BY <1>5, <2>2, InsertAdds DEF Renames
    <3>3. QED
      BY <1>5, <2>2, <3>1, <3>2, StepKept DEF Kept, Renames
  <2>3. QED
    BY <2>1, <2>2
\* What an earlier grant says stays true.
<1>6. ASSUME NEW p \in Reqs, Granted(req[p])
      PROVE  /\ req[p].id \in 1..(nextId' - 1)
             /\ req[p].id \in DOMAIN bookings' =>
                   /\ bookings'[req[p].id].spot = req[p].spot
                   /\ \/ bookings'[req[p].id].vehicle = req[p].vehicle
                      \/ \E u \in Reqs :
                            Renames(req'[u], req[p].id, bookings'[req[p].id].vehicle)
             /\ req[p].id \notin DOMAIN bookings' => \E c \in Reqs : Cleared(req'[c])
  <2> DEFINE i == req[p].id
  <2>1. /\ i \in 1..(nextId - 1)
        /\ i \in DOMAIN bookings =>
              /\ bookings[i].spot = req[p].spot
              /\ \/ bookings[i].vehicle = req[p].vehicle
                 \/ \E u \in Reqs : Renames(req'[u], i, bookings[i].vehicle)
        /\ i \notin DOMAIN bookings => \E c \in Reqs : Cleared(req'[c])
    BY <1>4, <1>5, <1>6 DEF AckInv, GrantsInv
  <2>2. CASE InsertRow(r)
    BY <1>0, <2>1, <2>2, InsertAdds
  <2>3. CASE ~InsertRow(r)
    <3>1. /\ nextId' \in Nat /\ nextId <= nextId'
          /\ \/ Wipe(r) /\ DOMAIN bookings' = {}
             \/ /\ DOMAIN bookings' = DOMAIN bookings
                /\ i \in DOMAIN bookings =>
                      /\ bookings'[i].spot = bookings[i].spot
                      /\ \/ bookings'[i].vehicle = bookings[i].vehicle
                         \/ Renames(req'[r], i, bookings'[i].vehicle)
      BY <1>5, <2>3, RowsStay
    <3>2. Wipe(r) => Cleared(req'[r])
      <4>1. SUFFICES ASSUME Wipe(r) PROVE Cleared(req'[r])
        OBVIOUS
      <4>2. /\ req \in [Reqs -> Request] /\ req[r].op = "clear" /\ req[r].reply = "none"
        BY <4>1
        DEF Wipe, At, AckInv, RequestsInv, WarmInv, IInv, ReqsOK, OrderlyRequest, ProgramOrder
      <4>3. req'[r] = [req[r] EXCEPT !.pc = "next"]
        BY <4>1, <4>2 DEF Wipe, Goto, Become
      <4>4. QED
        BY <4>2, <4>3 DEF Cleared, Request
    <3> HIDE DEF i
    <3>3. i \in 1..(nextId' - 1)
      BY <1>0, <2>1, <3>1
    <3>4. CASE Wipe(r) /\ DOMAIN bookings' = {}
      BY <3>2, <3>3, <3>4 DEF i
    <3>5. CASE DOMAIN bookings' = DOMAIN bookings
      BY <2>1, <3>1, <3>2, <3>3, <3>5 DEF i
    <3>6. QED
      BY <3>1, <3>4, <3>5
  <2>4. QED
    BY <2>2, <2>3
<1>7. GrantsInv'
  <2> SUFFICES ASSUME NEW p \in Reqs, Granted(req'[p])
               PROVE  /\ req'[p].id \in 1..(nextId' - 1)
                      /\ \A q \in Reqs \ {p} : Granted(req'[q]) => req'[q].id # req'[p].id
                      /\ req'[p].id \in DOMAIN bookings' =>
                            /\ bookings'[req'[p].id].spot = req'[p].spot
                            /\ \/ bookings'[req'[p].id].vehicle = req'[p].vehicle
                               \/ \E u \in Reqs :
                                     Renames(req'[u], req'[p].id,
                                             bookings'[req'[p].id].vehicle)
                      /\ req'[p].id \notin DOMAIN bookings' =>
                            \E c \in Reqs : Cleared(req'[c])
    BY DEF GrantsInv
  <2>1. \A q \in Reqs : Granted(req[q]) => req[q].id \in 1..(nextId - 1)
    BY DEF AckInv, GrantsInv
  <2>2. \A q \in Reqs \ {p} : Granted(req'[q]) => req'[q].id # req'[p].id
    <3> SUFFICES ASSUME NEW q \in Reqs \ {p}, Granted(req'[q])
                 PROVE  req'[q].id # req'[p].id
      OBVIOUS
    <3>1. CASE InsertRow(r) /\ p = r
      BY <1>0, <1>3, <2>1, <3>1, InsertAdds
    <3>2. CASE InsertRow(r) /\ q = r
      BY <1>0, <1>3, <2>1, <3>2, InsertAdds
    <3>3. CASE ~(InsertRow(r) /\ p = r) /\ ~(InsertRow(r) /\ q = r)
      BY <1>3, <3>3 DEF AckInv, GrantsInv
    <3>4. QED
      BY <3>1, <3>2, <3>3
  <2>3. CASE InsertRow(r) /\ p = r
    BY <1>0, <2>2, <2>3, InsertAdds
  <2>4. CASE ~(p = r /\ InsertRow(r))
    BY <1>3, <1>6, <2>2, <2>4
  <2>5. QED
    BY <2>3, <2>4
<1>8. QED
  BY <1>2, <1>7

LEMMA AckInvariant == TableAtStart => (Spec => []AckInv)
<1>1. Init /\ WarmInv => AckInv
  BY DEF Init, AckInv, RequestsInv, GrantsInv, Granted, At, NewRequest
<1>2. AckInv /\ WarmInv' /\ [Next]_vars => AckInv'
  <2> SUFFICES ASSUME AckInv, WarmInv', [Next]_vars
               PROVE  AckInv'
    OBVIOUS
  <2>1. CASE \E r \in Reqs : Start(r) \/ Step(r) \/ Fault(r)
    BY <2>1, StepAckInv DEF AckInv
  <2>2. CASE UNCHANGED vars
    BY <2>2 DEF vars, AckInv, RequestsInv, GrantsInv, At
  <2>3. QED
    BY <2>1, <2>2 DEF Next, Rest
<1>3. QED
  BY <1>1, <1>2, WarmInvariant, PTL DEF Spec

\* An id a client was told is its own and keeps its spot, its row goes only by
\* the bulk delete, for any number of concurrent requests, exceptions and
\* crashes included, once the bookings table exists.
THEOREM AckedBookingsStand == TableAtStart => (Spec => []AckedBookingStands)
<1>1. AckInv => AckedBookingStands
  <2> SUFFICES ASSUME AckInv, NEW r \in Reqs, Answered(r, "book")
               PROVE  /\ \A p \in Reqs \ {r} : Answered(p, "book") => req[p].id # req[r].id
                      /\ req[r].id \in DOMAIN bookings =>
                            /\ bookings[req[r].id].spot = req[r].spot
                            /\ \/ bookings[req[r].id].vehicle = req[r].vehicle
                               \/ \E u \in Reqs :
                                     /\ req[u].op = "update"
                                     /\ req[u].id = req[r].id
                                     /\ req[u].vehicle = bookings[req[r].id].vehicle
                      /\ req[r].id \notin DOMAIN bookings =>
                            \E c \in Reqs : /\ req[c].op = "clear"
                                            /\ req[c].reply # "badrequest"
                                            /\ req[c].pc \notin {"list", "wipe"}
    BY DEF AckedBookingStands
  <2>1. \A p \in Reqs : Answered(p, "book") => Granted(req[p])
    BY DEF Answered, Granted
  <2>2. QED
    BY <2>1 DEF AckInv, GrantsInv, Renames, Cleared
<1>2. QED
  BY <1>1, AckInvariant, PTL

-----------------------------------------------------------------------------
(* Where nobody calls the bulk delete, no row ever goes.                   *)

OpsInUse == \A r \in Reqs : req[r].op \in Ops \cup {"none"}

\* Rows are never taken away, answered or not.
RowsKept == [][DOMAIN bookings \subseteq DOMAIN bookings']_vars

\* A request keeps the handler it arrived at.
LEMMA StepOpsInUse ==
  ASSUME AckInv, OpsInUse, NEW r \in Reqs, Start(r) \/ Step(r) \/ Fault(r)
  PROVE  OpsInUse'
<1>0. /\ req \in [Reqs -> Request] /\ req[r] \in Request
      /\ \A p \in Reqs \ {r} : req'[p] = req[p]
  BY OthersStand DEF AckInv, WarmInv, IInv, ReqsOK, OrderlyRequest
<1>1. ASSUME NEW q, Become(r, q)
      PROVE  req'[r] = q
  BY <1>0, <1>1 DEF Become
<1>2. CASE Start(r)
  <2>0. SUFFICES req'[r].op \in Ops
    BY <1>0 DEF OpsInUse
  <2>1. CASE StartBook(r)
    BY <1>0, <1>1, <2>1 DEF StartBook, Request
  <2>2. CASE StartBookAll(r)
    BY <1>0, <1>1, <2>2 DEF StartBookAll, Request
  <2>3. CASE StartDelete(r)
    BY <1>0, <1>1, <2>3 DEF StartDelete, Request
  <2>4. CASE StartUpdate(r)
    BY <1>0, <1>1, <2>4 DEF StartUpdate, Request
  <2>5. CASE StartClear(r)
    BY <1>0, <1>1, <2>5 DEF StartClear, Request
  <2>6. CASE Reject(r)
    BY <1>0, <1>1, <2>6 DEF Reject, Request
  <2>7. QED
    BY <1>2, <2>1, <2>2, <2>3, <2>4, <2>5, <2>6 DEF Start
<1>3. CASE Step(r) \/ Fault(r)
  <2>1. req'[r].op = req[r].op
    BY <1>3, StepKept DEF Kept
  <2>2. QED
    BY <1>0, <2>1 DEF OpsInUse
<1>4. QED
  BY <1>2, <1>3

\* What the comments at PostgresService.cs:320 and :435 promise of checking for
\* the table holds once it exists: whatever else the API is asked, exceptions
\* and crashes included, no row is ever lost, nor then any booking that was
\* answered.  Run lost_bookings shows that
\* the table's first creation is where it fails.
THEOREM NoBookingIsLost ==
  ASSUME TableAtStart, "clear" \notin Ops
  PROVE  Spec => RowsKept /\ EnsureKeepsBookings
<1>1. Init => OpsInUse
  BY DEF Init, OpsInUse, NewRequest
<1>2. AckInv /\ OpsInUse /\ [Next]_vars => OpsInUse'
  <2>1. ASSUME UNCHANGED vars, OpsInUse
        PROVE  OpsInUse'
    BY <2>1 DEF vars, OpsInUse
  <2>2. QED
    BY <2>1, StepOpsInUse DEF Next, Rest
<1>3. AckInv /\ OpsInUse /\ [Next]_vars => [DOMAIN bookings \subseteq DOMAIN bookings']_vars
  <2> SUFFICES ASSUME AckInv, OpsInUse, NEW r \in Reqs,
                      Start(r) \/ Step(r) \/ Fault(r)
               PROVE  DOMAIN bookings \subseteq DOMAIN bookings'
    BY DEF Next, Rest
  <2>1. CASE InsertRow(r)
    BY <2>1, InsertAdds
  <2>2. CASE ~InsertRow(r)
    <3>1. ~Wipe(r)
      <4>1. SUFFICES ASSUME Wipe(r) PROVE FALSE
        OBVIOUS
      <4>2. req[r].op = "clear"
        BY <4>1
        DEF Wipe, At, AckInv, WarmInv, IInv, ReqsOK, OrderlyRequest, ProgramOrder
      <4>3. req[r].op \in Ops \cup {"none"}
        BY DEF OpsInUse
      <4>4. QED
        BY <4>2, <4>3
    <3>2. QED
      BY <2>2, <3>1, RowsStay
  <2>3. QED
    BY <2>1, <2>2
<1>4. [DOMAIN bookings \subseteq DOMAIN bookings']_vars
        => [\A r \in Reqs : Answered(r, "book") /\ req[r].id \in DOMAIN bookings
                                => req[r].id \in DOMAIN bookings']_vars
  OBVIOUS
<1>5. QED
  BY <1>1, <1>2, <1>3, <1>4, AckInvariant, PTL DEF Spec, RowsKept, EnsureKeepsBookings
=============================================================================

---------------------------- MODULE SeedingProofs ----------------------------
(***************************************************************************)
(* Proofs about Seeding, for any number of instances and lots and any      *)
(* capacities: what overlapping seedings leave behind.                     *)
(***************************************************************************)
EXTENDS Seeding, Integers, TLAPS

\* In the loops of SeedParkingDataAsync.
Seeds(i) == at[i].pc \in {"lot", "spot"}

\* Where a seeding stands: lot 1 is written first, spots of a written lot
\* only, and only by those that found the table empty.
PlaceOK ==
    \A i \in Instances :
       /\ at[i].pc = "spot" => /\ at[i].cap \in Capacities
                               /\ at[i].next \in 1..at[i].cap
                               /\ capacity[at[i].lot] # 0
       /\ Seeds(i) /\ at[i].lot > 1 => capacity[1] # 0
       /\ Seeds(i) => i \in seeders

RowsHaveLots == \A l \in Lots, n \in Nat : <<l, n>> \in spots => capacity[l] # 0

\* A spot that is missing is ahead of an instance that works on its lot.
SpotsAhead ==
    ~cut => \A l \in Lots : \A n \in 1..capacity[l] :
        <<l, n>> \notin spots =>
            \E i \in Instances : /\ at[i].pc = "spot" /\ at[i].lot = l
                                 /\ at[i].next <= n /\ n <= at[i].cap

\* A lot that is missing is ahead of an instance that has written others.
LotsAhead ==
    (~cut /\ ~Empty) => \A m \in Lots :
        capacity[m] = 0 =>
            \E i \in Instances : \/ at[i].pc = "spot" /\ at[i].lot < m
                                 \/ at[i].pc = "lot" /\ 1 < at[i].lot /\ at[i].lot <= m

\* A seeding alone has all rows behind it.
AllBehind ==
    (\A i, j \in seeders : i = j) =>
        \A i \in Instances : Seeds(i) =>
            \A l \in Lots, n \in Nat : <<l, n>> \in spots =>
                \/ l < at[i].lot
                \/ l = at[i].lot /\ at[i].pc = "spot" /\ n < at[i].next

SeedingInv ==
    /\ SeedingTypeOK
    /\ PlaceOK
    /\ RowsHaveLots
    /\ SpotsAhead
    /\ LotsAhead
    /\ AllBehind

-----------------------------------------------------------------------------
(* Helpers                                                                 *)

LEMMA CapacityFact == \A c \in Capacities \cup {0} : c \in Nat
BY SeedingAssumption

LEMMA DownFact == Down \in Start
BY SeedingAssumption DEF Down, Start, Lots

\* A step that moves one instance leaves the places of the others.
LEMMA MoveFact ==
    ASSUME SeedingTypeOK, NEW i \in Instances, NEW s \in Start, Move(i, s)
    PROVE  /\ at' \in [Instances -> Start]
           /\ at'[i] = s
           /\ \A j \in Instances : j # i => at'[j] = at[j]
BY DEF SeedingTypeOK, Move

LEMMA GotoFact ==
    ASSUME SeedingTypeOK, NEW i \in Instances,
           NEW step \in {"down", "count", "lot", "spot", "serving"}, Goto(i, step)
    PROVE  /\ at' \in [Instances -> Start]
           /\ at'[i].pc = step /\ at'[i].lot = 1
           /\ \A j \in Instances : j # i => at'[j] = at[j]
<1> DEFINE s == [Down EXCEPT !.pc = step]
<1>1. s \in Start /\ s.pc = step /\ s.lot = 1
  BY DownFact DEF Start, Down
<1>2. Move(i, s)
  BY DEF Goto
<1> HIDE DEF s
<1> QED
  BY <1>1, <1>2, MoveFact

-----------------------------------------------------------------------------
(* The invariant                                                           *)

LEMMA SeedingInvInit == SeedingInit => SeedingInv
<1> SUFFICES ASSUME SeedingInit PROVE SeedingInv
  OBVIOUS
<1>1. SeedingTypeOK
  BY DownFact DEF SeedingInit, SeedingTypeOK
<1>2. \A i \in Instances : at[i].pc = "down"
  BY DEF SeedingInit, Down
<1>3. PlaceOK /\ RowsHaveLots /\ AllBehind
  BY <1>2 DEF SeedingInit, PlaceOK, RowsHaveLots, AllBehind, Seeds
<1>4. SpotsAhead /\ LotsAhead
  BY DEF SeedingInit, SpotsAhead, LotsAhead, Empty
<1> QED
  BY <1>1, <1>3, <1>4 DEF SeedingInv

\* An instance leaves the loops, or is not in them: rows stay, and what it had
\* ahead of it is either nothing or makes the seeding cut.
LEMMA LeaveKeepsInv ==
    ASSUME SeedingInv, NEW i \in Instances,
           NEW step \in {"down", "count", "serving"}, Goto(i, step),
           cut' = (cut \/ HasWritten(i)), UNCHANGED <<rows, clients, seeders>>
    PROVE  SeedingInv'
<1>1. /\ at' \in [Instances -> Start] /\ at'[i].pc = step
      /\ \A j \in Instances : j # i => at'[j] = at[j]
  BY GotoFact DEF SeedingInv
<1>2. UNCHANGED <<capacity, spots, occupied, held, past, owed, seeders>>
  BY DEF rows, clients
<1>3. SeedingTypeOK'
  BY <1>1, <1>2 DEF SeedingInv, SeedingTypeOK, HasWritten, At
<1>4. PlaceOK' /\ RowsHaveLots'
  BY <1>1, <1>2 DEF SeedingInv, PlaceOK, RowsHaveLots, Seeds
<1>5. AllBehind'
  BY <1>1, <1>2 DEF SeedingInv, AllBehind, Seeds
<1>6. SpotsAhead'
  <2> SUFFICES ASSUME ~cut', NEW l \in Lots, NEW n \in 1..capacity[l], <<l, n>> \notin spots
               PROVE  \E j \in Instances : /\ at'[j].pc = "spot" /\ at'[j].lot = l
                                           /\ at'[j].next <= n /\ n <= at'[j].cap
    BY <1>2 DEF SpotsAhead
  <2>1. PICK j \in Instances : /\ at[j].pc = "spot" /\ at[j].lot = l
                               /\ at[j].next <= n /\ n <= at[j].cap
    BY DEF SeedingInv, SpotsAhead
  <2>2. j # i
    BY <2>1 DEF HasWritten, At
  <2> QED
    BY <1>1, <2>1, <2>2
<1>7. LotsAhead'
  <2> SUFFICES ASSUME ~cut', ~Empty, NEW m \in Lots, capacity[m] = 0
               PROVE  \E j \in Instances :
                         \/ at'[j].pc = "spot" /\ at'[j].lot < m
                         \/ at'[j].pc = "lot" /\ 1 < at'[j].lot /\ at'[j].lot <= m
    BY <1>2 DEF LotsAhead, Empty
  <2>1. PICK j \in Instances :
           \/ at[j].pc = "spot" /\ at[j].lot < m
           \/ at[j].pc = "lot" /\ 1 < at[j].lot /\ at[j].lot <= m
    BY DEF SeedingInv, LotsAhead
  <2>2. j # i
    <3>1. at[j].lot \in Nat
      BY DEF SeedingInv, SeedingTypeOK, Start, Lots
    <3> QED
      BY <2>1, <3>1 DEF HasWritten, At
  <2> QED
    BY <1>1, <2>1, <2>2
<1> QED
  BY <1>3, <1>4, <1>5, <1>6, <1>7 DEF SeedingInv

\* Construct, Count of a table with lots, StatementFails and Crash leave.
LEMMA CountKeepsInv ==
    ASSUME SeedingInv, NEW i \in Instances, Count(i)
    PROVE  SeedingInv'
<1>1. CASE ~Empty
  <2>1. /\ Goto(i, "serving") /\ cut' = (cut \/ HasWritten(i))
        /\ UNCHANGED <<rows, clients, seeders>>
    BY <1>1 DEF Count, HasWritten, At, SeedingInv, SeedingTypeOK
  <2> QED
    BY <2>1, LeaveKeepsInv
<1>2. CASE Empty
  <2>1. /\ Goto(i, "lot") /\ seeders' = seeders \cup {i}
        /\ UNCHANGED <<capacity, spots, occupied, held, past, owed, cut>>
    BY <1>2 DEF Count, rows, clients
  <2>2. /\ at' \in [Instances -> Start] /\ at'[i].pc = "lot" /\ at'[i].lot = 1
        /\ \A j \in Instances : j # i => at'[j] = at[j]
    BY <2>1, GotoFact DEF SeedingInv
  <2>3. at[i].pc = "count"
    BY DEF Count, At
  <2>4. SeedingTypeOK'
    BY <2>1, <2>2 DEF SeedingInv, SeedingTypeOK
  <2>5. PlaceOK' /\ RowsHaveLots'
    BY <2>1, <2>2 DEF SeedingInv, PlaceOK, RowsHaveLots, Seeds
  <2>6. \A l \in Lots, n \in Nat : <<l, n>> \notin spots
    BY <1>2 DEF Empty, SeedingInv, RowsHaveLots
  <2>7. AllBehind'
    BY <2>1, <2>6 DEF AllBehind
  <2>8. SpotsAhead'
    <3>1. \A l \in Lots : capacity'[l] = 0
      BY <1>2, <2>1 DEF Empty
    <3> QED
      BY <3>1 DEF SpotsAhead
  <2>9. LotsAhead'
    BY <1>2, <2>1 DEF LotsAhead, Empty
  <2> QED
    BY <2>4, <2>5, <2>7, <2>8, <2>9 DEF SeedingInv
<1> QED
  BY <1>1, <1>2

\* The lot's new row puts its spots ahead of this instance.
LEMMA SeedLotKeepsInv ==
    ASSUME SeedingInv, NEW i \in Instances, SeedLot(i)
    PROVE  SeedingInv'
<1> DEFINE k == at[i].lot
<1>1. PICK c \in Capacities :
         /\ capacity' = [capacity EXCEPT ![k] = c]
         /\ Move(i, [at[i] EXCEPT !.pc = "spot", !.cap = c, !.next = 1])
  BY DEF SeedLot
<1>2. at[i] \in Start /\ at[i].pc = "lot" /\ k \in Lots /\ k \in Nat
  BY DEF SeedLot, At, SeedingInv, SeedingTypeOK, Start, Lots
<1>3. UNCHANGED <<spots, occupied, held, past, owed, cut, seeders>>
  BY DEF SeedLot, clients
<1>4. c \in Nat \ {0}
  BY SeedingAssumption
<1> DEFINE s == [at[i] EXCEPT !.pc = "spot", !.cap = c, !.next = 1]
<1>5. s \in Start /\ s.pc = "spot" /\ s.cap = c /\ s.next = 1 /\ s.lot = k
  BY <1>2 DEF Start
<1> HIDE DEF s
<1>6. Move(i, s)
  BY <1>1 DEF s
<1>7. /\ at' \in [Instances -> Start] /\ at'[i] = s
      /\ \A j \in Instances : j # i => at'[j] = at[j]
  BY <1>5, <1>6, MoveFact DEF SeedingInv
<1> HIDE DEF k
<1>8. /\ capacity' \in [Lots -> Capacities \cup {0}]
      /\ \A l \in Lots : capacity'[l] = IF l = k THEN c ELSE capacity[l]
  BY <1>1, <1>2 DEF SeedingInv, SeedingTypeOK
<1>9. \A l \in Lots : capacity[l] # 0 => capacity'[l] # 0
  BY <1>4, <1>8
<1>10. i \in seeders
  BY <1>2 DEF SeedingInv, PlaceOK, Seeds
<1>11. SeedingTypeOK'
  BY <1>3, <1>7, <1>8 DEF SeedingInv, SeedingTypeOK
<1>12. PlaceOK'
  <2>1. 1 \in Lots
    BY SeedingAssumption DEF Lots
  <2>2. k > 1 => capacity[1] # 0
    BY <1>2 DEF SeedingInv, PlaceOK, Seeds, k
  <2>3. capacity'[k] # 0 /\ (k > 1 => capacity'[1] # 0)
    BY <1>2, <1>4, <1>8, <1>9, <2>1, <2>2
  <2>4. 1 \in 1..c
    BY <1>4
  <2> SUFFICES ASSUME NEW j \in Instances
               PROVE  /\ at'[j].pc = "spot" => /\ at'[j].cap \in Capacities
                                               /\ at'[j].next \in 1..at'[j].cap
                                               /\ capacity'[at'[j].lot] # 0
                      /\ Seeds(j)' /\ at'[j].lot > 1 => capacity'[1] # 0
                      /\ Seeds(j)' => j \in seeders'
    BY DEF PlaceOK
  <2>5. CASE j = i
    BY <1>3, <1>5, <1>7, <1>10, <2>3, <2>4, <2>5 DEF Seeds
  <2>6. CASE j # i
    <3>1. at'[j] = at[j] /\ at[j].lot \in Lots
      BY <1>7, <2>6 DEF SeedingInv, SeedingTypeOK, Start
    <3> QED
      BY <1>3, <1>9, <2>1, <3>1 DEF SeedingInv, PlaceOK, Seeds
  <2> QED
    BY <2>5, <2>6
<1>13. RowsHaveLots'
  BY <1>3, <1>9 DEF SeedingInv, RowsHaveLots
<1>14. SpotsAhead'
  <2> SUFFICES ASSUME ~cut', NEW l \in Lots, NEW n \in 1..capacity'[l],
                      <<l, n>> \notin spots'
               PROVE  \E j \in Instances : /\ at'[j].pc = "spot" /\ at'[j].lot = l
                                           /\ at'[j].next <= n /\ n <= at'[j].cap
    BY DEF SpotsAhead
  <2>1. CASE l = k
    <3>1. n \in 1..c
      BY <1>8, <2>1
    <3> QED
      BY <1>4, <1>5, <1>7, <2>1, <3>1
  <2>2. CASE l # k
    <3>1. n \in 1..capacity[l] /\ <<l, n>> \notin spots /\ ~cut
      BY <1>3, <1>8, <2>2
    <3>2. PICK j \in Instances : /\ at[j].pc = "spot" /\ at[j].lot = l
                                 /\ at[j].next <= n /\ n <= at[j].cap
      BY <3>1 DEF SeedingInv, SpotsAhead
    <3> QED
      BY <1>2, <1>7, <3>2
  <2> QED
    BY <2>1, <2>2
<1>15. LotsAhead'
  <2> SUFFICES ASSUME ~cut', NEW m \in Lots, capacity'[m] = 0
               PROVE  \E j \in Instances :
                         \/ at'[j].pc = "spot" /\ at'[j].lot < m
                         \/ at'[j].pc = "lot" /\ 1 < at'[j].lot /\ at'[j].lot <= m
    BY DEF LotsAhead
  <2>1. m # k /\ capacity[m] = 0 /\ m \in Nat /\ m >= 1
    BY <1>4, <1>8 DEF Lots
  <2>2. CASE k < m
    BY <1>5, <1>7, <2>2
  <2>3. CASE ~(k < m)
    <3>1. k > 1
      BY <1>2, <2>1, <2>3
    <3>2. capacity[1] # 0 /\ 1 \in Lots
      BY <1>2, <3>1, SeedingAssumption DEF SeedingInv, PlaceOK, Seeds, Lots, k
    <3>3. ~Empty
      BY <3>2 DEF Empty
    <3>4. PICK j \in Instances :
             \/ at[j].pc = "spot" /\ at[j].lot < m
             \/ at[j].pc = "lot" /\ 1 < at[j].lot /\ at[j].lot <= m
      BY <1>3, <2>1, <3>3 DEF SeedingInv, LotsAhead
    <3>5. CASE j = i
      <4>1. k <= m
        BY <1>2, <3>4, <3>5 DEF k
      <4> QED
        BY <1>2, <2>1, <2>3, <4>1
    <3>6. CASE j # i
      BY <1>7, <3>4, <3>6
    <3> QED
      BY <3>5, <3>6
  <2> QED
    BY <2>2, <2>3
<1>16. AllBehind'
  <2> SUFFICES ASSUME \A j1, j2 \in seeders : j1 = j2,
                      NEW j \in Instances, Seeds(j)',
                      NEW l \in Lots, NEW n \in Nat, <<l, n>> \in spots
               PROVE  \/ l < at'[j].lot
                      \/ l = at'[j].lot /\ at'[j].pc = "spot" /\ n < at'[j].next
    BY <1>3 DEF AllBehind
  <2>1. j = i
    BY <1>3, <1>10, <1>12 DEF PlaceOK
  <2>2. l < k
    BY <1>2 DEF SeedingInv, AllBehind, Seeds, k
  <2> QED
    BY <1>5, <1>7, <2>1, <2>2
<1> QED
  BY <1>11, <1>12, <1>13, <1>14, <1>15, <1>16 DEF SeedingInv

\* Where an instance goes from a spot.
LEMMA AdvanceFact ==
    ASSUME SeedingInv, NEW i \in Instances, at[i].pc = "spot", Advance(i)
    PROVE  \E t \in Start :
              /\ at' \in [Instances -> Start] /\ at'[i] = t
              /\ \A j \in Instances : j # i => at'[j] = at[j]
              /\ \/ /\ t.pc = "spot" /\ t.lot = at[i].lot /\ t.cap = at[i].cap
                    /\ t.next = at[i].next + 1 /\ at[i].next < at[i].cap
                 \/ /\ t.pc = "lot" /\ t.lot = at[i].lot + 1 /\ at[i].lot < N
                    /\ ~(at[i].next < at[i].cap)
                 \/ /\ t.pc = "serving" /\ ~(at[i].lot < N)
                    /\ ~(at[i].next < at[i].cap)
<1> DEFINE s == at[i]
<1>1. s \in Start /\ s.lot \in Lots /\ s.next \in Nat /\ SeedingTypeOK
  BY DEF SeedingInv, SeedingTypeOK, Start
<1>2. CASE s.next < s.cap
  <2> DEFINE t == [s EXCEPT !.next = @ + 1]
  <2>1. /\ t \in Start /\ t.pc = s.pc /\ t.lot = s.lot
        /\ t.cap = s.cap /\ t.next = s.next + 1
    BY <1>1 DEF Start
  <2>2. Move(i, t)
    BY <1>2 DEF Advance, MoreSpots
  <2> HIDE DEF t
  <2> QED
    BY <1>1, <1>2, <2>1, <2>2, MoveFact
<1>3. CASE ~(s.next < s.cap) /\ s.lot < N
  <2> DEFINE t == [Down EXCEPT !.pc = "lot", !.lot = s.lot + 1]
  <2>1. s.lot + 1 \in Lots
    BY <1>1, <1>3, SeedingAssumption DEF Lots
  <2>2. t \in Start /\ t.pc = "lot" /\ t.lot = s.lot + 1
    BY <2>1, DownFact DEF Start, Down
  <2>3. Move(i, t)
    BY <1>3 DEF Advance, MoreSpots
  <2> HIDE DEF t
  <2> QED
    BY <1>1, <1>3, <2>2, <2>3, MoveFact
<1>4. CASE ~(s.next < s.cap) /\ ~(s.lot < N)
  <2>1. Goto(i, "serving")
    BY <1>4 DEF Advance, MoreSpots
  <2>2. /\ at' \in [Instances -> Start] /\ at'[i].pc = "serving"
        /\ \A j \in Instances : j # i => at'[j] = at[j]
    BY <1>1, <2>1, GotoFact
  <2> QED
    BY <1>4, <2>2
<1> QED
  BY <1>2, <1>3, <1>4

\* A new spot is behind the instance that made it, and was ahead of it before.
LEMMA SeedSpotKeepsInv ==
    ASSUME SeedingInv, NEW i \in Instances, SeedSpot(i)
    PROVE  SeedingInv'
<1> DEFINE k == at[i].lot
           x == at[i].next
           cap == at[i].cap
<1>1. /\ at[i].pc = "spot" /\ k \in Lots /\ k \in Nat /\ k >= 1
      /\ cap \in Nat /\ x \in 1..cap /\ x \in Nat
      /\ capacity[k] # 0 /\ i \in seeders /\ (k > 1 => capacity[1] # 0)
  <2>1. at[i].pc = "spot" /\ at[i] \in Start
    BY DEF SeedSpot, At, SeedingInv, SeedingTypeOK
  <2>2. cap \in Capacities /\ x \in 1..cap
    BY <2>1 DEF SeedingInv, PlaceOK
  <2>3. cap \in Nat /\ x \in Nat
    BY <2>2, SeedingAssumption
  <2>4. k \in Lots /\ k \in Nat /\ k >= 1
    BY <2>1, SeedingAssumption DEF Start, Lots
  <2>5. capacity[k] # 0 /\ i \in seeders /\ (k > 1 => capacity[1] # 0)
    BY <2>1 DEF SeedingInv, PlaceOK, Seeds
  <2> QED
    BY <2>1, <2>2, <2>3, <2>4, <2>5
<1>2. /\ spots' = spots \cup {<<k, x>>}
      /\ occupied' \in {occupied \ {<<k, x>>}, occupied \cup {<<k, x>>}}
      /\ UNCHANGED <<capacity, held, past, owed, cut, seeders>> /\ Advance(i)
  BY DEF SeedSpot, clients
<1>3. PICK t \in Start :
         /\ at' \in [Instances -> Start] /\ at'[i] = t
         /\ \A j \in Instances : j # i => at'[j] = at[j]
         /\ \/ t.pc = "spot" /\ t.lot = k /\ t.cap = cap /\ t.next = x + 1 /\ x < cap
            \/ t.pc = "lot" /\ t.lot = k + 1 /\ k < N /\ ~(x < cap)
            \/ t.pc = "serving" /\ ~(k < N) /\ ~(x < cap)
  BY <1>1, <1>2, AdvanceFact
<1>4. SeedingTypeOK'
  <2>1. <<k, x>> \in Lots \X Nat
    BY <1>1
  <2>2. spots' \subseteq Lots \X Nat /\ occupied' \subseteq spots'
    BY <1>2, <2>1 DEF SeedingInv, SeedingTypeOK
  <2> QED
    BY <1>2, <1>3, <2>2 DEF SeedingInv, SeedingTypeOK
<1>5. capacity[1] # 0 /\ 1 \in Lots
  BY <1>1, SeedingAssumption DEF Lots
<1>6. PlaceOK'
  <2> SUFFICES ASSUME NEW j \in Instances
               PROVE  /\ at'[j].pc = "spot" => /\ at'[j].cap \in Capacities
                                               /\ at'[j].next \in 1..at'[j].cap
                                               /\ capacity[at'[j].lot] # 0
                      /\ Seeds(j)' => j \in seeders
    BY <1>2, <1>5 DEF PlaceOK
  <2>1. CASE j # i
    BY <1>3, <2>1 DEF SeedingInv, PlaceOK, Seeds
  <2>2. CASE j = i
    <3>1. cap \in Capacities
      BY <1>1 DEF SeedingInv, PlaceOK
    <3>2. CASE t.pc = "spot"
      <4>1. t.next \in 1..t.cap /\ t.cap \in Capacities /\ t.lot = k
        BY <1>1, <1>3, <3>1, <3>2
      <4> QED
        BY <1>1, <1>3, <2>2, <4>1
    <3>3. CASE t.pc # "spot"
      BY <1>1, <1>3, <2>2, <3>3
    <3> QED
      BY <3>2, <3>3
  <2> QED
    BY <2>1, <2>2
<1>7. RowsHaveLots'
  BY <1>1, <1>2 DEF SeedingInv, RowsHaveLots
<1>8. SpotsAhead'
  <2> SUFFICES ASSUME ~cut, NEW l \in Lots, NEW n \in 1..capacity[l],
                      <<l, n>> \notin spots'
               PROVE  \E j \in Instances : /\ at'[j].pc = "spot" /\ at'[j].lot = l
                                           /\ at'[j].next <= n /\ n <= at'[j].cap
    BY <1>2 DEF SpotsAhead
  <2>1. <<l, n>> \notin spots /\ ~(l = k /\ n = x)
    BY <1>2
  <2>2. PICK j \in Instances : /\ at[j].pc = "spot" /\ at[j].lot = l
                               /\ at[j].next <= n /\ n <= at[j].cap
    BY <2>1 DEF SeedingInv, SpotsAhead
  <2>3. CASE j # i
    BY <1>3, <2>2, <2>3
  <2>4. CASE j = i
    <3>1. capacity[l] \in Nat /\ n \in Nat
      <4>1. capacity[l] \in Capacities \cup {0}
        BY DEF SeedingInv, SeedingTypeOK
      <4>2. capacity[l] \in Nat
        BY <4>1, CapacityFact
      <4>3. \A c \in Nat : \A e \in 1..c : e \in Nat
        OBVIOUS
      <4> QED
        BY <4>2, <4>3
    <3>2. l = k /\ x <= n /\ n <= cap /\ n # x
      BY <2>1, <2>2, <2>4
    <3> QED
      BY <1>1, <1>3, <3>1, <3>2
  <2> QED
    BY <2>3, <2>4
<1>9. LotsAhead'
  <2> SUFFICES ASSUME ~cut, NEW m \in Lots, capacity[m] = 0
               PROVE  \E j \in Instances :
                         \/ at'[j].pc = "spot" /\ at'[j].lot < m
                         \/ at'[j].pc = "lot" /\ 1 < at'[j].lot /\ at'[j].lot <= m
    BY <1>2 DEF LotsAhead
  <2>1. ~Empty
    BY <1>5 DEF Empty
  <2>2. PICK j \in Instances :
           \/ at[j].pc = "spot" /\ at[j].lot < m
           \/ at[j].pc = "lot" /\ 1 < at[j].lot /\ at[j].lot <= m
    BY <2>1 DEF SeedingInv, LotsAhead
  <2>3. CASE j # i
    BY <1>3, <2>2, <2>3
  <2>4. CASE j = i
    <3>1. k < m /\ m <= N /\ m \in Nat
      BY <1>1, <2>2, <2>4, SeedingAssumption DEF Lots
    <3> QED
      BY <1>1, <1>3, <3>1, SeedingAssumption
  <2> QED
    BY <2>3, <2>4
<1>10. AllBehind'
  <2> SUFFICES ASSUME \A j1, j2 \in seeders : j1 = j2,
                      NEW j \in Instances, Seeds(j)',
                      NEW l \in Lots, NEW n \in Nat, <<l, n>> \in spots'
               PROVE  \/ l < at'[j].lot
                      \/ l = at'[j].lot /\ at'[j].pc = "spot" /\ n < at'[j].next
    BY <1>2 DEF AllBehind
  <2>1. j = i
    BY <1>1, <1>2, <1>6 DEF PlaceOK
  <2>2. (l = k /\ n = x) \/ l < k \/ (l = k /\ n < x)
    <3>1. CASE <<l, n>> = <<k, x>>
      BY <3>1
    <3>2. CASE <<l, n>> \in spots
      BY <1>1, <3>2 DEF SeedingInv, AllBehind, Seeds
    <3> QED
      BY <1>2, <3>1, <3>2
  <2>3. t.pc \in {"lot", "spot"}
    BY <1>3, <2>1 DEF Seeds
  <2> QED
    BY <1>1, <1>3, <2>1, <2>2, <2>3 DEF Lots
<1> QED
  BY <1>4, <1>6, <1>7, <1>8, <1>9, <1>10 DEF SeedingInv

\* What clients do adds no row and moves no instance; a status is written
\* only where there is a row.
LEMMA ClientKeepsInv ==
    ASSUME SeedingInv, ClientStep
    PROVE  SeedingInv'
<1>1. UNCHANGED <<capacity, spots, at, cut, seeders>>
  BY DEF ClientStep, BookSpot, DeleteBooking, DeleteInactive, WriteStatus,
         StatusNotWritten, rows
<1>2. SeedingTypeOK'
  <2>1. ASSUME NEW q \in Requests, NEW s \in Bookable,
               BookSpot(q, s) \/ DeleteBooking(q, s) \/ DeleteInactive(q, s)
        PROVE  SeedingTypeOK'
    BY <1>1, <2>1 DEF SeedingInv, SeedingTypeOK, BookSpot, DeleteBooking, DeleteInactive, rows
  <2>2. ASSUME NEW w \in owed, WriteStatus(w) \/ StatusNotWritten(w)
        PROVE  SeedingTypeOK'
    BY <1>1, <2>2 DEF SeedingInv, SeedingTypeOK, WriteStatus, StatusNotWritten, rows
  <2> QED
    BY <2>1, <2>2 DEF ClientStep
<1> QED
  BY <1>1, <1>2 DEF SeedingInv, PlaceOK, Seeds, RowsHaveLots, SpotsAhead, LotsAhead,
                    AllBehind, Empty

LEMMA SeedingInvStep == SeedingInv /\ [SeedingNext]_vars => SeedingInv'
<1> SUFFICES ASSUME SeedingInv, [SeedingNext]_vars PROVE SeedingInv'
  OBVIOUS
<1>1. CASE UNCHANGED vars
  BY <1>1 DEF vars, rows, clients, SeedingInv, SeedingTypeOK, PlaceOK, Seeds, RowsHaveLots,
              SpotsAhead, LotsAhead, AllBehind, Empty
<1>2. ASSUME NEW i \in Instances, Construct(i)
      PROVE  SeedingInv'
  <2>1. Goto(i, "count") /\ cut' = (cut \/ HasWritten(i)) /\ UNCHANGED <<rows, clients, seeders>>
    BY <1>2 DEF Construct, HasWritten, At, SeedingInv, SeedingTypeOK
  <2> QED
    BY <2>1, LeaveKeepsInv
<1>3. ASSUME NEW i \in Instances, StatementFails(i) \/ Crash(i)
      PROVE  SeedingInv'
  BY <1>3, LeaveKeepsInv DEF StatementFails, Crash, AfterException
<1>4. ASSUME NEW i \in Instances, StartupStep(i)
      PROVE  SeedingInv'
  BY <1>3, <1>4, CountKeepsInv, SeedLotKeepsInv, SeedSpotKeepsInv DEF StartupStep
<1> QED
  BY <1>1, <1>2, <1>3, <1>4, ClientKeepsInv DEF SeedingNext

LEMMA SeedingInvariant == SeedingSpec => []SeedingInv
BY SeedingInvInit, SeedingInvStep, PTL DEF SeedingSpec

-----------------------------------------------------------------------------
(* Theorems                                                                *)

\* Rows, start-up records and history stay well-typed.
THEOREM SeedingTypeCorrect == SeedingSpec => []SeedingTypeOK
BY SeedingInvariant, PTL DEF SeedingInv

\* However many instances find the table empty and draw capacities of their
\* own, once all are done every lot has its row and all spots of that row, as
\* long as none was cut short.
THEOREM InventoryIsComplete == SeedingSpec => []InventoryComplete
<1>1. SeedingInv => InventoryComplete
  <2> SUFFICES ASSUME SeedingInv, ~cut, ~SeedingGoesOn, ~Empty, NEW l \in Lots
               PROVE  /\ capacity[l] # 0
                      /\ \A n \in 1..capacity[l] : <<l, n>> \in spots
    BY DEF InventoryComplete
  <2>1. \A j \in Instances : at[j].pc \notin {"lot", "spot"}
    BY DEF SeedingGoesOn
  <2>2. capacity[l] # 0
    BY <2>1 DEF SeedingInv, LotsAhead
  <2>3. \A n \in 1..capacity[l] : <<l, n>> \in spots
    BY <2>1 DEF SeedingInv, SpotsAhead
  <2> QED
    BY <2>2, <2>3
<1> QED
  BY <1>1, SeedingInvariant, PTL

\* A seeding takes the mark off a booked spot only after two instances have
\* found the table empty, whatever clients' status writes arrive in between.
THEOREM MarksAreResetByRaces == SeedingSpec => OnlyARaceResetsMarks
<1> DEFINE Resets(i, s) == SeedSpot(i) /\ s \in occupied /\ s \notin occupied'
           ByARace == \A i \in Instances, s \in held :
                         Resets(i, s) => \E j, k \in seeders : j # k
<1>1. ASSUME SeedingInv, NEW i \in Instances, NEW s \in held, Resets(i, s)
      PROVE  \E j, k \in seeders : j # k
  <2>1. s = <<at[i].lot, at[i].next>> /\ at[i].pc = "spot"
    BY <1>1 DEF SeedSpot, At
  <2>2. /\ s \in spots /\ at[i].lot \in Lots /\ at[i].lot \in Nat /\ at[i].next \in Nat
    BY <1>1, <2>1 DEF SeedingInv, SeedingTypeOK, Start, Lots
  <2>3. ~ \/ at[i].lot < at[i].lot
          \/ at[i].lot = at[i].lot /\ at[i].pc = "spot" /\ at[i].next < at[i].next
    BY <2>2
  <2> QED
    BY <1>1, <2>1, <2>2, <2>3 DEF SeedingInv, AllBehind, Seeds
<1>2. SeedingInv => ByARace
  BY <1>1
<1> QED
  BY <1>2, SeedingInvariant, PTL DEF SeedingSpec, OnlyARaceResetsMarks
=============================================================================

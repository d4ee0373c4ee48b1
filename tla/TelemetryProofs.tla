--------------------------- MODULE TelemetryProofs ---------------------------
(***************************************************************************)
(* Proofs about Telemetry, for any set of lots of any capacities, any W    *)
(* and threshold, and any number of failures: the counts the simulator     *)
(* publishes are always valid, the rule engine in the IoT path is the      *)
(* RuleEngine of RuleEngineProofs, so its theorems hold here, and a path   *)
(* on which nothing failed shows the engine the newest reading of a lot.   *)
(***************************************************************************)
EXTENDS Telemetry, RuleEngineProofs, Integers

-----------------------------------------------------------------------------
(* data_simulator                                                          *)

LEMMA WithinBoundsIsBetween ==
    ASSUME NEW c \in Nat, NEW n \in Int
    PROVE  Sim!WithinBounds(c, n) \in 0..c
BY DEF Sim!WithinBounds

LEMMA NextOccupiedIsBetween ==
    ASSUME NEW c \in Nat, NEW o \in 0..c, NEW delta \in Int
    PROVE  Sim!NextOccupied(c, o, delta) \in 0..c
<1>1. Sim!Halved(delta) \in Int
  BY DEF Sim!Halved
<1>2. Sim!Dampened(c, delta) \in Int
  BY <1>1 DEF Sim!Dampened
<1>3. o + Sim!Dampened(c, delta) \in Int
  BY <1>2
<1> QED BY <1>3, WithinBoundsIsBetween DEF Sim!NextOccupied

LEMMA InitialOccupiedIsBetween ==
    ASSUME NEW c \in Nat \ {0}, NEW o \in Sim!InitialOccupied(c)
    PROVE  o \in 0..c
<1>1. (20 * c) \div 100 \in Int /\ (80 * c) \div 100 \in Int
  OBVIOUS
<1>2. (20 * c) \div 100 >= 0 /\ (80 * c) \div 100 <= c
  OBVIOUS
<1>3. o \in (20 * c) \div 100 .. (80 * c) \div 100
  BY DEF Sim!InitialOccupied
<1> QED BY <1>1, <1>2, <1>3

LEMMA SimInitConsistent == Sim!SimInit => Sim!CountsConsistent
<1> SUFFICES ASSUME Sim!SimInit, NEW d \in Devices
             PROVE  /\ occupied[d] \in 0..Capacity[d]
                    /\ free[d] \in 0..Capacity[d]
                    /\ occupied[d] + free[d] = Capacity[d]
  BY DEF Sim!CountsConsistent
<1>1. Capacity[d] \in Nat \ {0}
  BY TelemetryAssumption
<1>2. occupied[d] \in 0..Capacity[d]
  BY <1>1, InitialOccupiedIsBetween DEF Sim!SimInit
<1>3. free[d] = Capacity[d] - occupied[d]
  BY DEF Sim!SimInit
<1> QED BY <1>1, <1>2, <1>3

LEMMA UpdateConsistent ==
    Sim!CountsConsistent /\ Sim!Update => Sim!CountsConsistent'
<1> SUFFICES ASSUME Sim!CountsConsistent, Sim!Update, NEW d \in Devices
             PROVE  /\ occupied'[d] \in 0..Capacity[d]
                    /\ free'[d] \in 0..Capacity[d]
                    /\ occupied'[d] + free'[d] = Capacity[d]
  BY DEF Sim!CountsConsistent
<1>1. Capacity[d] \in Nat
  BY TelemetryAssumption
<1>2. PICK delta :
         /\ delta[d] \in Sim!Delta(Capacity[d], occupied[d])
         /\ occupied'[d] = Sim!NextOccupied(Capacity[d], occupied[d], delta[d])
         /\ free'[d] = Capacity[d] - occupied'[d]
  BY DEF Sim!Update
<1>3. delta[d] \in Int
  BY <1>2 DEF Sim!Delta
<1>4. occupied'[d] \in 0..Capacity[d]
  BY <1>1, <1>2, <1>3, NextOccupiedIsBetween DEF Sim!CountsConsistent
<1> QED BY <1>1, <1>2, <1>4

-----------------------------------------------------------------------------
(* The path                                                                *)

Readings == [device : Devices, level : Levels]

PathInv ==
    /\ Sim!CountsConsistent
    /\ iotTopic \in Seq(Readings)
    /\ ruleTopic \in Seq(Readings)

LEMMA MessageIsReading ==
    ASSUME Sim!CountsConsistent, NEW d \in Devices
    PROVE  Message(d) \in Readings
<1>1. free[d] \in Nat
  BY TelemetryAssumption DEF Sim!CountsConsistent
<1> QED BY <1>1, TelemetryAssumption DEF Message, Level, Readings, Levels

LEMMA PublishedIsTopic ==
    ASSUME NEW topic \in Seq(Readings), NEW m \in Readings, NEW c
    PROVE  Published(topic, m, c) \in Seq(Readings)
BY DEF Published

LEMMA PathStep == PathInv /\ [TelemetryNext]_vars => PathInv'
<1> SUFFICES ASSUME PathInv, [TelemetryNext]_vars PROVE PathInv'
  OBVIOUS
<1>0. /\ Sim!CountsConsistent
      /\ iotTopic \in Seq(Readings) /\ ruleTopic \in Seq(Readings)
  BY DEF PathInv
<1>s. UNCHANGED <<occupied, free>> => Sim!CountsConsistent'
  BY <1>0 DEF Sim!CountsConsistent
<1>1. CASE Cycle
  BY <1>0, <1>1, UpdateConsistent DEF Cycle, PathInv
<1>2. ASSUME NEW d \in Devices, Publish(d) PROVE PathInv'
  <2>1. Message(d) \in Readings
    BY <1>0, MessageIsReading
  <2>2. iotTopic' \in Seq(Readings)
    BY <1>0, <1>2, <2>1, PublishedIsTopic DEF Publish
  <2> QED BY <1>0, <1>2, <1>s, <2>2 DEF Publish, PathInv
<1>3. CASE Forward
  <2>1. Head(iotTopic) \in Readings /\ Tail(iotTopic) \in Seq(Readings)
    BY <1>0, <1>3 DEF Forward
  <2>2. iotTopic' \in Seq(Readings)
    BY <1>3, <2>1 DEF Forward
  <2>3. ruleTopic' \in Seq(Readings)
    BY <1>0, <1>3, <2>1, PublishedIsTopic DEF Forward
  <2> QED BY <1>3, <1>s, <2>2, <2>3 DEF Forward, PathInv, simVars
<1>4. CASE Receive
  <2>1. Tail(ruleTopic) \in Seq(Readings)
    BY <1>0, <1>4 DEF Receive
  <2> QED BY <1>0, <1>4, <1>s, <2>1 DEF Receive, PathInv, simVars
<1>5. CASE Store \/ StoreFails \/ Write \/ WriteFails
  BY <1>0, <1>5, <1>s DEF Store, StoreFails, Write, WriteFails, PathInv, simVars
<1>6. ASSUME NEW c \in Subscribers, LinkNext(c) \/ StartAgain(c) PROVE PathInv'
  BY <1>0, <1>6, <1>s DEF LinkNext, Reconnect, OnConnect, StartAgain, PathInv, simVars
<1>7. ASSUME NEW c, LoseTopic(c), UNCHANGED simVars PROVE PathInv'
  <2>1. <<>> \in Seq(Readings)
    OBVIOUS
  <2>2. iotTopic' \in {<<>>, iotTopic} /\ ruleTopic' \in {<<>>, ruleTopic}
    BY <1>7 DEF LoseTopic
  <2>3. Sim!CountsConsistent'
    BY <1>7, <1>s DEF simVars
  <2> QED BY <1>0, <2>1, <2>2, <2>3 DEF PathInv
<1>8. CASE StopController \/ StopEngine
  BY <1>7, <1>8 DEF StopController, StopEngine
<1>9. ASSUME NEW c \in Subscribers, Disconnect(c) PROVE PathInv'
  BY <1>7, <1>9 DEF Disconnect
<1>10. CASE UNCHANGED vars
  BY <1>0, <1>10, <1>s DEF vars, simVars, PathInv
<1> QED BY <1>1, <1>2, <1>3, <1>4, <1>5, <1>6, <1>8, <1>9, <1>10
        DEF TelemetryNext, SimNext, ControllerNext, EngineProgress, Failure

LEMMA PathInitInv == TelemetryInit => PathInv
<1> SUFFICES ASSUME TelemetryInit PROVE PathInv
  OBVIOUS
<1>1. Sim!CountsConsistent
  BY SimInitConsistent DEF TelemetryInit
<1>2. iotTopic = <<>> /\ ruleTopic = <<>>
  BY DEF TelemetryInit
<1>3. <<>> \in Seq(Readings)
  OBVIOUS
<1> QED BY <1>1, <1>2, <1>3 DEF PathInv

\* Free and occupied spots, as published, always lie within the capacity and
\* add up to it, whatever trend, noise and damping come to
\* (data_simulator.py:105-140).
THEOREM CountsAlwaysConsistent == TelemetrySpec => []Sim!CountsConsistent
<1>1. PathInv => Sim!CountsConsistent
  BY DEF PathInv
<1> QED BY <1>1, PathInitInv, PathStep, PTL DEF TelemetrySpec

\* So validate_data of the controller never rejects a reading of the
\* simulator.
THEOREM ReadingsAreValid == TelemetrySpec => []NoReadingRejected
<1>1. PathInv => NoReadingRejected
  <2> SUFFICES ASSUME PathInv, NEW i \in 1..Len(iotTopic) PROVE Valid(iotTopic[i])
    BY DEF NoReadingRejected
  <2>1. iotTopic[i] \in Readings
    BY DEF PathInv
  <2> QED BY <2>1 DEF Valid, Readings, Levels
<1> QED BY <1>1, PathInitInv, PathStep, PTL DEF TelemetrySpec

-----------------------------------------------------------------------------
LEMMA EveryStepIsEngines == PathInv /\ [TelemetryNext]_vars => [EngineNext]_engineVars
<1> SUFFICES ASSUME PathInv, [TelemetryNext]_vars PROVE [EngineNext]_engineVars
  OBVIOUS
<1>1. CASE Cycle \/ Forward \/ Store \/ StoreFails \/ StopController
  BY <1>1 DEF Cycle, Forward, Store, StoreFails, StopController
<1>2. ASSUME NEW d \in Devices, Publish(d) PROVE UNCHANGED engineVars
  BY <1>2 DEF Publish
<1>3. CASE Receive
  <2>1. Head(ruleTopic) \in Readings
    BY <1>3 DEF Receive, PathInv
  <2>2. Head(ruleTopic).device \in Devices
    BY <2>1 DEF Readings
  <2> QED BY <1>3, <2>2 DEF Receive, EngineNext
<1>4. CASE Write \/ WriteFails
  BY <1>4 DEF Write, WriteFails, EngineNext
<1>5. ASSUME NEW c \in Subscribers, LinkNext(c) \/ StartAgain(c) \/ Disconnect(c)
      PROVE  UNCHANGED engineVars
  BY <1>5 DEF LinkNext, Reconnect, OnConnect, StartAgain, Disconnect
<1>6. CASE StopEngine
  BY <1>6 DEF StopEngine, EngineNext
<1>7. CASE UNCHANGED vars
  BY <1>7 DEF vars
<1> QED BY <1>1, <1>2, <1>3, <1>4, <1>5, <1>6, <1>7
        DEF TelemetryNext, SimNext, ControllerNext, EngineProgress, Failure

\* The engine in the path, behind a lossy topic, with failing writes and a
\* process that stops, is the engine of module RuleEngine.
THEOREM ImplementsRuleEngine == TelemetrySpec => EngineSpec
<1>1. TelemetryInit => EngineInit
  BY DEF TelemetryInit
<1> QED BY <1>1, PathInitInv, PathStep, EveryStepIsEngines, PTL
        DEF TelemetrySpec, EngineSpec

\* Its alerts are sound and exact and its windows bounded in the whole path.
THEOREM RulesHoldInThePath ==
    TelemetrySpec => [](LastingAlertSound /\ LastingAlertExact /\ WindowBounded)
BY ImplementsRuleEngine, AlertsAreSound, AlertsAreExact, WindowsAreBounded, PTL

-----------------------------------------------------------------------------
(* While nothing fails, no reading overtakes another and none is lost once *)
(* the three processes are connected: the newest reading of a lot, where   *)
(* ever on the path it is, is the one the simulator took last.             *)

Without(s, d) == \A i \in 1..Len(s) : s[i].device # d

NewestIs(s, d, l) ==
    \A i \in 1..Len(s) :
        s[i].device = d /\ (\A j \in (i + 1)..Len(s) : s[j].device # d)
            => s[i].level = l

NewestKept(w, l) == w # <<>> => w[Len(w)] = l

\* The path is read from its source on: the first place that holds a reading
\* of the lot holds the newest one.
PathShows(d) ==
    LET l == Level(free[d]) IN
    /\ NewestIs(iotTopic, d, l)
    /\ Without(iotTopic, d) => NewestIs(ruleTopic, d, l)
    /\ Without(iotTopic, d) /\ Without(ruleTopic, d) =>
         IF AtInstant(d) THEN l = "high" ELSE NewestKept(window[d], l)

EngineEmpty == ruleTopic = <<>> /\ task = Idle /\ \A d \in Devices : window[d] = <<>>

\* Before the first connection of a process nothing has passed it.
NothingPassed ==
    /\ \A c \in Subscribers : link[c] \in {"joining", "up"}
    /\ link["controller"] = "joining" => iotTopic = <<>> /\ EngineEmpty
    /\ link["engine"] = "joining" => EngineEmpty

FlowInv ==
    /\ faults \in Nat
    /\ link \in [Subscribers -> Links]
    /\ faults = 0 => NothingPassed /\ \A d \in Devices \ toSend : PathShows(d)

LEMMA NewestAppendOwn ==
    ASSUME NEW s \in Seq(Readings), NEW m \in Readings
    PROVE  /\ NewestIs(Append(s, m), m.device, m.level)
           /\ ~Without(Append(s, m), m.device)
<1>1. /\ Len(Append(s, m)) = Len(s) + 1 /\ Len(s) \in Nat
      /\ Append(s, m)[Len(s) + 1] = m
      /\ \A i \in 1..Len(s) : Append(s, m)[i] = s[i]
  OBVIOUS
<1>2. ASSUME NEW i \in 1..(Len(s) + 1), i # Len(s) + 1
      PROVE  Len(s) + 1 \in (i + 1)..(Len(s) + 1)
  BY <1>1, <1>2
<1>3. NewestIs(Append(s, m), m.device, m.level)
  BY <1>1, <1>2 DEF NewestIs
<1>4. Len(s) + 1 \in 1..(Len(s) + 1)
  BY <1>1
<1> QED BY <1>1, <1>3, <1>4 DEF Without

LEMMA NewestAppendOther ==
    ASSUME NEW s \in Seq(Readings), NEW m \in Readings, NEW d, d # m.device, NEW l
    PROVE  /\ NewestIs(s, d, l) => NewestIs(Append(s, m), d, l)
           /\ Without(Append(s, m), d) <=> Without(s, d)
<1>1. /\ Len(Append(s, m)) = Len(s) + 1 /\ Len(s) \in Nat
      /\ Append(s, m)[Len(s) + 1] = m
      /\ \A i \in 1..Len(s) : Append(s, m)[i] = s[i]
  OBVIOUS
<1>2. /\ \A i \in 1..(Len(s) + 1) : i \in 1..Len(s) \/ i = Len(s) + 1
      /\ \A i \in 1..Len(s) : i \in 1..(Len(s) + 1)
      /\ \A i \in 1..Len(s) : \A j \in (i + 1)..Len(s) :
            j \in 1..Len(s) /\ j \in (i + 1)..(Len(s) + 1)
  BY <1>1
<1>3. ASSUME NewestIs(s, d, l) PROVE NewestIs(Append(s, m), d, l)
  <2> SUFFICES ASSUME NEW i \in 1..(Len(s) + 1), Append(s, m)[i].device = d,
                      \A j \in (i + 1)..(Len(s) + 1) : Append(s, m)[j].device # d
               PROVE  Append(s, m)[i].level = l
    BY <1>1 DEF NewestIs
  <2>1. i \in 1..Len(s)
    BY <1>1, <1>2
  <2>2. \A j \in (i + 1)..Len(s) : s[j].device # d
    BY <1>1, <1>2, <2>1
  <2> QED BY <1>1, <1>3, <2>1, <2>2 DEF NewestIs
<1>4. Without(Append(s, m), d) <=> Without(s, d)
  BY <1>1, <1>2 DEF Without
<1> QED BY <1>3, <1>4

LEMMA NewestTail ==
    ASSUME NEW s \in Seq(Readings), s # <<>>, NEW d, NEW l, NewestIs(s, d, l)
    PROVE  /\ NewestIs(Tail(s), d, l)
           /\ Head(s).device # d => (Without(Tail(s), d) <=> Without(s, d))
           /\ Head(s).device = d /\ Without(Tail(s), d) => Head(s).level = l
           /\ Head(s).device = d => ~Without(s, d)
<1>1. /\ Len(s) \in Nat \ {0} /\ Len(Tail(s)) = Len(s) - 1 /\ Head(s) = s[1]
      /\ \A i \in 1..(Len(s) - 1) : Tail(s)[i] = s[i + 1]
  OBVIOUS
<1>2. \A i \in 1..(Len(s) - 1) : i + 1 \in 1..Len(s)
  BY <1>1
<1>3. \A j \in 2..Len(s) : j - 1 \in 1..(Len(s) - 1) /\ s[j] = Tail(s)[j - 1]
  BY <1>1
<1>4. NewestIs(Tail(s), d, l)
  <2> SUFFICES ASSUME NEW i \in 1..(Len(s) - 1), Tail(s)[i].device = d,
                      \A j \in (i + 1)..(Len(s) - 1) : Tail(s)[j].device # d
               PROVE  Tail(s)[i].level = l
    BY <1>1 DEF NewestIs
  <2>1. ASSUME NEW j \in ((i + 1) + 1)..Len(s) PROVE s[j].device # d
    <3>1. j \in 2..Len(s) /\ j - 1 \in (i + 1)..(Len(s) - 1)
      BY <1>1
    <3> QED BY <1>3, <3>1
  <2>2. i + 1 \in 1..Len(s) /\ s[i + 1] = Tail(s)[i]
    BY <1>1, <1>2
  <2> QED BY <2>1, <2>2 DEF NewestIs
<1>5. ASSUME Head(s).device # d PROVE Without(Tail(s), d) <=> Without(s, d)
  <2>1. \A i \in 1..Len(s) : i = 1 \/ i \in 2..Len(s)
    BY <1>1
  <2> QED BY <1>1, <1>2, <1>3, <1>5, <2>1 DEF Without
<1>6. ASSUME Head(s).device = d, Without(Tail(s), d) PROVE Head(s).level = l
  <2>1. 1 \in 1..Len(s) /\ \A j \in (1 + 1)..Len(s) : j \in 2..Len(s)
    BY <1>1
  <2>2. \A j \in (1 + 1)..Len(s) : s[j].device # d
    BY <1>1, <1>3, <1>6, <2>1 DEF Without
  <2> QED BY <1>1, <1>6, <2>1, <2>2 DEF NewestIs
<1>7. 1 \in 1..Len(s)
  BY <1>1
<1> QED BY <1>1, <1>4, <1>5, <1>6, <1>7 DEF Without

LEMMA NothingNewest ==
    ASSUME NEW d, NEW l
    PROVE  NewestIs(<<>>, d, l) /\ Without(<<>>, d)
BY DEF NewestIs, Without

\* The window after a reading: the reading, or nothing, is the newest kept.
LEMMA JudgeKeepsNewest ==
    ASSUME NEW w \in Seq(Levels), NEW x \in Levels
    PROVE  /\ NewestKept(Append(w, x), x)
           /\ NewestKept(Tail(Append(w, x)), x)
<1>1. /\ Len(Append(w, x)) = Len(w) + 1 /\ Append(w, x)[Len(w) + 1] = x
      /\ Len(w) \in Nat /\ Append(w, x) # <<>>
  OBVIOUS
<1>2. /\ Len(Tail(Append(w, x))) = Len(w)
      /\ \A i \in 1..Len(w) : Tail(Append(w, x))[i] = Append(w, x)[i + 1]
  BY <1>1
<1>3. Tail(Append(w, x)) \in Seq(Levels)
  BY <1>1
<1>4. Tail(Append(w, x)) # <<>> => Len(w) \in 1..Len(w)
  BY <1>1, <1>2, <1>3
<1> QED BY <1>1, <1>2, <1>4 DEF NewestKept

\* What Judge does to the window of its lot and to the others.
LEMMA JudgeFlow ==
    ASSUME window \in [Devices -> Seq(Levels)], NEW e \in Devices, NEW x \in Levels,
           Judge(e, Append(window[e], x))
    PROVE  /\ NewestKept(window'[e], x)
           /\ \A d \in Devices \ {e} : window'[d] = window[d]
           /\ \A d \in Devices : ~AtInstant(d)'
<1> DEFINE w == Append(window[e], x)
<1>1. NewestKept(w, x) /\ NewestKept(Tail(w), x)
  BY JudgeKeepsNewest
<1>2. /\ \/ window' = [window EXCEPT ![e] = w]
         \/ window' = [window EXCEPT ![e] = Tail(w)]
      /\ task' = Idle \/ task'.pc = "lasting"
  BY DEF Judge, Popped
<1>3. /\ window'[e] = w \/ window'[e] = Tail(w)
      /\ \A d \in Devices \ {e} : window'[d] = window[d]
  BY <1>2
<1>4. NewestKept(window'[e], x)
  BY <1>1, <1>3
<1>5. \A d \in Devices : ~AtInstant(d)'
  BY <1>2 DEF AtInstant, Idle
<1> QED BY <1>3, <1>4, <1>5

\* A step inside the rule engine, with nothing lost, and the message it takes.
LEMMA ReceiveShows ==
    ASSUME EngineTypeOK, PathInv, Receive, NEW d \in Devices, PathShows(d)
    PROVE  PathShows(d)'
<1> DEFINE m == Head(ruleTopic)
           l == Level(free[d])
<1>1. /\ ruleTopic \in Seq(Readings) /\ ruleTopic # <<>> /\ m \in Readings
      /\ iotTopic' = iotTopic /\ free' = free /\ ruleTopic' = Tail(ruleTopic)
      /\ window \in [Devices -> Seq(Levels)] /\ task.pc = "idle"
  BY DEF Receive, PathInv, EngineTypeOK, simVars, ReceiveLow, ReceiveHigh
<1>2. m.device \in Devices /\ m.level \in Levels
  BY <1>1 DEF Readings
<1>3. /\ NewestIs(iotTopic, d, l)
      /\ Without(iotTopic, d) => NewestIs(ruleTopic, d, l)
      /\ Without(iotTopic, d) /\ Without(ruleTopic, d) =>
           IF AtInstant(d) THEN l = "high" ELSE NewestKept(window[d], l)
  BY DEF PathShows
<1>4. Level(free[d])' = l
  BY <1>1 DEF Level
<1>5. SUFFICES ASSUME Without(iotTopic, d)
               PROVE  /\ NewestIs(ruleTopic', d, l)
                      /\ Without(ruleTopic', d) =>
                           IF AtInstant(d)' THEN l = "high" ELSE NewestKept(window'[d], l)
  BY <1>1, <1>3, <1>4 DEF PathShows
<1>6. NewestIs(ruleTopic, d, l)
  BY <1>3, <1>5
<1>7. /\ NewestIs(ruleTopic', d, l)
      /\ m.device # d => (Without(ruleTopic', d) <=> Without(ruleTopic, d))
      /\ m.device = d /\ Without(ruleTopic', d) => m.level = l
  BY <1>1, <1>6, NewestTail
<1>8. ~AtInstant(d)
  BY <1>1 DEF AtInstant
<1>9. ASSUME m.level = "low", ReceiveLow(m.device), Without(ruleTopic', d)
      PROVE  IF AtInstant(d)' THEN l = "high" ELSE NewestKept(window'[d], l)
  <2>1. Judge(m.device, Append(window[m.device], m.level))
    BY <1>9 DEF ReceiveLow
  <2>2. /\ NewestKept(window'[m.device], m.level)
        /\ d # m.device => window'[d] = window[d]
        /\ ~AtInstant(d)'
    BY <1>1, <1>2, <2>1, JudgeFlow
  <2>3. CASE d = m.device
    BY <1>7, <1>9, <2>2, <2>3
  <2>4. CASE d # m.device
    <3>1. Without(ruleTopic, d)
      BY <1>7, <1>9, <2>4
    <3> QED BY <1>3, <1>5, <1>8, <2>2, <2>4, <3>1
  <2> QED BY <2>3, <2>4
<1>10. ASSUME m.level = "high", ReceiveHigh(m.device), Without(ruleTopic', d)
       PROVE  IF AtInstant(d)' THEN l = "high" ELSE NewestKept(window'[d], l)
  <2>1. task' = [pc |-> "instant", device |-> m.device] /\ window' = window
    BY <1>10 DEF ReceiveHigh
  <2>2. CASE d = m.device
    <3>1. l = "high"
      BY <1>7, <1>10, <2>2
    <3>2. AtInstant(d)'
      BY <2>1, <2>2 DEF AtInstant
    <3> QED BY <3>1, <3>2
  <2>3. CASE d # m.device
    <3>1. Without(ruleTopic, d)
      BY <1>7, <1>10, <2>3
    <3>2. ~AtInstant(d)'
      BY <2>1, <2>3 DEF AtInstant
    <3> QED BY <1>3, <1>5, <1>8, <2>1, <3>1, <3>2
  <2> QED BY <2>2, <2>3
<1> QED BY <1>7, <1>9, <1>10 DEF Receive

LEMMA WriteShows ==
    ASSUME EngineInv, Write, NEW d \in Devices, PathShows(d)
    PROVE  PathShows(d)'
<1> DEFINE l == Level(free[d])
<1>1. /\ iotTopic' = iotTopic /\ free' = free /\ ruleTopic' = ruleTopic
      /\ window \in [Devices -> Seq(Levels)]
      /\ task \in {Idle} \cup [pc : {"instant", "lasting"}, device : Devices]
  BY DEF Write, EngineInv, EngineTypeOK, simVars
<1>2. Level(free[d])' = l
  BY <1>1 DEF Level
<1>3. SUFFICES ASSUME Without(iotTopic, d), Without(ruleTopic, d),
                      IF AtInstant(d) THEN l = "high" ELSE NewestKept(window[d], l)
               PROVE  IF AtInstant(d)' THEN l = "high" ELSE NewestKept(window'[d], l)
  BY <1>1, <1>2 DEF PathShows
<1>4. CASE InstantWritten
  <2>1. task.pc = "instant" /\ task.device \in Devices
    BY <1>1, <1>4 DEF InstantWritten, Idle
  <2>2. /\ NewestKept(window'[task.device], "high")
        /\ d # task.device => window'[d] = window[d]
        /\ ~AtInstant(d)'
    BY <1>1, <1>4, <2>1, JudgeFlow DEF InstantWritten, Levels
  <2>3. CASE d = task.device
    BY <1>3, <2>1, <2>2, <2>3 DEF AtInstant
  <2>4. CASE d # task.device
    BY <1>3, <2>2, <2>4 DEF AtInstant
  <2> QED BY <2>3, <2>4
<1>5. CASE LastingWritten
  <2>1. /\ task.pc = "lasting" /\ task' = Idle
        /\ window' = [window EXCEPT ![task.device] = Tail(@)]
    BY <1>5 DEF LastingWritten, Popped
  <2>2. /\ ~AtInstant(d) /\ ~AtInstant(d)'
        /\ window'[d] = window[d] \/ window'[d] = Tail(window[d])
    BY <1>1, <2>1 DEF AtInstant, Idle
  <2>3. NewestKept(window[d], l) /\ window[d] \in Seq(Levels)
    BY <1>1, <1>3, <2>2
  <2>4. ASSUME window[d] # <<>> PROVE NewestKept(Tail(window[d]), l)
    <3> DEFINE w == window[d]
               t == Tail(w)
    <3>1. /\ Len(w) \in Nat \ {0} /\ Len(t) = Len(w) - 1 /\ t \in Seq(Levels)
          /\ \A i \in 1..(Len(w) - 1) : t[i] = w[i + 1]
      BY <2>3, <2>4
    <3>2. t # <<>> => Len(t) \in 1..(Len(w) - 1) /\ Len(t) + 1 = Len(w)
      BY <3>1
    <3>3. w[Len(w)] = l
      BY <2>3, <2>4 DEF NewestKept
    <3>4. t # <<>> => t[Len(t)] = l
      BY <3>1, <3>2, <3>3
    <3> QED BY <3>4 DEF NewestKept
  <2>5. d = task.device => window[d] # <<>>
    <3>1. d = task.device => Len(window[d]) >= W /\ W \in Nat \ {0}
      BY <2>1, EngineAssumption DEF EngineInv, AtLasting
    <3> QED BY <3>1
  <2>6. d # task.device => window'[d] = window[d]
    BY <1>1, <2>1
  <2> QED BY <2>2, <2>3, <2>4, <2>5, <2>6
<1> QED BY <1>4, <1>5 DEF Write

LEMMA EmptyPathShows ==
    ASSUME iotTopic = <<>>, EngineEmpty, NEW d \in Devices
    PROVE  PathShows(d)
<1>1. ~AtInstant(d)
  BY DEF EngineEmpty, AtInstant, Idle
<1> QED BY <1>1, NothingNewest DEF EngineEmpty, PathShows, NewestKept

LEMMA ForwardShows ==
    ASSUME PathInv, NothingPassed, Forward, NEW d \in Devices, PathShows(d)
    PROVE  PathShows(d)'
<1> DEFINE m == Head(iotTopic)
           l == Level(free[d])
<1>1. /\ iotTopic \in Seq(Readings) /\ iotTopic # <<>> /\ m \in Readings
      /\ ruleTopic \in Seq(Readings) /\ iotTopic' = Tail(iotTopic)
      /\ free' = free /\ window' = window /\ task' = task
  BY DEF Forward, PathInv, simVars, engineVars
<1>2. Valid(m) /\ m.device \in Devices
  BY <1>1 DEF Valid, Readings, Levels
<1>3. /\ NewestIs(iotTopic, d, l)
      /\ Without(iotTopic, d) => NewestIs(ruleTopic, d, l)
      /\ Without(iotTopic, d) /\ Without(ruleTopic, d) =>
           IF AtInstant(d) THEN l = "high" ELSE NewestKept(window[d], l)
  BY DEF PathShows
<1>4. /\ NewestIs(iotTopic', d, l)
      /\ m.device # d => (Without(iotTopic', d) <=> Without(iotTopic, d))
      /\ m.device = d /\ Without(iotTopic', d) => m.level = l
  BY <1>1, <1>3, NewestTail
<1>5. Level(free[d])' = l /\ (AtInstant(d)' <=> AtInstant(d))
  BY <1>1 DEF Level, AtInstant
<1>6. link["controller"] = "up"
  BY <1>1 DEF NothingPassed, Subscribers
<1>7. CASE link["engine"] = "up"
  <2>1. ruleTopic' = Append(ruleTopic, m)
    BY <1>2, <1>6, <1>7 DEF Forward, Published
  <2>2. CASE m.device = d
    <3>1. NewestIs(ruleTopic', d, m.level) /\ ~Without(ruleTopic', d)
      BY <1>1, <2>1, <2>2, NewestAppendOwn
    <3> QED BY <1>4, <1>5, <2>2, <3>1 DEF PathShows
  <2>3. CASE m.device # d
    <3>1. /\ NewestIs(ruleTopic, d, l) => NewestIs(ruleTopic', d, l)
          /\ Without(ruleTopic', d) <=> Without(ruleTopic, d)
      BY <1>1, <2>1, <2>3, NewestAppendOther
    <3> QED BY <1>1, <1>3, <1>4, <1>5, <2>3, <3>1 DEF PathShows
  <2> QED BY <2>2, <2>3
<1>8. CASE link["engine"] = "joining"
  <2>1. EngineEmpty
    BY <1>8 DEF NothingPassed
  <2>2. ruleTopic' = <<>>
    BY <1>2, <1>6, <1>8, <2>1 DEF Forward, Published, EngineEmpty
  <2>3. NewestKept(window[d], l) /\ ~AtInstant(d)
    BY <2>1 DEF EngineEmpty, NewestKept, AtInstant, Idle
  <2>4. NewestIs(ruleTopic', d, l)
    BY <2>2, NothingNewest
  <2> QED BY <1>1, <1>4, <1>5, <2>3, <2>4 DEF PathShows
<1> QED BY <1>7, <1>8 DEF NothingPassed, Subscribers

LEMMA PublishShows ==
    ASSUME PathInv, NothingPassed, NEW e \in Devices, Publish(e),
           NEW d \in Devices, d # e => PathShows(d)
    PROVE  PathShows(d)'
<1> DEFINE m == Message(e)
           l == Level(free[d])
<1>1. /\ m \in Readings /\ m.device = e /\ m.level = Level(free[e])
      /\ iotTopic \in Seq(Readings) /\ ruleTopic' = ruleTopic
      /\ free' = free /\ window' = window /\ task' = task
  BY MessageIsReading DEF Publish, PathInv, engineVars, Message
<1>2. Level(free[d])' = l /\ (AtInstant(d)' <=> AtInstant(d))
  BY <1>1 DEF Level, AtInstant
<1>3. CASE link["controller"] = "up"
  <2>1. iotTopic' = Append(iotTopic, m)
    BY <1>3 DEF Publish, Published
  <2>2. CASE d = e
    <3>1. NewestIs(iotTopic', d, l) /\ ~Without(iotTopic', d)
      BY <1>1, <2>1, <2>2, NewestAppendOwn
    <3> QED BY <1>2, <3>1 DEF PathShows
  <2>3. CASE d # e
    <3>1. /\ NewestIs(iotTopic, d, l) => NewestIs(iotTopic', d, l)
          /\ Without(iotTopic', d) <=> Without(iotTopic, d)
      BY <1>1, <2>1, <2>3, NewestAppendOther
    <3> QED BY <1>1, <1>2, <2>3, <3>1 DEF PathShows
  <2> QED BY <2>2, <2>3
<1>4. CASE link["controller"] = "joining"
  <2>1. iotTopic = <<>> /\ EngineEmpty
    BY <1>4 DEF NothingPassed
  <2>2. iotTopic' = <<>> /\ EngineEmpty'
    BY <1>1, <1>4, <2>1 DEF Publish, Published, EngineEmpty, Idle
  <2>3. ~AtInstant(d)'
    BY <2>2 DEF EngineEmpty, AtInstant, Idle
  <2>4. NewestIs(iotTopic', d, l) /\ NewestIs(ruleTopic', d, l)
    BY <2>2, NothingNewest DEF EngineEmpty
  <2>5. NewestKept(window'[d], l)
    BY <2>2 DEF EngineEmpty, NewestKept
  <2> QED BY <1>2, <2>3, <2>4, <2>5 DEF PathShows
<1> QED BY <1>3, <1>4 DEF NothingPassed, Subscribers

LEMMA FlowStep ==
    EngineInv /\ PathInv /\ FlowInv /\ [TelemetryNext]_vars => FlowInv'
<1> SUFFICES ASSUME EngineInv, PathInv, FlowInv, [TelemetryNext]_vars PROVE FlowInv'
  OBVIOUS
<1>0. /\ faults \in Nat /\ link \in [Subscribers -> Links] /\ EngineTypeOK
      /\ window \in [Devices -> Seq(Levels)]
      /\ faults = 0 => NothingPassed /\ \A d \in Devices \ toSend : PathShows(d)
  BY DEF FlowInv, EngineInv, EngineTypeOK
\* A failure ends the promise.
<1>1. ASSUME faults' = faults + 1, link' \in [Subscribers -> Links] PROVE FlowInv'
  BY <1>0, <1>1 DEF FlowInv
<1>2. CASE Failure
  <2>1. faults' = faults + 1
    BY <1>2 DEF Failure, Fault, StoreFails, WriteFails, StopController, StopEngine, Disconnect
  <2>2. link' \in [Subscribers -> Links]
    BY <1>0, <1>2
    DEF Failure, StoreFails, WriteFails, StopController, StopEngine, Disconnect, Links
  <2> QED BY <1>1, <2>1, <2>2
<1>3. CASE Cycle
  <2>1. /\ faults' = faults /\ link' = link /\ toSend' = Devices
        /\ iotTopic' = iotTopic /\ ruleTopic' = ruleTopic /\ task' = task /\ window' = window
    BY <1>3 DEF Cycle, engineVars
  <2>2. NothingPassed => NothingPassed'
    BY <2>1 DEF NothingPassed, EngineEmpty, Idle
  <2> QED BY <1>0, <2>1, <2>2 DEF FlowInv
<1>4. ASSUME NEW e \in Devices, Publish(e) PROVE FlowInv'
  <2>1. /\ faults' = faults /\ link' = link /\ toSend' = toSend \ {e}
        /\ ruleTopic' = ruleTopic /\ task' = task /\ window' = window
        /\ link["controller"] = "joining" => iotTopic' = iotTopic
    BY <1>4 DEF Publish, Published, engineVars
  <2>2. NothingPassed => NothingPassed'
    BY <2>1 DEF NothingPassed, EngineEmpty, Idle
  <2>3. ASSUME faults = 0, NEW d \in Devices \ toSend' PROVE PathShows(d)'
    <3>1. d # e => PathShows(d)
      BY <1>0, <2>1, <2>3
    <3> QED BY <1>0, <1>4, <2>3, <3>1, PublishShows
  <2> QED BY <1>0, <2>1, <2>2, <2>3 DEF FlowInv
<1>5. CASE Forward
  <2>1. /\ faults' = faults /\ link' = link /\ toSend' = toSend
        /\ task' = task /\ window' = window
    BY <1>5 DEF Forward, engineVars, simVars
  <2>2. NothingPassed => NothingPassed'
    <3>1. NothingPassed => link["controller"] = "up"
      BY <1>5 DEF Forward, NothingPassed, Subscribers
    <3>2. link["engine"] = "joining" => ruleTopic' = ruleTopic
      BY <1>5 DEF Forward, Published
    <3> QED BY <2>1, <3>1, <3>2 DEF NothingPassed, EngineEmpty, Idle
  <2>3. ASSUME faults = 0, NEW d \in Devices \ toSend PROVE PathShows(d)'
    BY <1>0, <1>5, <2>3, ForwardShows
  <2> QED BY <1>0, <2>1, <2>2, <2>3 DEF FlowInv
<1>6. CASE Receive \/ Write
  <2>1. faults' = faults /\ link' = link /\ toSend' = toSend /\ iotTopic' = iotTopic
    BY <1>6 DEF Receive, Write, simVars
  <2>2. ~EngineEmpty
    BY <1>6 DEF Receive, Write, EngineEmpty, Idle, InstantWritten, LastingWritten
  <2>3. NothingPassed => NothingPassed'
    BY <2>1, <2>2 DEF NothingPassed
  <2>4. ASSUME faults = 0, NEW d \in Devices \ toSend PROVE PathShows(d)'
    BY <1>0, <1>6, <2>4, ReceiveShows, WriteShows
  <2> QED BY <1>0, <2>1, <2>3, <2>4 DEF FlowInv
<1>7. ASSUME UNCHANGED <<window, task, iotTopic, ruleTopic, free>>
      PROVE  /\ EngineEmpty => EngineEmpty'
             /\ \A d \in Devices : PathShows(d) => PathShows(d)'
  <2>1. EngineEmpty => EngineEmpty'
    BY <1>7 DEF EngineEmpty, Idle
  <2>2. ASSUME NEW d \in Devices, PathShows(d) PROVE PathShows(d)'
    BY <1>7, <2>2 DEF PathShows, AtInstant, Level, NewestIs, Without
  <2> QED BY <2>1, <2>2
<1>8. ASSUME NEW c \in Subscribers, LinkNext(c) \/ StartAgain(c) PROVE FlowInv'
  <2>1. /\ UNCHANGED <<window, task, iotTopic, ruleTopic, free>>
        /\ faults' = faults /\ toSend' = toSend
        /\ link' = [link EXCEPT ![c] = "joining"] \/ link' = [link EXCEPT ![c] = "up"]
        /\ link' # [link EXCEPT ![c] = "up"] => link[c] \in {"down", "stopped"}
    BY <1>8 DEF LinkNext, Reconnect, OnConnect, StartAgain, engineVars, simVars
  <2>2. link' \in [Subscribers -> Links]
    BY <1>0, <2>1 DEF Links
  <2>3. ASSUME NothingPassed PROVE NothingPassed'
    <3>1. link' = [link EXCEPT ![c] = "up"]
      BY <2>1, <2>3 DEF NothingPassed
    <3>2. /\ \A b \in Subscribers : link'[b] \in {"joining", "up"}
          /\ \A b \in Subscribers : link'[b] = "joining" => link[b] = "joining"
      BY <1>0, <2>3, <3>1 DEF NothingPassed
    <3> QED BY <1>7, <2>1, <2>3, <3>2 DEF NothingPassed, Subscribers
  <2> QED BY <1>0, <1>7, <2>1, <2>2, <2>3 DEF FlowInv
<1>9. CASE Store \/ UNCHANGED vars
  <2>1. /\ UNCHANGED <<window, task, iotTopic, ruleTopic, free>>
        /\ faults' = faults /\ toSend' = toSend /\ link' = link
    BY <1>9 DEF Store, vars, engineVars, simVars
  <2>2. NothingPassed => NothingPassed'
    BY <1>7, <2>1 DEF NothingPassed
  <2> QED BY <1>0, <1>7, <2>1, <2>2 DEF FlowInv
<1> QED BY <1>2, <1>3, <1>4, <1>5, <1>6, <1>8, <1>9
        DEF TelemetryNext, SimNext, ControllerNext, EngineProgress

LEMMA FlowInitInv == TelemetryInit => FlowInv
<1> SUFFICES ASSUME TelemetryInit PROVE FlowInv
  OBVIOUS
<1>1. /\ iotTopic = <<>> /\ EngineEmpty /\ faults = 0
      /\ link = [c \in Subscribers |-> "joining"]
  BY DEF TelemetryInit, EngineInit, EngineEmpty
<1>2. NothingPassed
  BY <1>1 DEF NothingPassed
<1>3. \A d \in Devices : PathShows(d)
  BY <1>1, EmptyPathShows
<1> QED BY <1>1, <1>2, <1>3 DEF FlowInv, Links

\* Once the path has drained and as long as nothing failed, the newest reading
\* the rule engine kept of a lot is the one the simulator took last: for any
\* number of lots, messages on their way and readings in a window, and for any
\* order in which the three processes connect.
THEOREM DrainedPathsAgree == TelemetrySpec => []DrainedViewsAgree
<1>1. FlowInv => DrainedViewsAgree
  <2> SUFFICES ASSUME FlowInv, Drained, faults = 0, NEW d \in Devices, window[d] # <<>>
               PROVE  window[d][Len(window[d])] = Level(free[d])
    BY DEF DrainedViewsAgree
  <2>1. PathShows(d) /\ iotTopic = <<>> /\ ruleTopic = <<>> /\ ~AtInstant(d)
    BY DEF FlowInv, Drained, AtInstant, Idle
  <2> QED BY <2>1, NothingNewest DEF PathShows, NewestKept
<1>2. EngineInit => EngineInv
  BY EngineInitInv
<1>3. TelemetryInit => EngineInit
  BY DEF TelemetryInit
<1> QED BY <1>1, <1>2, <1>3, EngineStep, EveryStepIsEngines, PathInitInv, PathStep,
           FlowInitInv, FlowStep, PTL DEF TelemetrySpec

-----------------------------------------------------------------------------
\* The simulator neither knows nor cares who listens: in the whole path it is
\* the DataSimulator, and every cycle starts from the counts of the one before.
THEOREM ImplementsSimulator == TelemetrySpec => Sim!SimSpec
<1>1. TelemetryInit => Sim!SimInit
  BY DEF TelemetryInit
<1>2. [TelemetryNext]_vars => [Sim!Update]_<<occupied, free>>
  BY DEF TelemetryNext, SimNext, ControllerNext, EngineProgress, LinkNext, Failure,
         Cycle, Publish, Forward, Store, StoreFails, Receive, Write, WriteFails,
         Disconnect, Reconnect, OnConnect, StopController, StopEngine, StartAgain,
         vars, simVars
<1> QED BY <1>1, <1>2, PTL DEF TelemetrySpec, Sim!SimSpec
=============================================================================

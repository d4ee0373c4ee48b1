------------------------------ MODULE Telemetry ------------------------------
(***************************************************************************)
(* The IoT path: data_simulator publishes readings on iot_topic,           *)
(* iot_controller validates each, republishes it on rule_engine_topic and  *)
(* stores it in InfluxDB, and rule_engine judges it.  MQTT at QoS 0 keeps  *)
(* the order of a topic and loses what a subscriber is not there to take.  *)
(* A topic is the messages on their way to its one subscriber.             *)
(***************************************************************************)
EXTENDS RuleEngine

CONSTANTS
    Capacity,       \* lot -> number of spots
    Threshold,      \* the 5 of "free_spots > 5"
    TopicBound,     \* bound: messages on their way in a topic
    MaxFaults       \* bound: failures of links, writes and processes

ASSUME TelemetryAssumption ==
    /\ Capacity \in [Devices -> Nat \ {0}]
    /\ Threshold \in Nat
    /\ TopicBound \in Nat \ {0}
    /\ MaxFaults \in Nat

VARIABLES
    occupied, free, \* data_simulator: counts of each lot
    toSend,         \* data_simulator: lots of this cycle not published yet
    iotTopic,       \* to the controller
    ruleTopic,      \* to the rule engine
    inHand,         \* controller: the message forwarded, not stored yet
    link,           \* subscriber -> its connection to the broker
    faults

simVars == <<occupied, free, toSend>>
vars == <<engineVars, simVars, iotTopic, ruleTopic, inHand, link, faults>>

Sim == INSTANCE DataSimulator

Subscribers == {"controller", "engine"}

\* "up": subscribed; "joining": connected, the answer of the broker to come;
\* "down": on_disconnect tries to reconnect; "stopped": no process.
Links == {"up", "joining", "down", "stopped"}

\* A reading as the rules and the validation tell them apart.
Level(n) == IF n < 0 THEN "invalid" ELSE IF n > Threshold THEN "high" ELSE "low"

Message(d) == [device |-> d, level |-> Level(free[d])]

\* QoS 0: a message for a subscriber that is not there is dropped.
Published(topic, m, subscriber) ==
    IF link[subscriber] = "up" THEN Append(topic, m) ELSE topic

TelemetryInit ==
    /\ EngineInit
    /\ Sim!SimInit
    /\ toSend = {}
    /\ iotTopic = <<>> /\ ruleTopic = <<>>
    /\ inHand = Nil
    /\ link = [c \in Subscribers |-> "joining"]
    /\ faults = 0

-----------------------------------------------------------------------------
(* data_simulator                                                          *)

Cycle ==
    /\ toSend = {}
    /\ Sim!Update
    /\ toSend' = Devices
    /\ UNCHANGED <<engineVars, iotTopic, ruleTopic, inHand, link, faults>>

\* A cycle lasts 15 seconds: the broker is not TopicBound messages behind.
Publish(d) ==
    /\ d \in toSend
    /\ Len(iotTopic) < TopicBound
    /\ toSend' = toSend \ {d}
    /\ iotTopic' = Published(iotTopic, Message(d), "controller")
    /\ UNCHANGED <<engineVars, occupied, free, ruleTopic, inHand, link, faults>>

-----------------------------------------------------------------------------
(* iot_controller: on_message                                              *)

Valid(m) == m.level # "invalid"

\* Variant of Forward: a thread per message, so that any may be first.
ForwardInThreads ==
    /\ inHand = Nil
    /\ Len(ruleTopic) < TopicBound
    /\ \E i \in 1..Len(iotTopic) :
          /\ iotTopic' = [j \in 1..(Len(iotTopic) - 1) |->
                             iotTopic[IF j < i THEN j ELSE j + 1]]
          /\ inHand' = iotTopic[i]
          /\ ruleTopic' = IF link["controller"] = "up"
                          THEN Published(ruleTopic, iotTopic[i], "engine")
                          ELSE ruleTopic
    /\ UNCHANGED <<engineVars, simVars, link, faults>>

\* Validate, republish, and store afterwards.  A controller whose own
\* connection broke while it was at work forwards into the void.
Forward ==
    /\ inHand = Nil /\ iotTopic # <<>>
    /\ Len(ruleTopic) < TopicBound
    /\ iotTopic' = Tail(iotTopic)
    /\ IF Valid(Head(iotTopic))
       THEN /\ inHand' = Head(iotTopic)
            /\ ruleTopic' = IF link["controller"] = "up"
                            THEN Published(ruleTopic, Head(iotTopic), "engine")
                            ELSE ruleTopic
       ELSE UNCHANGED <<inHand, ruleTopic>>
    /\ UNCHANGED <<engineVars, simVars, link, faults>>

\* The write to iot_bucket; what the bucket holds is not part of this model.
Store ==
    /\ inHand # Nil
    /\ inHand' = Nil
    /\ UNCHANGED <<engineVars, simVars, iotTopic, ruleTopic, link, faults>>

Fault == faults < MaxFaults /\ faults' = faults + 1

\* The write throws: the reading is lost to the bucket and logged, though
\* the rule engine has it.
StoreFails ==
    /\ inHand # Nil
    /\ Fault
    /\ inHand' = Nil
    /\ UNCHANGED <<engineVars, simVars, iotTopic, ruleTopic, link>>

-----------------------------------------------------------------------------
(* rule_engine                                                             *)

Receive ==
    /\ ruleTopic # <<>>
    /\ \/ Head(ruleTopic).level = "low" /\ ReceiveLow(Head(ruleTopic).device)
       \/ Head(ruleTopic).level = "high" /\ ReceiveHigh(Head(ruleTopic).device)
    /\ ruleTopic' = Tail(ruleTopic)
    /\ UNCHANGED <<simVars, iotTopic, inHand, link, faults>>

Write ==
    /\ InstantWritten \/ LastingWritten
    /\ UNCHANGED <<simVars, iotTopic, ruleTopic, inHand, link, faults>>

WriteFails ==
    /\ InstantFails \/ LastingFails
    /\ Fault
    /\ UNCHANGED <<simVars, iotTopic, ruleTopic, inHand, link>>

-----------------------------------------------------------------------------
(* Connections.  Callbacks of a client run in one thread: it notices a     *)
(* broken connection when the handler at work has returned.                *)

AtWork(c) == IF c = "controller" THEN inHand # Nil ELSE task.pc # "idle"

\* What is on its way to a subscriber is lost with its connection.
LoseTopic(c) ==
    IF c = "controller" THEN iotTopic' = <<>> /\ UNCHANGED ruleTopic
                        ELSE ruleTopic' = <<>> /\ UNCHANGED iotTopic

Disconnect(c) ==
    /\ link[c] \in {"up", "joining"}
    /\ Fault
    /\ link' = [link EXCEPT ![c] = "down"]
    /\ LoseTopic(c)
    /\ UNCHANGED <<engineVars, simVars, inHand>>

\* on_disconnect: client.reconnect() until it succeeds.
Reconnect(c) ==
    /\ link[c] = "down" /\ ~AtWork(c)
    /\ link' = [link EXCEPT ![c] = "joining"]
    /\ UNCHANGED <<engineVars, simVars, iotTopic, ruleTopic, inHand, faults>>

\* Variant of OnConnect: only the first connection subscribes.
OnConnectOnce(c) ==
    /\ link[c] = "joining" /\ ~AtWork(c)
    /\ link' = [link EXCEPT ![c] = IF faults = 0 THEN "up" ELSE "joining"]
    /\ UNCHANGED <<engineVars, simVars, iotTopic, ruleTopic, inHand, faults>>

\* on_connect subscribes, at the first connection and at every later one.
OnConnect(c) ==
    /\ link[c] = "joining" /\ ~AtWork(c)
    /\ link' = [link EXCEPT ![c] = "up"]
    /\ UNCHANGED <<engineVars, simVars, iotTopic, ruleTopic, inHand, faults>>

\* The process stops; the message in its hands is forgotten.
StopController ==
    /\ link["controller"] # "stopped"
    /\ Fault
    /\ link' = [link EXCEPT !["controller"] = "stopped"]
    /\ LoseTopic("controller")
    /\ inHand' = Nil
    /\ UNCHANGED <<engineVars, simVars>>

StopEngine ==
    /\ link["engine"] # "stopped"
    /\ Fault
    /\ EngineRestart
    /\ link' = [link EXCEPT !["engine"] = "stopped"]
    /\ LoseTopic("engine")
    /\ UNCHANGED <<simVars, inHand>>

\* setup_mqtt
StartAgain(c) ==
    /\ link[c] = "stopped"
    /\ link' = [link EXCEPT ![c] = "joining"]
    /\ UNCHANGED <<engineVars, simVars, iotTopic, ruleTopic, inHand, faults>>

-----------------------------------------------------------------------------
SimNext == Cycle \/ \E d \in Devices : Publish(d)
ControllerNext == Forward \/ Store
EngineProgress == Receive \/ Write
LinkNext(c) == Reconnect(c) \/ OnConnect(c)

Failure ==
    \/ StoreFails \/ WriteFails \/ StopController \/ StopEngine
    \/ \E c \in Subscribers : Disconnect(c)

TelemetryNext ==
    \/ SimNext \/ ControllerNext \/ EngineProgress
    \/ \E c \in Subscribers : LinkNext(c) \/ StartAgain(c)
    \/ Failure

TelemetrySpec == TelemetryInit /\ [][TelemetryNext]_vars

\* The simulator's loop catches every exception and goes on; a handler
\* returns, as the InfluxDB client times out; the network loop of paho takes
\* the next message, and reconnecting is tried every five seconds.  Nothing
\* starts a stopped process: no restart policy is in force.
TelemetryFairness ==
    /\ WF_vars(SimNext) /\ WF_vars(ControllerNext) /\ WF_vars(EngineProgress)
    /\ \A c \in Subscribers : WF_vars(LinkNext(c))

FairTelemetry == TelemetrySpec /\ TelemetryFairness

-----------------------------------------------------------------------------
(* Properties                                                              *)

\* The controller never has cause to reject a reading of the simulator.
NoReadingRejected ==
    \A i \in 1..Len(iotTopic) : Valid(iotTopic[i])

\* Once the path has drained, and as long as nothing has failed, what the rule
\* engine kept last of a lot is what the simulator read last: handing on does
\* not let an older reading of two that are under way arrive after the newer.
Drained == toSend = {} /\ iotTopic = <<>> /\ ruleTopic = <<>> /\ task = Idle

DrainedViewsAgree ==
    Drained /\ faults = 0 =>
        \A d \in Devices : window[d] # <<>> =>
            window[d][Len(window[d])] = Level(free[d])

\* A lot that stays free raises the lasting alert again and again, whatever
\* failed before, provided a process that stopped is started again: failed
\* writes, lost windows and lost subscriptions do not silence a device.
LastingAlertRecurs ==
    \A d \in Devices :
        ( /\ <>[](free[d] > Threshold)
          /\ \A c \in Subscribers : []<>(link[c] # "stopped") )
        => []<>(due = d)
=============================================================================

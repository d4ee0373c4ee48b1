----------------------------- MODULE RuleEngine ------------------------------
(***************************************************************************)
(* rule_engine.py: on_message keeps a window of readings per device in     *)
(* memory and writes two kinds of alerts to InfluxDB, an instant one for a *)
(* reading above the threshold and a lasting one for ten such readings in  *)
(* a row.  Both writes are synchronous calls that may throw, and the       *)
(* handler catches the exception outside everything it does: what was      *)
(* still to do for the message is skipped.  A reading is modelled by what  *)
(* the rules ask of it, whether free_spots > 5.                            *)
(*                                                                         *)
(* The variables streak, run, stuck and due are history: the code has no   *)
(* such things, the actions never read them.                               *)
(***************************************************************************)
EXTENDS Naturals, Sequences

CONSTANTS
    Devices,        \* values of device_id
    W,              \* readings in the lasting rule: 10
    Nil

ASSUME EngineAssumption == W \in Nat \ {0} /\ Nil \notin Devices

VARIABLES
    window,         \* device_state: device -> readings, oldest first
    task,           \* where on_message stands, and for which device
    streak,         \* device -> readings received in a row that are high, up to W
    run,            \* the same of the readings put in the window
    stuck,          \* device -> lasting alerts whose write failed
    due             \* the device whose last W readings kept, the newest kept
                    \* by the handler at work, are high; or Nil

history == <<streak, run, stuck, due>>
engineVars == <<window, task, history>>

Levels == {"high", "low"}
Idle == [pc |-> "idle", device |-> Nil]

UpToW(n) == IF n < W THEN n ELSE W

EngineInit ==
    /\ window = [d \in Devices |-> <<>>]
    /\ task = Idle
    /\ streak = [d \in Devices |-> 0]
    /\ run = [d \in Devices |-> 0]
    /\ stuck = [d \in Devices |-> 0]
    /\ due = Nil

-----------------------------------------------------------------------------
\* Variant of AllHigh: one reading fewer is looked at.
OneFewerHigh(w) == \A i \in 1..(W - 1) : w[Len(w) + 1 - i] = "high"

\* all(x > 5 for x in w[-10:]), of a window of at least W readings
AllHigh(w) == \A i \in 1..W : w[Len(w) + 1 - i] = "high"

\* pop(0)
Popped(w) == Tail(w)

\* Variant of Judge: the pop belongs to the alert.
JudgeKeeping(d, w) ==
    /\ window' = [window EXCEPT ![d] = w]
    /\ task' = IF Len(w) >= W /\ AllHigh(w)
               THEN [pc |-> "lasting", device |-> d] ELSE Idle

\* Variant of Judge: the rule asks for W readings, not for at least W.
JudgeAtW(d, w) ==
    IF Len(w) # W
    THEN window' = [window EXCEPT ![d] = w] /\ task' = Idle
    ELSE IF AllHigh(w)
         THEN /\ window' = [window EXCEPT ![d] = w]
              /\ task' = [pc |-> "lasting", device |-> d]
         ELSE window' = [window EXCEPT ![d] = Popped(w)] /\ task' = Idle

\* device_state[device_id].append(free_spots) and the lasting rule, up to the
\* write of the alert; w is the window with the new reading.
Judge(d, w) ==
    IF Len(w) < W
    THEN window' = [window EXCEPT ![d] = w] /\ task' = Idle
    ELSE IF AllHigh(w)
         THEN /\ window' = [window EXCEPT ![d] = w]
              /\ task' = [pc |-> "lasting", device |-> d]
         ELSE window' = [window EXCEPT ![d] = Popped(w)] /\ task' = Idle

\* The history of a reading kept: the alert is due when W in a row are high.
KeptHigh(d) ==
    /\ run' = [run EXCEPT ![d] = UpToW(@ + 1)]
    /\ due' = IF run[d] + 1 >= W THEN d ELSE Nil
    /\ UNCHANGED <<streak, stuck>>

KeptLow(d) ==
    /\ run' = [run EXCEPT ![d] = 0]
    /\ streak' = [streak EXCEPT ![d] = 0]
    /\ due' = Nil
    /\ UNCHANGED stuck

\* on_message, up to the write of the instant alert if there is one.
ReceiveLow(d) ==
    /\ task.pc = "idle"
    /\ Judge(d, Append(window[d], "low"))
    /\ KeptLow(d)

ReceiveHigh(d) ==
    /\ task.pc = "idle"
    /\ task' = [pc |-> "instant", device |-> d]
    /\ streak' = [streak EXCEPT ![d] = UpToW(@ + 1)]
    /\ UNCHANGED <<window, run, stuck, due>>

InstantWritten ==
    /\ task.pc = "instant"
    /\ Judge(task.device, Append(window[task.device], "high"))
    /\ KeptHigh(task.device)

\* The write throws, whether or not the point reached the bucket: the
\* reading is not appended.
InstantFails ==
    /\ task.pc = "instant"
    /\ task' = Idle
    /\ UNCHANGED <<window, history>>

LastingWritten ==
    /\ task.pc = "lasting"
    /\ window' = [window EXCEPT ![task.device] = Popped(@)]
    /\ task' = Idle
    /\ due' = Nil
    /\ UNCHANGED <<streak, run, stuck>>

\* The write throws: the oldest reading is not popped.
LastingFails ==
    /\ task.pc = "lasting"
    /\ task' = Idle
    /\ stuck' = [stuck EXCEPT ![task.device] = @ + 1]
    /\ due' = Nil
    /\ UNCHANGED <<window, streak, run>>

\* The process stops and is started again: its memory is gone.
EngineRestart ==
    /\ window' = [d \in Devices |-> <<>>]
    /\ task' = Idle
    /\ streak' = [d \in Devices |-> 0]
    /\ run' = [d \in Devices |-> 0]
    /\ stuck' = [d \in Devices |-> 0]
    /\ due' = Nil

EngineNext ==
    \/ \E d \in Devices : ReceiveLow(d) \/ ReceiveHigh(d)
    \/ InstantWritten \/ InstantFails
    \/ LastingWritten \/ LastingFails
    \/ EngineRestart

EngineSpec == EngineInit /\ [][EngineNext]_engineVars

-----------------------------------------------------------------------------
(* Properties                                                              *)

EngineTypeOK ==
    /\ window \in [Devices -> Seq(Levels)]
    /\ task \in {Idle} \cup [pc : {"instant", "lasting"}, device : Devices]
    /\ streak \in [Devices -> 0..W]
    /\ run \in [Devices -> 0..W]
    /\ stuck \in [Devices -> Nat]
    /\ due \in Devices \cup {Nil}

\* A lasting alert is written for a device only when the last W readings
\* received from it, since the engine started, were all above the threshold:
\* readings that a failed write kept out of the window hide no low one.
LastingAlertSound ==
    task.pc = "lasting" => streak[task.device] = W

\* The rule fires exactly when the last W readings kept are high: windows
\* that a failed write left one too long, or that were cut by a pop, delay
\* no alert and bring none forward.
LastingAlertExact ==
    due = (IF task.pc = "lasting" THEN task.device ELSE Nil)

\* Between messages a window holds at most W - 1 readings and one more for
\* each lasting alert that could not be written: memory does not grow with
\* the number of messages.
WindowBounded ==
    \A d \in Devices :
        Len(window[d]) <= W - 1 + stuck[d]
                          + (IF task = [pc |-> "lasting", device |-> d] THEN 1 ELSE 0)
=============================================================================

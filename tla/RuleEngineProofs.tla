-------------------------- MODULE RuleEngineProofs ---------------------------
(***************************************************************************)
(* Proofs about RuleEngine, for any number of devices and any length W of  *)
(* the lasting rule.                                                       *)
(***************************************************************************)
EXTENDS RuleEngine, TLAPS

\* The last k readings of w are high.
Back(w, k) == \A i \in 1..k : w[Len(w) + 1 - i] = "high"

\* The readings a window ends with, and the length of the run kept: a window
\* shows no more of a run than there is, and all of it up to W - 1 readings.
WindowShowsRun(w, n) ==
    /\ \A k \in 0..Len(w) : Back(w, k) => k <= n \/ n = W
    /\ \A k \in 0..n : k < W => k <= Len(w) /\ Back(w, k)

AtLasting(d) == task.pc = "lasting" /\ task.device = d
AtInstant(d) == task.pc = "instant" /\ task.device = d

EngineInv ==
    /\ EngineTypeOK
    /\ \A d \in Devices :
         /\ WindowShowsRun(window[d], run[d])
         /\ run[d] <= streak[d]
         /\ AtInstant(d) => streak[d] = W \/ run[d] < streak[d]
         /\ AtLasting(d) => run[d] = W /\ Len(window[d]) >= W
         /\ ~AtLasting(d) => Len(window[d]) <= W - 1 + stuck[d]
         /\ AtLasting(d) => Len(window[d]) <= W + stuck[d]
    /\ LastingAlertExact

-----------------------------------------------------------------------------
(* Windows                                                                 *)

LEMMA BackAppendHigh ==
    ASSUME NEW w \in Seq(Levels), NEW k \in 0..Len(w)
    PROVE  Back(Append(w, "high"), k + 1) <=> Back(w, k)
<1> DEFINE v == Append(w, "high")
<1>1. /\ Len(v) = Len(w) + 1
      /\ v[Len(w) + 1] = "high"
      /\ \A j \in 1..Len(w) : v[j] = w[j]
  BY DEF Levels
<1>2. ASSUME Back(v, k + 1) PROVE Back(w, k)
  <2> SUFFICES ASSUME NEW i \in 1..k PROVE w[Len(w) + 1 - i] = "high"
    BY DEF Back
  <2>1. i + 1 \in 1..(k + 1) /\ Len(w) + 1 - i \in 1..Len(w)
    OBVIOUS
  <2>2. v[Len(v) + 1 - (i + 1)] = "high"
    BY <1>2, <2>1 DEF Back
  <2> QED BY <1>1, <2>1, <2>2
<1>3. ASSUME Back(w, k) PROVE Back(v, k + 1)
  <2> SUFFICES ASSUME NEW i \in 1..(k + 1) PROVE v[Len(v) + 1 - i] = "high"
    BY DEF Back
  <2>1. CASE i = 1
    BY <1>1, <2>1
  <2>2. CASE i # 1
    <3>1. i - 1 \in 1..k /\ Len(w) + 1 - (i - 1) \in 1..Len(w)
      BY <2>2
    <3>2. w[Len(w) + 1 - (i - 1)] = "high"
      BY <1>3, <3>1 DEF Back
    <3> QED BY <1>1, <3>1, <3>2
  <2> QED BY <2>1, <2>2
<1> QED BY <1>2, <1>3

LEMMA BackAppendLow ==
    ASSUME NEW w \in Seq(Levels), NEW k \in Nat \ {0}
    PROVE  ~Back(Append(w, "low"), k)
<1> DEFINE v == Append(w, "low")
<1>1. Len(v) = Len(w) + 1 /\ v[Len(w) + 1] = "low"
  BY DEF Levels
<1>2. v[Len(v) + 1 - 1] = "low" /\ 1 \in 1..k
  BY <1>1
<1> QED BY <1>2 DEF Back

LEMMA BackTail ==
    ASSUME NEW w \in Seq(Levels), NEW k \in 0..(Len(w) - 1)
    PROVE  Back(Tail(w), k) <=> Back(w, k)
<1>1. w # <<>> /\ Len(Tail(w)) = Len(w) - 1
  OBVIOUS
<1>2. \A i \in 1..k : Tail(w)[Len(Tail(w)) + 1 - i] = w[Len(w) + 1 - i]
  BY <1>1
<1> QED BY <1>2 DEF Back

\* A reading above the threshold lengthens the run by one.
LEMMA ShowsHigh ==
    ASSUME NEW w \in Seq(Levels), NEW n \in 0..W, WindowShowsRun(w, n)
    PROVE  /\ WindowShowsRun(Append(w, "high"), UpToW(n + 1))
           /\ Len(w) + 1 >= W => (AllHigh(Append(w, "high")) <=> n + 1 >= W)
           /\ Len(w) + 1 < W => n + 1 < W
<1> DEFINE v == Append(w, "high")
           m == UpToW(n + 1)
<1>0. W \in Nat \ {0} /\ Len(w) \in Nat /\ Len(v) = Len(w) + 1 /\ m \in 0..W
  BY EngineAssumption DEF UpToW, Levels
<1>1. ASSUME NEW k \in 0..Len(v), Back(v, k) PROVE k <= m \/ m = W
  <2>1. CASE k = 0
    BY <1>0, <2>1
  <2>2. CASE k # 0
    <3>1. k - 1 \in 0..Len(w) /\ k = (k - 1) + 1
      BY <1>0, <2>2
    <3>2. Back(w, k - 1)
      BY <1>1, <3>1, BackAppendHigh
    <3>3. k - 1 <= n \/ n = W
      BY <3>1, <3>2 DEF WindowShowsRun
    <3> QED BY <1>0, <3>1, <3>3 DEF UpToW
  <2> QED BY <2>1, <2>2
<1>2. ASSUME NEW k \in 0..m, k < W PROVE k <= Len(v) /\ Back(v, k)
  <2>1. CASE k = 0
    BY <1>0, <2>1 DEF Back
  <2>2. CASE k # 0
    <3>1. k - 1 \in 0..n /\ k - 1 < W /\ k = (k - 1) + 1
      BY <1>0, <1>2, <2>2 DEF UpToW
    <3>2. k - 1 <= Len(w) /\ Back(w, k - 1)
      BY <3>1 DEF WindowShowsRun
    <3> QED BY <1>0, <3>1, <3>2, BackAppendHigh
  <2> QED BY <2>1, <2>2
<1>3. WindowShowsRun(v, m)
  BY <1>1, <1>2 DEF WindowShowsRun
<1>4. ASSUME Len(w) + 1 >= W PROVE AllHigh(v) <=> n + 1 >= W
  <2>1. W - 1 \in 0..Len(w) /\ W = (W - 1) + 1
    BY <1>0, <1>4
  <2>2. AllHigh(v) <=> Back(w, W - 1)
    BY <2>1, BackAppendHigh DEF AllHigh, Back
  <2>3. Back(w, W - 1) => W - 1 <= n \/ n = W
    BY <2>1 DEF WindowShowsRun
  <2>4. n + 1 >= W => Back(w, W - 1)
    BY <1>0, <2>1 DEF WindowShowsRun
  <2> QED BY <1>0, <2>2, <2>3, <2>4
<1>5. ASSUME Len(w) + 1 < W PROVE n + 1 < W
  <2> SUFFICES ASSUME n + 1 >= W PROVE FALSE
    BY <1>0
  <2>1. W - 1 \in 0..n /\ W - 1 < W
    BY <1>0
  <2> QED BY <1>0, <1>5, <2>1 DEF WindowShowsRun
<1> QED BY <1>3, <1>4, <1>5

\* A reading below it ends the run.
LEMMA ShowsLow ==
    ASSUME NEW w \in Seq(Levels)
    PROVE  WindowShowsRun(Append(w, "low"), 0) /\ ~AllHigh(Append(w, "low"))
<1> DEFINE v == Append(w, "low")
<1>0. W \in Nat \ {0} /\ Len(v) \in Nat
  BY EngineAssumption DEF Levels
<1>1. \A k \in Nat \ {0} : ~Back(v, k)
  BY BackAppendLow
<1>2. ~AllHigh(v)
  BY <1>0, <1>1 DEF AllHigh, Back
<1>3. Back(v, 0)
  BY DEF Back
<1>4. \A k \in 0..Len(v) : Back(v, k) => k <= 0 \/ 0 = W
  BY <1>0, <1>1
<1>5. \A k \in 0..0 : k < W => k <= Len(v) /\ Back(v, k)
  BY <1>0, <1>3
<1> QED BY <1>2, <1>4, <1>5 DEF WindowShowsRun

\* A pop from a window of at least W readings hides nothing the rule needs.
LEMMA ShowsPopped ==
    ASSUME NEW w \in Seq(Levels), NEW n \in 0..W, WindowShowsRun(w, n), Len(w) >= W
    PROVE  /\ Tail(w) \in Seq(Levels)
           /\ Len(Tail(w)) = Len(w) - 1
           /\ WindowShowsRun(Tail(w), n)
<1>0. W \in Nat \ {0} /\ Len(w) \in Nat
  BY EngineAssumption
<1>1. Tail(w) \in Seq(Levels) /\ Len(Tail(w)) = Len(w) - 1
  BY <1>0
<1>2. ASSUME NEW k \in 0..Len(Tail(w)), Back(Tail(w), k) PROVE k <= n \/ n = W
  <2>1. k \in 0..(Len(w) - 1) /\ k \in 0..Len(w)
    BY <1>0, <1>1
  <2>2. Back(w, k)
    BY <1>2, <2>1, BackTail
  <2> QED BY <2>1, <2>2 DEF WindowShowsRun
<1>3. ASSUME NEW k \in 0..n, k < W PROVE k <= Len(Tail(w)) /\ Back(Tail(w), k)
  <2>1. k \in 0..(Len(w) - 1) /\ Back(w, k)
    BY <1>0, <1>3 DEF WindowShowsRun
  <2>2. Back(Tail(w), k)
    BY <2>1, BackTail
  <2> QED BY <1>0, <1>1, <2>1, <2>2
<1> QED BY <1>1, <1>2, <1>3 DEF WindowShowsRun

-----------------------------------------------------------------------------
(* The invariant                                                           *)

LEMMA EngineInitInv == EngineInit => EngineInv
<1> SUFFICES ASSUME EngineInit PROVE EngineInv
  OBVIOUS
<1>0. W \in Nat \ {0}
  BY EngineAssumption
<1>1. EngineTypeOK
  BY <1>0 DEF EngineInit, EngineTypeOK, Levels
<1>2. ASSUME NEW d \in Devices PROVE WindowShowsRun(window[d], run[d])
  BY <1>0 DEF EngineInit, WindowShowsRun, Back
<1>3. LastingAlertExact /\ task.pc = "idle"
      /\ \A e \in Devices : run[e] <= streak[e] /\ Len(window[e]) <= W - 1 + stuck[e]
  BY <1>0 DEF EngineInit, AtLasting, AtInstant, Idle, LastingAlertExact
<1> QED BY <1>1, <1>2, <1>3 DEF EngineInv, AtLasting, AtInstant

\* A step touches one device; what is said of the others stays true.
DeviceInv(d) ==
    /\ WindowShowsRun(window[d], run[d])
    /\ run[d] <= streak[d]
    /\ AtInstant(d) => streak[d] = W \/ run[d] < streak[d]
    /\ AtLasting(d) => run[d] = W /\ Len(window[d]) >= W
    /\ ~AtLasting(d) => Len(window[d]) <= W - 1 + stuck[d]
    /\ AtLasting(d) => Len(window[d]) <= W + stuck[d]

LEMMA SameDevice ==
    ASSUME NEW d \in Devices, EngineTypeOK, DeviceInv(d),
           window'[d] = window[d], run'[d] = run[d], streak'[d] = streak[d],
           stuck'[d] = stuck[d], ~AtLasting(d), ~AtLasting(d)', ~AtInstant(d)'
    PROVE  DeviceInv(d)'
BY DEF DeviceInv, WindowShowsRun, Back, AtLasting, AtInstant

\* A high reading has been put in the window of device d.
LEMMA KeepHighInv ==
    ASSUME EngineInv, NEW d \in Devices, AtInstant(d),
           Judge(d, Append(window[d], "high")), KeptHigh(d)
    PROVE  EngineInv'
<1> DEFINE w == Append(window[d], "high")
<1>0. /\ W \in Nat \ {0} /\ Nil \notin Devices
      /\ EngineTypeOK /\ \A e \in Devices : DeviceInv(e)
      /\ window[d] \in Seq(Levels) /\ run[d] \in 0..W /\ streak[d] \in 0..W
      /\ stuck[d] \in Nat /\ Len(window[d]) \in Nat
      /\ w \in Seq(Levels) /\ Len(w) = Len(window[d]) + 1
      /\ ~AtLasting(d)
  BY EngineAssumption DEF EngineInv, EngineTypeOK, DeviceInv, Levels, AtInstant, AtLasting
<1>1. /\ WindowShowsRun(w, UpToW(run[d] + 1))
      /\ Len(w) >= W => (AllHigh(w) <=> run[d] + 1 >= W)
      /\ Len(w) < W => run[d] + 1 < W
  BY <1>0, ShowsHigh DEF DeviceInv
<1>2. /\ run' = [run EXCEPT ![d] = UpToW(@ + 1)]
      /\ run'[d] = UpToW(run[d] + 1) /\ run'[d] \in 0..W
      /\ streak' = streak /\ stuck' = stuck
      /\ due' = IF run[d] + 1 >= W THEN d ELSE Nil
  BY <1>0 DEF KeptHigh, UpToW, EngineTypeOK
<1>3. run'[d] <= streak[d]
  BY <1>0, <1>2 DEF DeviceInv, UpToW
<1>4. Len(window[d]) <= W - 1 + stuck[d]
  BY <1>0 DEF DeviceInv
<1>t. ASSUME NEW v \in Seq(Levels), window' = [window EXCEPT ![d] = v],
             task' \in {Idle} \cup [pc : {"instant", "lasting"}, device : Devices]
      PROVE  EngineTypeOK' /\ window'[d] = v
  <2>1. window' \in [Devices -> Seq(Levels)] /\ window'[d] = v
    BY <1>0, <1>t DEF EngineTypeOK
  <2>2. run' \in [Devices -> 0..W]
    BY <1>0, <1>2 DEF EngineTypeOK
  <2>3. streak' \in [Devices -> 0..W] /\ stuck' \in [Devices -> Nat] /\ due' \in Devices \cup {Nil}
    BY <1>0, <1>2 DEF EngineTypeOK
  <2> QED BY <1>t, <2>1, <2>2, <2>3 DEF EngineTypeOK
<1>s. ASSUME NEW v, NEW n, WindowShowsRun(v, n), window'[d] = v, run'[d] = n
      PROVE  WindowShowsRun(window[d], run[d])'
  BY <1>s DEF WindowShowsRun, Back
<1>5. CASE Len(w) < W
  <2>1. window' = [window EXCEPT ![d] = w] /\ task' = Idle
    BY <1>5 DEF Judge
  <2>2. EngineTypeOK' /\ window'[d] = w
    BY <1>0, <1>t, <2>1
  <2>3. \A e \in Devices : ~AtLasting(e)' /\ ~AtInstant(e)'
    BY <2>1 DEF AtLasting, AtInstant, Idle
  <2>4. DeviceInv(d)'
    <3>1. WindowShowsRun(window[d], run[d])'
      BY <1>1, <1>2, <1>s, <2>2
    <3>2. Len(window'[d]) <= W - 1 + stuck'[d]
      BY <1>0, <1>2, <1>5, <2>2
    <3> QED BY <1>2, <1>3, <2>3, <3>1, <3>2 DEF DeviceInv
  <2>5. LastingAlertExact'
    BY <1>0, <1>1, <1>2, <1>5, <2>1 DEF LastingAlertExact, Idle
  <2>6. ASSUME NEW e \in Devices \ {d} PROVE DeviceInv(e)'
    <3>1. window'[e] = window[e] /\ run'[e] = run[e] /\ streak'[e] = streak[e]
          /\ stuck'[e] = stuck[e] /\ ~AtLasting(e)
      BY <1>0, <1>2, <2>1 DEF EngineTypeOK, AtInstant, AtLasting
    <3> QED BY <1>0, <2>3, <3>1, SameDevice
  <2> QED BY <2>2, <2>4, <2>5, <2>6 DEF EngineInv, DeviceInv
<1>6. CASE Len(w) >= W /\ AllHigh(w)
  <2>1. window' = [window EXCEPT ![d] = w] /\ task' = [pc |-> "lasting", device |-> d]
    BY <1>0, <1>6 DEF Judge
  <2>2. EngineTypeOK' /\ window'[d] = w
    BY <1>0, <1>t, <2>1
  <2>3. /\ \A e \in Devices \ {d} : ~AtLasting(e)' /\ ~AtInstant(e)'
        /\ AtLasting(d)' /\ ~AtInstant(d)'
    BY <2>1 DEF AtLasting, AtInstant
  <2>4. run'[d] = W /\ due' = d
    BY <1>0, <1>1, <1>2, <1>6 DEF UpToW
  <2>5. DeviceInv(d)'
    <3>1. WindowShowsRun(window[d], run[d])'
      BY <1>1, <1>2, <1>s, <2>2
    <3>2. Len(window'[d]) <= W + stuck'[d] /\ Len(window'[d]) >= W
      BY <1>0, <1>2, <1>4, <1>6, <2>2
    <3> QED BY <1>2, <1>3, <2>3, <2>4, <3>1, <3>2 DEF DeviceInv
  <2>6. LastingAlertExact'
    BY <2>1, <2>4 DEF LastingAlertExact
  <2>7. ASSUME NEW e \in Devices \ {d} PROVE DeviceInv(e)'
    <3>1. window'[e] = window[e] /\ run'[e] = run[e] /\ streak'[e] = streak[e]
          /\ stuck'[e] = stuck[e] /\ ~AtLasting(e)
      BY <1>0, <1>2, <2>1 DEF EngineTypeOK, AtInstant, AtLasting
    <3> QED BY <1>0, <2>3, <3>1, SameDevice
  <2> QED BY <2>2, <2>5, <2>6, <2>7 DEF EngineInv, DeviceInv
<1>7. CASE Len(w) >= W /\ ~AllHigh(w)
  <2>1. window' = [window EXCEPT ![d] = Tail(w)] /\ task' = Idle
    BY <1>0, <1>7 DEF Judge, Popped
  <2>0. /\ Tail(w) \in Seq(Levels) /\ Len(Tail(w)) = Len(w) - 1
        /\ WindowShowsRun(Tail(w), UpToW(run[d] + 1))
    BY <1>0, <1>1, <1>2, <1>7, ShowsPopped
  <2>2. EngineTypeOK' /\ window'[d] = Tail(w)
    BY <1>t, <2>0, <2>1
  <2>3. \A e \in Devices : ~AtLasting(e)' /\ ~AtInstant(e)'
    BY <2>1 DEF AtLasting, AtInstant, Idle
  <2>4. DeviceInv(d)'
    <3>1. WindowShowsRun(window[d], run[d])'
      BY <1>2, <1>s, <2>0, <2>2
    <3>2. Len(window'[d]) <= W - 1 + stuck'[d]
      BY <1>0, <1>2, <1>4, <2>0, <2>2
    <3> QED BY <1>2, <1>3, <2>3, <3>1, <3>2 DEF DeviceInv
  <2>5. LastingAlertExact'
    BY <1>0, <1>1, <1>2, <1>7, <2>1 DEF LastingAlertExact, Idle
  <2>6. ASSUME NEW e \in Devices \ {d} PROVE DeviceInv(e)'
    <3>1. window'[e] = window[e] /\ run'[e] = run[e] /\ streak'[e] = streak[e]
          /\ stuck'[e] = stuck[e] /\ ~AtLasting(e)
      BY <1>0, <1>2, <2>1 DEF EngineTypeOK, AtInstant, AtLasting
    <3> QED BY <1>0, <2>3, <3>1, SameDevice
  <2> QED BY <2>2, <2>4, <2>5, <2>6 DEF EngineInv, DeviceInv
<1> QED BY <1>0, <1>5, <1>6, <1>7

\* A low reading has been put in the window of device d.
LEMMA KeepLowInv ==
    ASSUME EngineInv, NEW d \in Devices, task.pc = "idle",
           Judge(d, Append(window[d], "low")), KeptLow(d)
    PROVE  EngineInv'
<1> DEFINE w == Append(window[d], "low")
<1>0. /\ W \in Nat \ {0} /\ Nil \notin Devices
      /\ EngineTypeOK /\ \A e \in Devices : DeviceInv(e)
      /\ window[d] \in Seq(Levels) /\ stuck[d] \in Nat /\ Len(window[d]) \in Nat
      /\ w \in Seq(Levels) /\ Len(w) = Len(window[d]) + 1
      /\ \A e \in Devices : ~AtLasting(e)
  BY EngineAssumption DEF EngineInv, EngineTypeOK, DeviceInv, Levels, AtLasting
<1>1. WindowShowsRun(w, 0) /\ ~AllHigh(w)
  BY <1>0, ShowsLow
<1>2. /\ run' = [run EXCEPT ![d] = 0] /\ run'[d] = 0
      /\ streak' = [streak EXCEPT ![d] = 0] /\ streak'[d] = 0
      /\ stuck' = stuck /\ due' = Nil
  BY <1>0 DEF KeptLow, EngineTypeOK
<1>3. Len(window[d]) <= W - 1 + stuck[d]
  BY <1>0 DEF DeviceInv
<1>4. PICK v \in Seq(Levels) :
         /\ window' = [window EXCEPT ![d] = v] /\ task' = Idle
         /\ WindowShowsRun(v, 0) /\ Len(v) <= W - 1 + stuck[d]
  <2>1. CASE Len(w) < W
    <3>1. window' = [window EXCEPT ![d] = w] /\ task' = Idle
      BY <2>1 DEF Judge
    <3>2. Len(w) <= W - 1 + stuck[d]
      BY <1>0, <2>1
    <3> QED BY <1>0, <1>1, <3>1, <3>2
  <2>2. CASE Len(w) >= W
    <3>1. window' = [window EXCEPT ![d] = Tail(w)] /\ task' = Idle
      BY <1>0, <1>1, <2>2 DEF Judge, Popped
    <3>2. Tail(w) \in Seq(Levels) /\ Len(Tail(w)) = Len(w) - 1 /\ WindowShowsRun(Tail(w), 0)
      <4>1. 0 \in 0..W
        BY <1>0
      <4> QED BY <1>0, <1>1, <2>2, <4>1, ShowsPopped
    <3>3. Len(Tail(w)) <= W - 1 + stuck[d]
      <4>1. Len(Tail(w)) = Len(window[d])
        BY <1>0, <3>2
      <4> QED BY <1>3, <4>1
    <3> QED BY <3>1, <3>2, <3>3
  <2> QED BY <1>0, <2>1, <2>2
<1>5. EngineTypeOK'
  <2>1. window' \in [Devices -> Seq(Levels)]
    BY <1>0, <1>4 DEF EngineTypeOK
  <2>2. run' \in [Devices -> 0..W] /\ streak' \in [Devices -> 0..W]
    BY <1>0, <1>2 DEF EngineTypeOK
  <2>3. stuck' \in [Devices -> Nat] /\ due' \in Devices \cup {Nil}
    BY <1>0, <1>2 DEF EngineTypeOK
  <2> QED BY <1>4, <2>1, <2>2, <2>3 DEF EngineTypeOK
<1>6. \A e \in Devices : ~AtLasting(e)' /\ ~AtInstant(e)'
  BY <1>4 DEF AtLasting, AtInstant, Idle
<1>7. DeviceInv(d)'
  <2>1. window'[d] = v
    BY <1>0, <1>4 DEF EngineTypeOK
  <2>2. WindowShowsRun(window[d], run[d])'
    BY <1>2, <1>4, <2>1 DEF WindowShowsRun, Back
  <2>3. Len(window'[d]) <= W - 1 + stuck'[d]
    BY <1>2, <1>4, <2>1
  <2> QED BY <1>2, <1>6, <2>2, <2>3 DEF DeviceInv
<1>8. ASSUME NEW e \in Devices \ {d} PROVE DeviceInv(e)'
  <2>1. window'[e] = window[e] /\ run'[e] = run[e] /\ streak'[e] = streak[e]
        /\ stuck'[e] = stuck[e]
    BY <1>0, <1>2, <1>4 DEF EngineTypeOK
  <2> QED BY <1>0, <1>6, <2>1, SameDevice
<1>9. LastingAlertExact'
  BY <1>2, <1>4 DEF LastingAlertExact, Idle
<1> QED BY <1>5, <1>7, <1>8, <1>9 DEF EngineInv, DeviceInv

LEMMA ReceiveHighInv ==
    ASSUME EngineInv, NEW d \in Devices, ReceiveHigh(d)
    PROVE  EngineInv'
<1>0. /\ W \in Nat \ {0} /\ EngineTypeOK
      /\ \A e \in Devices : DeviceInv(e)
      /\ LastingAlertExact /\ task.pc = "idle"
      /\ \A e \in Devices : ~AtLasting(e)
  BY EngineAssumption DEF EngineInv, DeviceInv, ReceiveHigh, AtLasting
<1>1. /\ task' = [pc |-> "instant", device |-> d]
      /\ streak' = [streak EXCEPT ![d] = UpToW(@ + 1)]
      /\ streak'[d] = UpToW(streak[d] + 1) /\ streak[d] \in 0..W
      /\ run[d] \in 0..W
      /\ window' = window /\ run' = run /\ stuck' = stuck /\ due' = due
  BY <1>0 DEF ReceiveHigh, EngineTypeOK
<1>2. EngineTypeOK'
  BY <1>0, <1>1 DEF EngineTypeOK, UpToW
<1>3. /\ \A e \in Devices : ~AtLasting(e)'
      /\ \A e \in Devices \ {d} : ~AtInstant(e)'
  BY <1>1 DEF AtLasting, AtInstant
<1>4. DeviceInv(d)'
  <2>1. WindowShowsRun(window[d], run[d])'
    BY <1>0, <1>1 DEF DeviceInv, WindowShowsRun, Back
  <2>2. run'[d] <= streak'[d] /\ (streak'[d] = W \/ run'[d] < streak'[d])
    BY <1>0, <1>1 DEF DeviceInv, UpToW
  <2>3. Len(window'[d]) <= W - 1 + stuck'[d]
    BY <1>0, <1>1 DEF DeviceInv
  <2> QED BY <1>3, <2>1, <2>2, <2>3 DEF DeviceInv
<1>5. ASSUME NEW e \in Devices \ {d} PROVE DeviceInv(e)'
  <2>1. window'[e] = window[e] /\ run'[e] = run[e] /\ streak'[e] = streak[e]
        /\ stuck'[e] = stuck[e]
    BY <1>0, <1>1 DEF EngineTypeOK
  <2> QED BY <1>0, <1>3, <2>1, SameDevice
<1>6. LastingAlertExact'
  BY <1>0, <1>1 DEF LastingAlertExact
<1> QED BY <1>2, <1>4, <1>5, <1>6 DEF EngineInv, DeviceInv

LEMMA InstantFailsInv ==
    ASSUME EngineInv, InstantFails
    PROVE  EngineInv'
<1>0. /\ EngineTypeOK /\ \A e \in Devices : DeviceInv(e)
      /\ LastingAlertExact /\ task.pc = "instant"
      /\ \A e \in Devices : ~AtLasting(e)
  BY DEF EngineInv, DeviceInv, InstantFails, AtLasting
<1>1. /\ task' = Idle /\ window' = window /\ run' = run /\ streak' = streak
      /\ stuck' = stuck /\ due' = due
  BY DEF InstantFails, history
<1>2. EngineTypeOK'
  BY <1>0, <1>1 DEF EngineTypeOK
<1>3. \A e \in Devices : ~AtLasting(e)' /\ ~AtInstant(e)'
  BY <1>1 DEF AtLasting, AtInstant, Idle
<1>4. \A e \in Devices : DeviceInv(e)'
  BY <1>0, <1>1, <1>3, SameDevice
<1>5. LastingAlertExact'
  BY <1>0, <1>1 DEF LastingAlertExact, Idle
<1> QED BY <1>2, <1>4, <1>5 DEF EngineInv, DeviceInv

LEMMA LastingWrittenInv ==
    ASSUME EngineInv, LastingWritten
    PROVE  EngineInv'
<1>0. /\ W \in Nat \ {0} /\ Nil \notin Devices
      /\ EngineTypeOK /\ \A e \in Devices : DeviceInv(e)
      /\ task.pc = "lasting"
  BY EngineAssumption DEF EngineInv, DeviceInv, LastingWritten
<1>d. PICK d \in Devices : task.device = d
  BY <1>0 DEF EngineTypeOK, Idle
<1>1. /\ AtLasting(d) /\ \A e \in Devices \ {d} : ~AtLasting(e)
      /\ window[d] \in Seq(Levels) /\ run[d] \in 0..W /\ stuck[d] \in Nat
  BY <1>0, <1>d DEF EngineTypeOK, Idle, AtLasting
<1>2. /\ window' = [window EXCEPT ![d] = Tail(window[d])] /\ task' = Idle
      /\ run' = run /\ streak' = streak /\ stuck' = stuck /\ due' = Nil
  BY <1>d DEF LastingWritten, Popped
<1>3. Len(window[d]) >= W /\ Len(window[d]) <= W + stuck[d] /\ WindowShowsRun(window[d], run[d])
      /\ run[d] <= streak[d]
  BY <1>0, <1>1 DEF DeviceInv
<1>4. /\ Tail(window[d]) \in Seq(Levels)
      /\ Len(Tail(window[d])) = Len(window[d]) - 1
      /\ WindowShowsRun(Tail(window[d]), run[d])
  BY <1>1, <1>3, ShowsPopped
<1>5. window'[d] = Tail(window[d]) /\ window' \in [Devices -> Seq(Levels)]
  BY <1>0, <1>1, <1>2, <1>4 DEF EngineTypeOK
<1>6. EngineTypeOK'
  BY <1>0, <1>2, <1>5 DEF EngineTypeOK
<1>7. \A e \in Devices : ~AtLasting(e)' /\ ~AtInstant(e)'
  BY <1>2 DEF AtLasting, AtInstant, Idle
<1>8. DeviceInv(d)'
  <2>1. WindowShowsRun(window[d], run[d])'
    BY <1>2, <1>4, <1>5 DEF WindowShowsRun, Back
  <2>2. Len(window'[d]) <= W - 1 + stuck'[d]
    BY <1>0, <1>1, <1>2, <1>3, <1>4, <1>5
  <2> QED BY <1>2, <1>3, <1>7, <2>1, <2>2 DEF DeviceInv
<1>9. ASSUME NEW e \in Devices \ {d} PROVE DeviceInv(e)'
  <2>1. window'[e] = window[e]
    BY <1>0, <1>2 DEF EngineTypeOK
  <2> QED BY <1>0, <1>1, <1>2, <1>7, <2>1, SameDevice
<1>10. LastingAlertExact'
  BY <1>2 DEF LastingAlertExact, Idle
<1> QED BY <1>6, <1>8, <1>9, <1>10 DEF EngineInv, DeviceInv

LEMMA LastingFailsInv ==
    ASSUME EngineInv, LastingFails
    PROVE  EngineInv'
<1>0. /\ W \in Nat \ {0} /\ Nil \notin Devices
      /\ EngineTypeOK /\ \A e \in Devices : DeviceInv(e)
      /\ task.pc = "lasting"
  BY EngineAssumption DEF EngineInv, DeviceInv, LastingFails
<1>d. PICK d \in Devices : task.device = d
  BY <1>0 DEF EngineTypeOK, Idle
<1>1. /\ AtLasting(d) /\ \A e \in Devices \ {d} : ~AtLasting(e)
      /\ window[d] \in Seq(Levels) /\ stuck[d] \in Nat
  BY <1>0, <1>d DEF EngineTypeOK, Idle, AtLasting
<1>2. /\ stuck' = [stuck EXCEPT ![d] = @ + 1] /\ task' = Idle
      /\ run' = run /\ streak' = streak /\ window' = window /\ due' = Nil
  BY <1>d DEF LastingFails
<1>3. stuck'[d] = stuck[d] + 1 /\ stuck' \in [Devices -> Nat]
  BY <1>0, <1>1, <1>2 DEF EngineTypeOK
<1>4. EngineTypeOK'
  BY <1>0, <1>2, <1>3 DEF EngineTypeOK
<1>5. \A e \in Devices : ~AtLasting(e)' /\ ~AtInstant(e)'
  BY <1>2 DEF AtLasting, AtInstant, Idle
<1>6. DeviceInv(d)'
  <2>1. WindowShowsRun(window[d], run[d])' /\ run'[d] <= streak'[d]
    BY <1>0, <1>1, <1>2 DEF DeviceInv, WindowShowsRun, Back
  <2>2. Len(window[d]) <= W + stuck[d]
    BY <1>0, <1>1 DEF DeviceInv
  <2>3. Len(window'[d]) <= W - 1 + stuck'[d]
    BY <1>0, <1>1, <1>2, <1>3, <2>2
  <2> QED BY <1>5, <2>1, <2>3 DEF DeviceInv
<1>7. ASSUME NEW e \in Devices \ {d} PROVE DeviceInv(e)'
  <2>1. stuck'[e] = stuck[e]
    BY <1>0, <1>2 DEF EngineTypeOK
  <2> QED BY <1>0, <1>1, <1>2, <1>5, <2>1, SameDevice
<1>8. LastingAlertExact'
  BY <1>2 DEF LastingAlertExact, Idle
<1> QED BY <1>4, <1>6, <1>7, <1>8 DEF EngineInv, DeviceInv

\* The memory of a stopped process is gone: the invariant starts over.
LEMMA RestartInv == ASSUME EngineRestart PROVE EngineInv'
<1>0. W \in Nat \ {0}
  BY EngineAssumption
<1>1. EngineTypeOK'
  BY <1>0 DEF EngineRestart, EngineTypeOK, Levels
<1>2. ASSUME NEW d \in Devices PROVE WindowShowsRun(window[d], run[d])'
  BY <1>0 DEF EngineRestart, WindowShowsRun, Back
<1>3. LastingAlertExact' /\ task'.pc = "idle"
      /\ \A e \in Devices : run'[e] <= streak'[e] /\ Len(window'[e]) <= W - 1 + stuck'[e]
  BY <1>0 DEF EngineRestart, Idle, LastingAlertExact
<1> QED BY <1>1, <1>2, <1>3 DEF EngineInv, AtLasting, AtInstant

LEMMA EngineStep == EngineInv /\ [EngineNext]_engineVars => EngineInv'
<1> SUFFICES ASSUME EngineInv, [EngineNext]_engineVars PROVE EngineInv'
  OBVIOUS
<1>0. EngineTypeOK
  BY DEF EngineInv
<1>1. ASSUME NEW d \in Devices, ReceiveLow(d) PROVE EngineInv'
  BY <1>1, KeepLowInv DEF ReceiveLow
<1>2. ASSUME NEW d \in Devices, ReceiveHigh(d) PROVE EngineInv'
  BY <1>2, ReceiveHighInv
<1>3. CASE InstantWritten
  <2>1. PICK d \in Devices : task.device = d
    BY <1>0, <1>3 DEF EngineTypeOK, Idle, InstantWritten
  <2>2. AtInstant(d) /\ Judge(d, Append(window[d], "high")) /\ KeptHigh(d)
    BY <1>3, <2>1 DEF InstantWritten, AtInstant
  <2> QED BY <2>2, KeepHighInv
<1>4. CASE InstantFails
  BY <1>4, InstantFailsInv
<1>5. CASE LastingWritten
  BY <1>5, LastingWrittenInv
<1>6. CASE LastingFails
  BY <1>6, LastingFailsInv
<1>7. CASE EngineRestart
  BY <1>7, RestartInv
<1>8. CASE UNCHANGED engineVars
  BY <1>8 DEF engineVars, history, EngineInv, EngineTypeOK, WindowShowsRun, Back,
              AtLasting, AtInstant, LastingAlertExact
<1> QED BY <1>1, <1>2, <1>3, <1>4, <1>5, <1>6, <1>7, <1>8 DEF EngineNext

-----------------------------------------------------------------------------
(* Theorems                                                                *)

\* The windows, the handler's task and the history are well-typed whatever
\* writes fail and whenever the process restarts.
THEOREM EngineTypeCorrect == EngineSpec => []EngineTypeOK
<1>1. EngineInv => EngineTypeOK
  BY DEF EngineInv
<1> QED BY <1>1, EngineInitInv, EngineStep, PTL DEF EngineSpec

\* A lasting alert means W readings in a row above the threshold, failed
\* writes and restarts notwithstanding (rule_engine.py:59-69).
LEMMA InvSound == EngineInv => LastingAlertSound
<1> SUFFICES ASSUME EngineInv, task.pc = "lasting" PROVE streak[task.device] = W
  BY DEF LastingAlertSound
<1>1. PICK d \in Devices : task.device = d
  BY DEF EngineInv, EngineTypeOK, Idle
<1>2. run[d] = W /\ run[d] <= streak[d] /\ streak[d] \in 0..W
  BY <1>1 DEF EngineInv, EngineTypeOK, AtLasting
<1> QED BY <1>1, <1>2, EngineAssumption

THEOREM AlertsAreSound == EngineSpec => []LastingAlertSound
BY InvSound, EngineInitInv, EngineStep, PTL DEF EngineSpec

\* The rule of rule_engine.py:61-62, applied to a window that failed writes
\* have left too long, still speaks of the last W readings kept.
THEOREM AlertsAreExact == EngineSpec => []LastingAlertExact
<1>1. EngineInv => LastingAlertExact
  BY DEF EngineInv
<1> QED BY <1>1, EngineInitInv, EngineStep, PTL DEF EngineSpec

LEMMA InvBounded == EngineInv => WindowBounded
<1> SUFFICES ASSUME EngineInv, NEW d \in Devices
             PROVE  Len(window[d]) <= W - 1 + stuck[d]
                      + (IF task = [pc |-> "lasting", device |-> d] THEN 1 ELSE 0)
  BY DEF WindowBounded
<1>1. /\ W \in Nat \ {0} /\ stuck[d] \in Nat /\ Len(window[d]) \in Nat
      /\ task \in {Idle} \cup [pc : {"instant", "lasting"}, device : Devices]
  BY EngineAssumption DEF EngineInv, EngineTypeOK, Levels
<1>2. CASE AtLasting(d)
  <2>1. task = [pc |-> "lasting", device |-> d]
    BY <1>1, <1>2 DEF AtLasting, Idle
  <2>2. Len(window[d]) <= W + stuck[d]
    BY <1>2 DEF EngineInv
  <2> QED BY <1>1, <2>1, <2>2
<1>3. CASE ~AtLasting(d)
  <2>1. task # [pc |-> "lasting", device |-> d]
    BY <1>3 DEF AtLasting
  <2>2. Len(window[d]) <= W - 1 + stuck[d]
    BY <1>3 DEF EngineInv
  <2> QED BY <1>1, <2>1, <2>2
<1> QED BY <1>2, <1>3

\* The memory of the windows is bounded by W and the failed writes, however
\* many messages are handled.
THEOREM WindowsAreBounded == EngineSpec => []WindowBounded
BY InvBounded, EngineInitInv, EngineStep, PTL DEF EngineSpec
=============================================================================

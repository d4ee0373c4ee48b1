---------------------------- MODULE DataSimulator ----------------------------
(***************************************************************************)
(* data_simulator.py: the occupancy of each parking lot, moved every cycle *)
(* towards a target that follows the time of day, with noise.  The target  *)
(* and the noise are floating-point products truncated to integers; the    *)
(* model takes any integer between the least and the greatest value they   *)
(* can have.                                                               *)
(***************************************************************************)
EXTENDS Integers

CONSTANTS
    Devices,        \* parking lots
    Capacity        \* lot -> number of spots

VARIABLES occupied, free

-----------------------------------------------------------------------------
\* int(capacity * random.uniform(0.2, 0.8))
InitialOccupied(c) == (20 * c) \div 100 .. (80 * c) \div 100

\* int(capacity * trend * factor): get_occupancy_trend lies between 0.05 and
\* 0.85, the weekend factor goes down to 0.4, the peak-hour factor up to 1.2.
LeastTarget(c) == (2 * c) \div 100
GreatestTarget(c) == (102 * c) \div 100

\* int(capacity * uniform(-0.03, 0.03) * volatility), volatility up to 1.5
Noise(c) == (45 * c) \div 1000

\* target_occupied - current_occupied + randomness
Delta(c, o) ==
    LeastTarget(c) - o - Noise(c) .. GreatestTarget(c) - o + Noise(c)

\* int(delta * 0.5) rounds towards zero.
Halved(delta) == IF delta >= 0 THEN delta \div 2 ELSE -((-delta) \div 2)

\* abs(delta) > capacity * 0.1
Dampened(c, delta) ==
    IF 10 * delta > c \/ 10 * delta < -c THEN Halved(delta) ELSE delta

\* Variant of WithinBounds: the upper bound is forgotten.
WithinLowerBound(c, n) == IF n < 0 THEN 0 ELSE n

\* max(0, min(n, capacity))
WithinBounds(c, n) == IF n < 0 THEN 0 ELSE IF n > c THEN c ELSE n

\* Apply the change, dampened, within bounds.
NextOccupied(c, o, delta) == WithinBounds(c, o + Dampened(c, delta))

SimInit ==
    /\ occupied \in [Devices -> UNION {InitialOccupied(Capacity[d]) : d \in Devices}]
    /\ \A d \in Devices : occupied[d] \in InitialOccupied(Capacity[d])
    /\ free = [d \in Devices |-> Capacity[d] - occupied[d]]

\* update(): every lot at once.
Update ==
    \E delta \in [Devices -> UNION {Delta(Capacity[d], occupied[d]) : d \in Devices}] :
        /\ \A d \in Devices : delta[d] \in Delta(Capacity[d], occupied[d])
        /\ occupied' = [d \in Devices |->
                           NextOccupied(Capacity[d], occupied[d], delta[d])]
        /\ free' = [d \in Devices |-> Capacity[d] - occupied'[d]]

SimSpec == SimInit /\ [][Update]_<<occupied, free>>

-----------------------------------------------------------------------------
\* The two counts of a lot stay within 0..capacity and add up to it, whatever
\* the target, the noise and the damping come to.
CountsConsistent ==
    \A d \in Devices :
        /\ occupied[d] \in 0..Capacity[d]
        /\ free[d] \in 0..Capacity[d]
        /\ occupied[d] + free[d] = Capacity[d]
=============================================================================

----------------------------- MODULE MCTelemetry ----------------------------
(* Values for TLC: a lot of 23 spots, the smallest whose occupancy the      *)
(* noise can push past its capacity.                                        *)
EXTENDS Telemetry

MCCapacity == [d \in Devices |-> 23]
=============================================================================

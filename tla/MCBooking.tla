------------------------------ MODULE MCBooking -----------------------------
(* Values for TLC: each spot a parking lot of its own; clients and vehicles *)
(* are interchangeable.                                                     *)
EXTENDS BookingRequirements, TLC

MCLots == {{s} : s \in Spots}

RequestSymmetry == Permutations(Reqs)
ClientSymmetry == Permutations(Reqs) \cup Permutations(Vehicles)
=============================================================================

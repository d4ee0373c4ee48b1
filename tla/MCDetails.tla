------------------------------ MODULE MCDetails ------------------------------
(* Values for TLC: each spot a parking lot of its own; clients are         *)
(* interchangeable, and so are the spots with a row in parking_spots.      *)
EXTENDS SpotDetails, TLC

MCLots == {{s} : s \in Spots}

Symmetry == Permutations(Reqs) \cup Permutations(Inventory)
=============================================================================

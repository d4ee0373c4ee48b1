------------------------------ MODULE MCSeeding ------------------------------
(* Values for TLC: the only spot that is booked is the first of lot 1.     *)
EXTENDS Seeding

MCBookable == {<<1, 1>>}
=============================================================================

------------------------------ MODULE MCStatus ------------------------------
(* Values for TLC: two areas that round to one, of which only the first    *)
(* still reaches the lots.                                                 *)
EXTENDS StatusCache, TLC

CONSTANTS a1, a2

MCNear == (a1 :> Lots) @@ (a2 :> {})

MCRounded == (a1 :> "geo") @@ (a2 :> "geo")
=============================================================================

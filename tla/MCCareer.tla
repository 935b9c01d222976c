------------------------------ MODULE MCCareer ------------------------------
(* A small account and what is derived from it: two whole tracks of rungs  *)
(* for one licence, one requisition, one Commendation.                     *)
EXTENDS Views, TLC

MCCredit == 0 :> 100 @@ 1 :> 120 @@ 2 :> 145 @@ 3 :> 180

Rung(track, tier, cost) == [track |-> track, tier |-> tier, cost |-> cost]

MCRungs == {Rung(track, tier, 1) : track \in {"service", "permits"}, tier \in 1..TopTier}
MCRequisitions == {Rung("desk", 1, 0)}
MCCommendations == {Rung("intake", 1, 1)}
=============================================================================

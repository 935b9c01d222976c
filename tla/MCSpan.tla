-------------------------------- MODULE MCSpan --------------------------------
(* What a span does to a recruit, replayed minute by minute, and what the   *)
(* Special Assignments assess of it, to which a minute is what it may count *)
(* for: two machines checked side by side.  The initial state says which of *)
(* them moves, so that the states add up instead of multiplying; the other  *)
(* one stays where it starts.                                               *)
(* The replay has a short ladder, small percentages of ten, and few dice;   *)
(* the catalogue one entry of every metric but files, with a small target.  *)
EXTENDS Resolve, Assignments, TLC

VARIABLE machine

MCLadders == [holdings |-> <<2, 3>>, annexe |-> <<1, 3>>]

Quiet == [ruling |-> 0, file |-> 0, hit |-> 0, grievous |-> FALSE, xp |-> 0,
          hunger |-> TRUE, item |-> "", value |-> 0, coin |-> 0]
Ruling == [Quiet EXCEPT !.ruling = -2, !.coin = 3]
File == [Quiet EXCEPT !.file = 2, !.hit = 1, !.xp = 4]
Sword == [Quiet EXCEPT !.item = "sword", !.value = 3, !.hit = 9, !.xp = 2]
Torch == [Quiet EXCEPT !.item = "torch", !.value = 2, !.hit = 9]
Grievous == [Quiet EXCEPT !.hit = 9, !.grievous = TRUE]

MCRolls == {Quiet, File, Ruling, Sword, Torch, Grievous}

Order(site, target, retreat, policy) ==
  [site |-> site, target |-> target, retreat |-> retreat, policy |-> policy]

MCOrders == {Order("holdings", 3, 45, "resupply"), Order("annexe", 3, 10, "insure")}

Entry(metric, target, single, cap) ==
  [metric |-> metric, target |-> target, single |-> single, cap |-> cap]

MCCatalogue ==
  [unassisted |-> Entry("depth", 2, FALSE, NoCap), soleCharge |-> Entry("service", 3, TRUE, NoCap),
   junior |-> Entry("floors", 2, FALSE, 1), narrowRemit |-> Entry("grade", 2, FALSE, NoCap)]

SpanInit ==
  /\ machine \in {"replay", "board"} /\ Init /\ BoardInit
  /\ machine = "board" => orders.site = "holdings"   \* one order is enough to stand still with

SpanNext ==
  /\ UNCHANGED machine
  /\ \/ machine = "replay" /\ Next /\ UNCHANGED boardVars
     \/ machine = "board" /\ BoardNext /\ UNCHANGED vars

SpanSpec == SpanInit /\ [][SpanNext]_<<machine, vars, boardVars>>
=============================================================================

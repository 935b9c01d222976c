----------------------------- MODULE Entitlement -----------------------------
(***************************************************************************)
(* What an account is promised about its pension, and nothing of how.      *)
(*                                                                         *)
(* A recruit serves.  When it dies an award falls due, and stays due, the  *)
(* same, until the officer files for it; then it is held, and the next     *)
(* recruit serves.  A recruit that retires is paid at once.  What is held  *)
(* can be used, and a transfer takes back all of it.                       *)
(***************************************************************************)
EXTENDS Naturals

VARIABLES serving, due, held, used

vars == <<serving, due, held, used>>

Init == serving = TRUE /\ due = 0 /\ held = 0 /\ used = 0

(* A death: the award is fixed here, whoever notices it.                   *)
Assess ==
  /\ serving /\ ~serving'
  /\ due' \in Nat
  /\ UNCHANGED <<held, used>>

(* The award due is banked, once, and service resumes.                     *)
Bank ==
  /\ ~serving /\ serving'
  /\ held' = held + due
  /\ due' = 0
  /\ UNCHANGED used

(* Pension held is used: the sum of the two does not change.               *)
Spend ==
  /\ used' \in used..(used + held)
  /\ held' + used' = held + used
  /\ UNCHANGED <<serving, due>>

(* A retirement is banked at once, whatever was used in the same visit.    *)
Retire ==
  /\ serving
  /\ used' \in used..(used + held)
  /\ held' + used' >= held + used
  /\ UNCHANGED <<serving, due>>

Surrender ==
  /\ serving
  /\ held' = 0 /\ used' = 0
  /\ UNCHANGED <<serving, due>>

Next == Assess \/ Bank \/ Spend \/ Retire \/ Surrender

Spec == Init /\ [][Next]_vars
=============================================================================

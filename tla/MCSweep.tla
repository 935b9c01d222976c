------------------------------- MODULE MCSweep -------------------------------
(* Sweep with recruits whom every tick kills that deep orders send them    *)
(* into with a bare file.                                                  *)
EXTENDS Sweep

MCFatal ==
  [num: Recruits, tick: Times \ {0}, orders: {"deep"}, file: {Bare}]
=============================================================================

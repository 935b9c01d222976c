----------------------------- MODULE MCRequests -----------------------------
(* A write on its way from the phone to a handler: the client that sends   *)
(* it, and the limiter and the key it meets in front of the route.  Three  *)
(* machines that share nothing that is modelled, checked side by side: the *)
(* initial state says which of them moves, so that the states add up       *)
(* instead of multiplying, and the others stay where they start.           *)
EXTENDS Idempotency, RateLimit, Client

VARIABLE station

(* One field of two values, a window and a page of one line.  The faults   *)
(* come a few at a time.                                                   *)
MCFiled == [f \in Fields |-> 1]
MCBudgets == {[acts |-> 2, ticks |-> 1, lost |-> 1, turns |-> 0],
              [acts |-> 1, ticks |-> 0, lost |-> 0, turns |-> 2],
              [acts |-> 1, ticks |-> 0, lost |-> 1, turns |-> 1],
              [acts |-> 1, ticks |-> 1, lost |-> 2, turns |-> 0]}

(* A machine that does not move needs one initial state only.              *)
RequestsInit ==
  /\ station \in {"key", "limiter", "phone"}
  /\ Init /\ LimiterInit /\ ClientInit
  /\ station # "phone" => net.token = 0 /\ left = CHOOSE b \in Budgets : TRUE

RequestsNext ==
  /\ UNCHANGED station
  /\ \/ station = "key" /\ Next /\ UNCHANGED <<limiterVars, clientVars>>
     \/ station = "limiter" /\ LimiterNext /\ UNCHANGED <<vars, clientVars>>
     \/ station = "phone" /\ ClientNext /\ UNCHANGED <<vars, limiterVars>>

(* The fairness of each machine, for as long as it is the one that moves.  *)
RequestsFairness ==
  /\ \A a \in Attempts :
       /\ WF_vars(station = "key" /\ Serve(a))
       /\ \A p \in Purchases : SF_vars(station = "key" /\ Send(a, p))
  /\ WF_vars(station = "key" /\ Second)
  /\ WF_clientVars(station = "phone" /\ Poll)
  /\ WF_clientVars(station = "phone" /\ SignInMoves)
  /\ \A c \in Callers : WF_clientVars(station = "phone" /\ CallMoves(c))

RequestsSpec ==
  RequestsInit /\ [][RequestsNext]_<<station, vars, limiterVars, clientVars>> /\ RequestsFairness
=============================================================================

--------------------------- MODULE MCTransactions ---------------------------
EXTENDS Transactions

MCRequests == 1..3

Order == <<"claim", "retire", "transfer", "rung", "state", "desk", "hire",
           "policy", "abandon", "commendation", "absent">>

Rank(k) == CHOOSE n \in DOMAIN Order : Order[n] = k

(* Requests differ only in what they ask for: any two handlers, or a claim *)
(* with two that end a career, bank it, or spend the pension.               *)
MCMixes == {f \in [MCRequests -> Kinds] :
                /\ Rank(f[1]) <= Rank(f[2]) /\ Rank(f[2]) <= Rank(f[3])
                /\ Rank(f[2]) < Rank("absent")
                /\ \/ f[3] = "absent"
                   \/ f[1] = "claim" /\ Rank(f[3]) <= Rank("state")}
=============================================================================

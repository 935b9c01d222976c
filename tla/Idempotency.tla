----------------------------- MODULE Idempotency -----------------------------
(***************************************************************************)
(* One Idempotency-Key of one account: its row in idempotency_keys, and    *)
(* the requests that carry it through the two hooks.                       *)
(*                                                                         *)
(* The row and the purchase are written by different transactions, one SQL *)
(* statement each for the row, so every statement is a step of its own.    *)
(* A purchase stands for a route with its body hash; whether the route     *)
(* goes through or is refused depends on a purse not modelled here.        *)
(* `lapses' is history: the ways in which the one row has stopped standing *)
(* for the one request at work.                                            *)
(***************************************************************************)
EXTENDS Naturals

CONSTANTS
  Attempts,          \* the requests in the air at a time: first sends and retries
  Purchases,         \* what a request with the key may ask for
  NoPurchase,
  Stale, Retention,  \* STALE_RESERVATION_SECONDS and KEY_RETENTION_SECONDS, scaled
  MaxDeaths          \* bound: requests cut short by a process or connection lost

ASSUME IdempotencyAssumption ==
  /\ {Stale, Retention, MaxDeaths} \subseteq Nat
  /\ NoPurchase \notin Purchases

VARIABLES row, at, asks, charged, deaths, lapses

vars == <<row, at, asks, charged, deaths, lapses>>

Age == 0..(Retention + 1)   \* every age past retention is the same

Absent == [state |-> "absent", purchase |-> NoPurchase, response |-> NoPurchase, age |-> 0]

Row ==
  {Absent}
  \cup [state: {"reserved"}, purchase: Purchases, response: {NoPurchase}, age: Age]
  \cup [state: {"done"}, purchase: Purchases, response: Purchases, age: Age]

(* Past preHandler with a `fresh' claim, and not yet through onSend.       *)
Working(a) == at[a] \in {"acting", "completing", "releasing"}

Init ==
  /\ row = Absent
  /\ at = [a \in Attempts |-> "idle"]
  /\ asks = [a \in Attempts |-> NoPurchase]
  /\ charged = [p \in Purchases |-> 0]
  /\ deaths = 0
  /\ lapses = {}

-----------------------------------------------------------------------------
(* What the statements do to the row *)

Reserved(p) == [state |-> "reserved", purchase |-> p, response |-> NoPurchase, age |-> 0]

(* Mutations of the outcome's record: never written, or written empty.     *)
CompletedNever(r, p) == r
CompletedBlank(r, p) == IF r.state = "absent" THEN r ELSE [r EXCEPT !.state = "done"]

(* The outcome, on whatever row the key has by now; none if it has none.   *)
Completed(r, p) ==
  IF r.state = "absent" THEN r ELSE [r EXCEPT !.state = "done", !.response = p]

(* Mutation: a refusal leaves the row where it is.                         *)
ReleasedNever(r) == r

Released(r) == Absent

(* Mutation: a reservation never presumed dead.                            *)
AbandonedNever(r) == FALSE

Abandoned(r) == r.age > Stale

(* Mutation: a refusal recorded like a success.                            *)
AfterRefusalRecorded == "completing"

(* Only 2xx is recorded; anything else releases the key.                   *)
AfterRefusal == "releasing"

-----------------------------------------------------------------------------
(* A request, statement by statement *)

(* The client sends the purchase, or sends it again.  INSERT ... ON        *)
(* CONFLICT DO NOTHING: whoever gets a row back goes on to the route.      *)
Send(a, p) ==
  /\ at[a] = "idle"
  /\ asks' = [asks EXCEPT ![a] = p]
  /\ \/ /\ row.state = "absent"
        /\ row' = Reserved(p)
        /\ at' = [at EXCEPT ![a] = "acting"]
     \/ /\ row.state # "absent"
        /\ at' = [at EXCEPT ![a] = "looking"]
        /\ UNCHANGED row
  /\ UNCHANGED <<charged, deaths, lapses>>

(* The row is gone by the SELECT: nobody is presumed to hold it, and the   *)
(* request goes on without one.                                            *)
LookFindsNone(a) ==
  /\ at[a] = "looking"
  /\ row.state = "absent"
  /\ at' = [at EXCEPT ![a] = "acting"]
  /\ lapses' = lapses \cup {"unheld"}
  /\ UNCHANGED <<row, asks, charged, deaths>>

(* `conflict', `in_flight' and `replay' answer the client from the row.    *)
LookAnswers(a) ==
  /\ at[a] = "looking"
  /\ \/ row.state # "absent" /\ row.purchase # asks[a]
     \/ row.state = "reserved" /\ ~Abandoned(row)
     \/ row.state = "done"
  /\ at' = [at EXCEPT ![a] = "idle"]
  /\ UNCHANGED <<row, asks, charged, deaths, lapses>>

LookFindsAbandoned(a) ==
  /\ at[a] = "looking"
  /\ row.state = "reserved" /\ row.purchase = asks[a] /\ Abandoned(row)
  /\ at' = [at EXCEPT ![a] = "reclaiming"]
  /\ UNCHANGED <<row, asks, charged, deaths, lapses>>

(* The UPDATE that takes an abandoned row over looks at nothing again: the *)
(* row may by now be gone, answered, or somebody else's.                   *)
Reclaim(a) ==
  /\ at[a] = "reclaiming"
  /\ row' = IF row.state = "absent" THEN row ELSE [row EXCEPT !.age = 0]
  /\ at' = [at EXCEPT ![a] = "acting"]
  /\ lapses' = lapses
       \cup (IF row.state = "absent" THEN {"unheld"} ELSE {})
       \cup (IF row.state = "done" \/ row.purchase # asks[a] \/ \E b \in Attempts : Working(b)
             THEN {"shared"} ELSE {})
  /\ UNCHANGED <<asks, charged, deaths>>

(* The route's own transaction: committed, or refused and rolled back.     *)
Commit(a) ==
  /\ at[a] = "acting"
  /\ charged' = [charged EXCEPT ![asks[a]] = IF @ < 2 THEN @ + 1 ELSE 2]  \* two is too many already
  /\ at' = [at EXCEPT ![a] = "completing"]
  /\ UNCHANGED <<row, asks, deaths, lapses>>

Refuse(a) ==
  /\ at[a] = "acting"
  /\ at' = [at EXCEPT ![a] = AfterRefusal]
  /\ UNCHANGED <<row, asks, charged, deaths, lapses>>

(* onSend, before the client hears.                                        *)
Complete(a) ==
  /\ at[a] = "completing"
  /\ row' = Completed(row, asks[a])
  /\ at' = [at EXCEPT ![a] = "idle"]
  /\ UNCHANGED <<asks, charged, deaths, lapses>>

Release(a) ==
  /\ at[a] = "releasing"
  /\ row' = Released(row)
  /\ at' = [at EXCEPT ![a] = "idle"]
  /\ UNCHANGED <<asks, charged, deaths, lapses>>

-----------------------------------------------------------------------------
(* Everything else *)

(* The process serving the request dies between two of its statements.     *)
Die(a) ==
  /\ at[a] # "idle"
  /\ deaths < MaxDeaths
  /\ deaths' = deaths + 1
  /\ at' = [at EXCEPT ![a] = "idle"]
  /\ lapses' = lapses \cup (IF at[a] = "completing" THEN {"death"} ELSE {})
  /\ UNCHANGED <<row, asks, charged>>

Second ==
  /\ row.state # "absent"
  /\ row.age <= Retention
  /\ row' = [row EXCEPT !.age = @ + 1]
  /\ UNCHANGED <<at, asks, charged, deaths, lapses>>

(* The sweep's DELETE by age, of rows answered and rows held alike.        *)
Expire ==
  /\ row.state # "absent"
  /\ row.age > Retention
  /\ row' = Absent
  /\ lapses' = lapses \cup {"expired"}
  /\ UNCHANGED <<at, asks, charged, deaths>>

Serve(a) ==
  \/ LookFindsNone(a) \/ LookAnswers(a) \/ LookFindsAbandoned(a) \/ Reclaim(a)
  \/ Commit(a) \/ Refuse(a) \/ Complete(a) \/ Release(a)

Next ==
  \/ \E a \in Attempts : (\E p \in Purchases : Send(a, p)) \/ Serve(a) \/ Die(a)
  \/ Second
  \/ Expire

(* A request that was sent is served, seconds pass, and an officer whose   *)
(* purchase failed keeps trying it, whatever else is sent with the key in  *)
(* between.  Nothing obliges the sweep to run: RUN_SWEEP may be off.       *)
Fairness ==
  /\ \A a \in Attempts : WF_vars(Serve(a)) /\ \A p \in Purchases : SF_vars(Send(a, p))
  /\ WF_vars(Second)

Spec == Init /\ [][Next]_vars /\ Fairness

-----------------------------------------------------------------------------
(* Properties *)

(* The row, the requests and the counts are well formed; in particular a   *)
(* row that is answered has an answer to replay.                           *)
TypeOK ==
  /\ row \in Row
  /\ at \in [Attempts -> {"idle", "looking", "reclaiming", "acting", "completing", "releasing"}]
  /\ asks \in [Attempts -> Purchases \cup {NoPurchase}]
  /\ \A a \in Attempts : at[a] # "idle" => asks[a] \in Purchases
  /\ charged \in [Purchases -> 0..2]
  /\ deaths \in 0..MaxDeaths
  /\ lapses \subseteq {"unheld", "shared", "death", "expired"}

(* idempotency.ts:2, a retried purchase must not charge twice: as long as  *)
(* the row kept standing for the one request at work, everything sent with *)
(* the key, at once or in turn, charged once between it all.               *)
ChargedOnce ==
  lapses = {} => \A p, q \in Purchases : charged[p] + (IF p = q THEN 0 ELSE charged[q]) <= 1

(* What a retry is told was bought was bought, whatever else went wrong,   *)
(* and unless something did it is what that retry asked for.               *)
ReplayTellsTheTruth ==
  row.state = "done" =>
    /\ charged[row.response] > 0
    /\ lapses = {} => row.response = row.purchase

(* A refusal frees the key: a reservation nobody is working under is the   *)
(* mark of a process that died.                                            *)
ReservedMeansServed ==
  row.state = "reserved" => deaths > 0 \/ \E a \in Attempts : Working(a)

(* postgres.ts:455: a reservation is not left jammed forever, not even by  *)
(* a process that died and with no sweep to expire it.                     *)
KeyNeverJams == row.state = "reserved" ~> row.state # "reserved"
=============================================================================

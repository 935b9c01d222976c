----------------------------- MODULE Gates_proofs -----------------------------
(***************************************************************************)
(* Theorems about the two gates in front of a write: Idempotency, for any  *)
(* number of requests in the air, any purchases sent with the key, and any *)
(* timings; and RateLimit, for any keys and any limits that meet           *)
(* LimitAssumption.                                                        *)
(*                                                                         *)
(* A key charges once, and a replay tells the truth.  While nothing has    *)
(* lapsed the row stands for the one request at work (Held), and the       *)
(* charges are what the row and that request say they are (Accounts): none *)
(* before the commit, one of the purchase asked for between the commit and *)
(* the outcome, one of the purchase on the row after it.                   *)
(*                                                                         *)
(* What a bucket is worth, Refilled, is never more than what one never     *)
(* forgotten holds; forgetting changes nothing that a bucket is worth, for *)
(* it is full again by then.  What the last refusal promised is still to   *)
(* come, on top of that worth.                                             *)
(***************************************************************************)
EXTENDS Idempotency, RateLimit, TLAPS

-----------------------------------------------------------------------------
(* The key *)


(* The charges when only p has gone through, and when nothing has.         *)
Only(p) == [q \in Purchases |-> IF q = p THEN 1 ELSE 0]
Nothing == [q \in Purchases |-> 0]

Held ==
  lapses = {} =>
    \A a \in Attempts : Working(a) =>
      /\ row.state = "reserved" /\ row.purchase = asks[a]
      /\ \A b \in Attempts : Working(b) => a = b

Accounts ==
  lapses = {} =>
    /\ row.state = "done" => row.response = row.purchase /\ charged = Only(row.purchase)
    /\ \A a \in Attempts : at[a] = "completing" => charged = Only(asks[a])
    /\ row.state # "done" /\ (\A a \in Attempts : at[a] # "completing") => charged = Nothing

(* What is answered, or about to be, was charged, lapses or none.          *)
Backed ==
  /\ row.state = "done" => charged[row.response] > 0
  /\ \A a \in Attempts : at[a] = "completing" => charged[asks[a]] > 0

IInv == TypeOK /\ Held /\ Accounts /\ Backed

-----------------------------------------------------------------------------
(* The rows, seen by their fields.                                         *)
LEMMA RowFields ==
  ASSUME NEW r \in Row
  PROVE  /\ r.state \in {"absent", "reserved", "done"}
         /\ r.state = "absent" => r = Absent
         /\ r.state # "absent" => r.purchase \in Purchases /\ r.age \in Age
         /\ r.state = "reserved" => r.response = NoPurchase
         /\ r.state = "done" => r.response \in Purchases
BY DEF Row, Absent

LEMMA RowOf ==
  ASSUME NEW r \in Row, r.state # "absent"
  PROVE  /\ \A n \in Age : [r EXCEPT !.age = n] \in Row
         /\ \A p \in Purchases : Completed(r, p) \in Row
  <1>1. CASE r.state = "reserved"
    <2>1. r \in [state: {"reserved"}, purchase: Purchases, response: {NoPurchase}, age: Age]
      BY <1>1 DEF Row, Absent
    <2>2. \A n \in Age : [r EXCEPT !.age = n] \in
            [state: {"reserved"}, purchase: Purchases, response: {NoPurchase}, age: Age]
      BY <2>1
    <2>3. \A p \in Purchases : [r EXCEPT !.state = "done", !.response = p] \in
            [state: {"done"}, purchase: Purchases, response: Purchases, age: Age]
      BY <2>1
    <2> QED  BY <1>1, <2>2, <2>3 DEF Row, Completed
  <1>2. CASE r.state = "done"
    <2>1. r \in [state: {"done"}, purchase: Purchases, response: Purchases, age: Age]
      BY <1>2 DEF Row, Absent
    <2>2. \A n \in Age : [r EXCEPT !.age = n] \in
            [state: {"done"}, purchase: Purchases, response: Purchases, age: Age]
      BY <2>1
    <2>3. \A p \in Purchases : [r EXCEPT !.state = "done", !.response = p] \in
            [state: {"done"}, purchase: Purchases, response: Purchases, age: Age]
      BY <2>1
    <2> QED  BY <1>2, <2>2, <2>3 DEF Row, Completed
  <1> QED  BY <1>1, <1>2, RowFields

(* Every statement leaves the row, the requests and the counts well formed. *)
LEMMA TypeStep == TypeOK /\ [Next]_vars => TypeOK'
  <1> SUFFICES ASSUME TypeOK, [Next]_vars PROVE TypeOK'
    OBVIOUS
  <1> USE IdempotencyAssumption
  <1>0. 0 \in Age /\ Stale \in Nat /\ Retention \in Nat /\ MaxDeaths \in Nat
    BY DEF Age
  <1>1. ASSUME NEW a \in Attempts, NEW p \in Purchases, Send(a, p) PROVE TypeOK'
    <2>1. Reserved(p) \in Row
      BY <1>0 DEF Row, Reserved
    <2> QED  BY <1>1, <2>1 DEF Send, TypeOK
  <1>2. ASSUME NEW a \in Attempts,
               \/ LookFindsNone(a) \/ LookAnswers(a) \/ LookFindsAbandoned(a) \/ Refuse(a)
        PROVE TypeOK'
    BY <1>2 DEF LookFindsNone, LookAnswers, LookFindsAbandoned, Refuse, AfterRefusal, TypeOK
  <1>3. ASSUME NEW a \in Attempts, Reclaim(a) PROVE TypeOK'
    <2>1. row' \in Row
      BY <1>0, <1>3, RowOf DEF Reclaim, TypeOK
    <2>2. lapses' \subseteq {"unheld", "shared", "death", "expired"}
      BY <1>3 DEF Reclaim, TypeOK
    <2> QED  BY <1>3, <2>1, <2>2 DEF Reclaim, TypeOK
  <1>4. ASSUME NEW a \in Attempts, Commit(a) PROVE TypeOK'
    <2>1. asks[a] \in Purchases
      BY <1>4 DEF Commit, TypeOK
    <2>2. charged[asks[a]] \in 0..2
      BY <2>1 DEF TypeOK
    <2>3. (IF charged[asks[a]] < 2 THEN charged[asks[a]] + 1 ELSE 2) \in 0..2
      BY <2>2
    <2> QED  BY <1>4, <2>1, <2>3 DEF Commit, TypeOK
  <1>5. ASSUME NEW a \in Attempts, Complete(a) PROVE TypeOK'
    <2>1. asks[a] \in Purchases
      BY <1>5 DEF Complete, TypeOK
    <2>2. row' \in Row
      BY <1>5, <2>1, RowOf DEF Complete, Completed, TypeOK
    <2> QED  BY <1>5, <2>2 DEF Complete, TypeOK
  <1>6. ASSUME NEW a \in Attempts, Release(a) PROVE TypeOK'
    BY <1>6 DEF Release, Released, Row, TypeOK
  <1>7. ASSUME NEW a \in Attempts, Die(a) PROVE TypeOK'
    BY <1>0, <1>7 DEF Die, TypeOK
  <1>8. CASE Second
    <2>1. row.age + 1 \in Age
      BY <1>0, <1>8, RowFields DEF Second, Age, TypeOK
    <2> QED  BY <1>8, <2>1, RowOf DEF Second, TypeOK
  <1>9. CASE Expire
    BY <1>9 DEF Expire, Row, TypeOK
  <1>10. CASE UNCHANGED vars
    BY <1>10 DEF vars, TypeOK
  <1> QED  BY <1>1, <1>2, <1>3, <1>4, <1>5, <1>6, <1>7, <1>8, <1>9, <1>10 DEF Next, Serve

LEMMA TypeInit == Init => TypeOK
BY IdempotencyAssumption DEF Init, TypeOK, Row

(* The row, the requests and the counts stay well formed whatever the      *)
(* requests, the sweep and the deaths do, in any order.                    *)
THEOREM TypeCorrect == Spec => []TypeOK
BY TypeInit, TypeStep, PTL DEF Spec

-----------------------------------------------------------------------------
(* The strengthening holds at the start.                                   *)
LEMMA IInit == Init => IInv
BY TypeInit DEF Init, IInv, Held, Accounts, Backed, Working, Absent, Nothing

(* What the strengthening says of a request that has a row to itself.      *)
LEMMA AtWork ==
  ASSUME IInv, lapses = {}, NEW a \in Attempts, Working(a)
  PROVE  /\ row.state = "reserved" /\ row.purchase = asks[a]
         /\ \A b \in Attempts : Working(b) => a = b
         /\ at[a] = "completing" => charged = Only(asks[a])
         /\ at[a] # "completing" => charged = Nothing
  <1>1. /\ row.state = "reserved" /\ row.purchase = asks[a]
        /\ \A b \in Attempts : Working(b) => a = b
    BY DEF IInv, Held
  <1>2. at[a] # "completing" => \A b \in Attempts : at[b] # "completing"
    BY <1>1 DEF Working
  <1> QED  BY <1>1, <1>2 DEF IInv, Accounts

(* A request that starts work does so over an unanswered row of its own,   *)
(* with nobody else at work, or something lapses.                          *)
LEMMA HeldStep == IInv /\ [Next]_vars => Held'
  <1> SUFFICES ASSUME IInv, [Next]_vars, lapses' = {},
                      NEW a \in Attempts, Working(a)', NEW b \in Attempts, Working(b)'
               PROVE  row'.state = "reserved" /\ row'.purchase = asks'[a] /\ a = b
    BY DEF Held
  <1>0. lapses = {}
    BY DEF Next, Serve, Send, LookFindsNone, LookAnswers, LookFindsAbandoned, Reclaim, Commit,
           Refuse, Complete, Release, Die, Second, Expire, vars
  <1>1. \A c, d \in Attempts : Working(c) /\ Working(d) =>
          row.state = "reserved" /\ row.purchase = asks[c] /\ c = d
    BY <1>0 DEF IInv, Held
  <1>2. TypeOK
    BY DEF IInv
  <1>3. ASSUME NEW c \in Attempts, NEW p \in Purchases, Send(c, p)
        PROVE  row'.state = "reserved" /\ row'.purchase = asks'[a] /\ a = b
    <2>1. CASE row.state = "absent"
      <3>1. \A d \in Attempts : ~Working(d)
        BY <1>1, <2>1
      <3>2. a = c /\ b = c
        BY <1>2, <1>3, <2>1, <3>1 DEF Send, Working, TypeOK
      <3>3. row' = Reserved(p) /\ asks'[a] = p
        BY <1>2, <1>3, <2>1, <3>2 DEF Send, TypeOK
      <3> QED  BY <3>2, <3>3 DEF Reserved
    <2>2. CASE row.state # "absent"
      <3>1. Working(a) /\ Working(b) /\ row' = row /\ asks'[a] = asks[a]
        BY <1>2, <1>3, <2>2 DEF Send, Working, TypeOK
      <3> QED  BY <1>1, <3>1
    <2> QED  BY <2>1, <2>2
  <1>4. ASSUME NEW c \in Attempts, LookAnswers(c) \/ LookFindsAbandoned(c)
        PROVE  row'.state = "reserved" /\ row'.purchase = asks'[a] /\ a = b
    <2>1. Working(a) /\ Working(b) /\ row' = row /\ asks' = asks
      BY <1>2, <1>4 DEF LookAnswers, LookFindsAbandoned, Working, TypeOK
    <2> QED  BY <1>1, <2>1
  <1>5. ASSUME NEW c \in Attempts, LookFindsNone(c)
        PROVE  FALSE
    BY <1>5 DEF LookFindsNone
  <1>6. ASSUME NEW c \in Attempts, Reclaim(c)
        PROVE  row'.state = "reserved" /\ row'.purchase = asks'[a] /\ a = b
    <2>1. row.state # "absent" /\ row.state # "done" /\ row.purchase = asks[c]
      BY <1>6 DEF Reclaim
    <2>2. \A d \in Attempts : ~Working(d)
      BY <1>6 DEF Reclaim
    <2>3. a = c /\ b = c
      BY <1>2, <1>6, <2>2 DEF Reclaim, Working, TypeOK
    <2>4. row'.state = row.state /\ row'.purchase = row.purchase /\ asks' = asks
      <3>1. row' = [row EXCEPT !.age = 0] /\ asks' = asks
        BY <1>6, <2>1 DEF Reclaim
      <3> QED  BY <3>1, <1>2 DEF TypeOK, Row, Absent
    <2>5. row.state \in {"absent", "reserved", "done"}
      BY <1>2, RowFields DEF TypeOK
    <2> QED  BY <2>1, <2>3, <2>4, <2>5
  <1>7. ASSUME NEW c \in Attempts, Commit(c) \/ Refuse(c)
        PROVE  row'.state = "reserved" /\ row'.purchase = asks'[a] /\ a = b
    <2>1. Working(a) /\ Working(b) /\ row' = row /\ asks' = asks
      BY <1>2, <1>7 DEF Commit, Refuse, AfterRefusal, Working, TypeOK
    <2> QED  BY <1>1, <2>1
  <1>8. ASSUME NEW c \in Attempts, Complete(c) \/ Release(c)
        PROVE  FALSE
    <2>1. Working(c)
      BY <1>8 DEF Complete, Release, Working
    <2>2. a # c /\ Working(a)
      BY <1>2, <1>8 DEF Complete, Release, Working, TypeOK
    <2> QED  BY <1>1, <2>1, <2>2
  <1>9. ASSUME NEW c \in Attempts, Die(c)
        PROVE  row'.state = "reserved" /\ row'.purchase = asks'[a] /\ a = b
    <2>1. Working(a) /\ Working(b) /\ row' = row /\ asks' = asks
      BY <1>2, <1>9 DEF Die, Working, TypeOK
    <2> QED  BY <1>1, <2>1
  <1>10. CASE Second
    <2>1. Working(a) /\ Working(b) /\ asks' = asks
      BY <1>10 DEF Second, Working
    <2>2. row'.state = row.state /\ row'.purchase = row.purchase
      <3>1. row' = [row EXCEPT !.age = row.age + 1]
        BY <1>10 DEF Second
      <3> QED  BY <3>1, <1>2 DEF TypeOK, Row, Absent
    <2> QED  BY <1>1, <2>1, <2>2
  <1>11. CASE Expire
    BY <1>11 DEF Expire
  <1>12. CASE UNCHANGED vars
    BY <1>1, <1>12 DEF vars, Working
  <1> QED  BY <1>3, <1>4, <1>5, <1>6, <1>7, <1>8, <1>9, <1>10, <1>11, <1>12 DEF Next, Serve

(* The charges stay what the row and the request at work say they are.     *)
LEMMA AccountsStep == IInv /\ [Next]_vars => Accounts'
  <1> SUFFICES ASSUME IInv, [Next]_vars, lapses' = {}
               PROVE  /\ row'.state = "done" =>
                           row'.response = row'.purchase /\ charged' = Only(row'.purchase)
                      /\ \A a \in Attempts : at'[a] = "completing" => charged' = Only(asks'[a])
                      /\ row'.state # "done" /\ (\A a \in Attempts : at'[a] # "completing")
                           => charged' = Nothing
    BY DEF Accounts, Only, Nothing
  <1> DEFINE Goal ==
        /\ row'.state = "done" =>
             row'.response = row'.purchase /\ charged' = Only(row'.purchase)
        /\ \A a \in Attempts : at'[a] = "completing" => charged' = Only(asks'[a])
        /\ row'.state # "done" /\ (\A a \in Attempts : at'[a] # "completing")
             => charged' = Nothing
  <1>0. lapses = {} /\ TypeOK
    BY DEF Next, Serve, Send, LookFindsNone, LookAnswers, LookFindsAbandoned, Reclaim, Commit,
           Refuse, Complete, Release, Die, Second, Expire, vars, IInv
  <1>1. /\ row.state = "done" => row.response = row.purchase /\ charged = Only(row.purchase)
        /\ \A a \in Attempts : at[a] = "completing" => charged = Only(asks[a])
        /\ row.state # "done" /\ (\A a \in Attempts : at[a] # "completing") => charged = Nothing
    BY <1>0 DEF IInv, Accounts
  <1>2. \A a \in Attempts : Working(a) =>
          /\ row.state = "reserved" /\ row.purchase = asks[a]
          /\ \A b \in Attempts : Working(b) => a = b
          /\ at[a] = "completing" => charged = Only(asks[a])
          /\ at[a] # "completing" => charged = Nothing
    BY <1>0, AtWork
  <1>3. ASSUME NEW c \in Attempts, NEW p \in Purchases, Send(c, p) PROVE Goal
    <2>1. \A a \in Attempts : at'[a] = "completing" => at[a] = "completing" /\ asks'[a] = asks[a]
      BY <1>0, <1>3 DEF Send, TypeOK
    <2>2. \A a \in Attempts : at[a] = "completing" => at'[a] = "completing"
      BY <1>0, <1>3 DEF Send, TypeOK
    <2>3. row'.state = "done" => row' = row
      BY <1>3 DEF Send, Reserved
    <2>4. row.state = "done" => row' = row
      BY <1>3 DEF Send
    <2> QED  BY <1>1, <1>3, <2>1, <2>2, <2>3, <2>4 DEF Send
  <1>4. ASSUME NEW c \in Attempts,
               LookFindsNone(c) \/ LookAnswers(c) \/ LookFindsAbandoned(c) \/ Refuse(c)
        PROVE  Goal
    <2>1. row' = row /\ asks' = asks /\ charged' = charged
      BY <1>4 DEF LookFindsNone, LookAnswers, LookFindsAbandoned, Refuse
    <2>2. \A a \in Attempts : at'[a] = "completing" <=> at[a] = "completing"
      BY <1>0, <1>4 DEF LookFindsNone, LookAnswers, LookFindsAbandoned, Refuse, AfterRefusal, TypeOK
    <2> QED  BY <1>1, <2>1, <2>2
  <1>5. ASSUME NEW c \in Attempts, Reclaim(c) PROVE Goal
    <2>1. row.state # "done" /\ row'.state = row.state /\ asks' = asks /\ charged' = charged
      <3>1. row' = [row EXCEPT !.age = 0] /\ row.state # "done"
        BY <1>5 DEF Reclaim
      <3> QED  BY <1>5, <3>1, <1>0 DEF Reclaim, TypeOK, Row, Absent
    <2>2. \A a \in Attempts : at'[a] = "completing" <=> at[a] = "completing"
      BY <1>0, <1>5 DEF Reclaim, TypeOK
    <2> QED  BY <1>1, <2>1, <2>2
  <1>6. ASSUME NEW c \in Attempts, Commit(c) PROVE Goal
    <2>1. Working(c) /\ at[c] # "completing" /\ asks[c] \in Purchases
      BY <1>0, <1>6 DEF Commit, Working, TypeOK
    <2>2. charged = Nothing /\ row.state = "reserved"
      BY <1>2, <2>1
    <2>3. charged' = Only(asks[c])
      BY <1>6, <2>1, <2>2 DEF Commit, Only, Nothing
    <2>4. \A a \in Attempts : at'[a] = "completing" => a = c
      <3>1. \A a \in Attempts : at[a] = "completing" => a = c
        BY <1>2, <2>1 DEF Working
      <3> QED  BY <1>0, <1>6, <3>1 DEF Commit, TypeOK
    <2>5. row' = row /\ asks' = asks /\ at'[c] = "completing"
      BY <1>0, <1>6 DEF Commit, TypeOK
    <2> QED  BY <2>2, <2>3, <2>4, <2>5
  <1>7. ASSUME NEW c \in Attempts, Complete(c) PROVE Goal
    <2>1. Working(c) /\ at[c] = "completing" /\ asks[c] \in Purchases
      BY <1>0, <1>7 DEF Complete, Working, TypeOK
    <2>2. charged = Only(asks[c]) /\ row.state = "reserved" /\ row.purchase = asks[c]
      BY <1>2, <2>1
    <2>3. \A a \in Attempts : at'[a] # "completing"
      <3>1. \A a \in Attempts : at[a] = "completing" => a = c
        BY <1>2, <2>1 DEF Working
      <3> QED  BY <1>0, <1>7, <3>1 DEF Complete, TypeOK
    <2>4. row' = [row EXCEPT !.state = "done", !.response = asks[c]]
      BY <1>7, <2>2 DEF Complete, Completed
    <2>5. row'.state = "done" /\ row'.response = asks[c] /\ row'.purchase = asks[c]
      BY <2>2, <2>4, <1>0 DEF TypeOK, Row, Absent
    <2> QED  BY <1>7, <2>2, <2>3, <2>5 DEF Complete
  <1>8. ASSUME NEW c \in Attempts, Release(c) PROVE Goal
    <2>1. Working(c) /\ at[c] # "completing"
      BY <1>8 DEF Release, Working
    <2>2. charged = Nothing
      BY <1>2, <2>1
    <2>3. \A a \in Attempts : at'[a] # "completing"
      <3>1. \A a \in Attempts : at[a] # "completing"
        BY <1>2, <2>1 DEF Working
      <3> QED  BY <1>0, <1>8, <3>1 DEF Release, TypeOK
    <2> QED  BY <1>8, <2>2, <2>3 DEF Release, Released, Absent
  <1>9. ASSUME NEW c \in Attempts, Die(c) PROVE Goal
    <2>1. row' = row /\ asks' = asks /\ charged' = charged
      BY <1>9 DEF Die
    <2>2. \A a \in Attempts : at'[a] = "completing" <=> at[a] = "completing"
      BY <1>0, <1>9 DEF Die, TypeOK
    <2> QED  BY <1>1, <2>1, <2>2
  <1>10. CASE Second
    <2>1. row'.state = row.state /\ row'.response = row.response /\ row'.purchase = row.purchase
      <3>1. row' = [row EXCEPT !.age = row.age + 1]
        BY <1>10 DEF Second
      <3> QED  BY <3>1, <1>0 DEF TypeOK, Row, Absent
    <2> QED  BY <1>1, <1>10, <2>1 DEF Second
  <1>11. CASE Expire
    BY <1>11 DEF Expire
  <1>12. CASE UNCHANGED vars
    BY <1>1, <1>12 DEF vars
  <1> QED  BY <1>3, <1>4, <1>5, <1>6, <1>7, <1>8, <1>9, <1>10, <1>11, <1>12 DEF Next, Serve

(* Charges only grow, so an answer once backed stays backed.               *)
LEMMA BackedStep == IInv /\ [Next]_vars => Backed'
  <1> SUFFICES ASSUME TypeOK, Backed, [Next]_vars PROVE Backed'
    BY DEF IInv
  <1>1. ASSUME NEW c \in Attempts, NEW p \in Purchases, Send(c, p) PROVE Backed'
    BY <1>1 DEF Send, Reserved, Backed, TypeOK
  <1>2. ASSUME NEW c \in Attempts,
               \/ LookFindsNone(c) \/ LookAnswers(c) \/ LookFindsAbandoned(c)
               \/ Refuse(c) \/ Die(c)
        PROVE  Backed'
    BY <1>2 DEF LookFindsNone, LookAnswers, LookFindsAbandoned, Refuse, AfterRefusal, Die, Backed,
                TypeOK
  <1>3. ASSUME NEW c \in Attempts, Reclaim(c) PROVE Backed'
    <2>1. row'.state = row.state /\ row'.response = row.response
      BY <1>3 DEF Reclaim, TypeOK, Row, Absent
    <2> QED  BY <1>3, <2>1 DEF Reclaim, Backed, TypeOK
  <1>4. ASSUME NEW c \in Attempts, Commit(c) PROVE Backed'
    <2>1. asks[c] \in Purchases
      BY <1>4 DEF Commit, TypeOK
    <2>2. /\ \A p \in Purchases : charged[p] > 0 => charged'[p] > 0
          /\ charged'[asks[c]] > 0
      BY <1>4, <2>1 DEF Commit, TypeOK
    <2>3. \A a \in Attempts : at[a] = "completing" => asks[a] \in Purchases
      BY DEF TypeOK
    <2>4. row.state = "done" => row.response \in Purchases
      BY RowFields DEF TypeOK
    <2>5. \A a \in Attempts : at'[a] = "completing" => a = c \/ at[a] = "completing"
      BY <1>4 DEF Commit, TypeOK
    <2> QED  BY <1>4, <2>2, <2>3, <2>4, <2>5 DEF Commit, Backed
  <1>5. ASSUME NEW c \in Attempts, Complete(c) PROVE Backed'
    <2>1. charged[asks[c]] > 0
      BY <1>5 DEF Complete, Backed
    <2>2. row'.state = "done" => row'.response = asks[c]
      <3>1. CASE row.state = "absent"
        BY <1>5, <3>1 DEF Complete, Completed
      <3>2. CASE row.state # "absent"
        <4>1. row' = [row EXCEPT !.state = "done", !.response = asks[c]]
          BY <1>5, <3>2 DEF Complete, Completed
        <4> QED  BY <4>1 DEF TypeOK, Row, Absent
      <3> QED  BY <3>1, <3>2
    <2>3. \A a \in Attempts : at'[a] = "completing" => at[a] = "completing"
      BY <1>5 DEF Complete, TypeOK
    <2> QED  BY <1>5, <2>1, <2>2, <2>3 DEF Complete, Backed
  <1>6. ASSUME NEW c \in Attempts, Release(c) PROVE Backed'
    BY <1>6 DEF Release, Released, Absent, Backed, TypeOK
  <1>7. CASE Second
    <2>1. row'.state = row.state /\ row'.response = row.response
      <3>1. row' = [row EXCEPT !.age = row.age + 1]
        BY <1>7 DEF Second
      <3> QED  BY <3>1 DEF TypeOK, Row, Absent
    <2> QED  BY <1>7, <2>1 DEF Second, Backed
  <1>8. CASE Expire
    BY <1>8 DEF Expire, Absent, Backed
  <1>9. CASE UNCHANGED vars
    BY <1>9 DEF vars, Backed
  <1> QED  BY <1>1, <1>2, <1>3, <1>4, <1>5, <1>6, <1>7, <1>8, <1>9 DEF Next, Serve

LEMMA Inductive == Spec => []IInv
  <1>1. IInv /\ [Next]_vars => IInv'
    BY TypeStep, HeldStep, AccountsStep, BackedStep DEF IInv
  <1> QED  BY IInit, <1>1, PTL DEF Spec

(* Requests sent with one key, at once or in turn, charge once between     *)
(* them for as long as nothing has lapsed.                                 *)
THEOREM Once == Spec => []ChargedOnce
  <1>1. IInv => ChargedOnce
    <2> SUFFICES ASSUME IInv, lapses = {}, NEW p \in Purchases, NEW q \in Purchases
                 PROVE  charged[p] + (IF p = q THEN 0 ELSE charged[q]) <= 1
      BY DEF ChargedOnce
    <2>1. charged = Nothing \/ \E b : charged = Only(b)
      BY DEF IInv, Accounts
    <2>2. CASE charged = Nothing
      BY <2>2 DEF Nothing
    <2>3. ASSUME NEW b, charged = Only(b)
          PROVE  charged[p] + (IF p = q THEN 0 ELSE charged[q]) <= 1
      BY <2>3 DEF Only
    <2> QED  BY <2>1, <2>2, <2>3
  <1> QED  BY Inductive, <1>1, PTL

(* A replay reports a charge that was made; while nothing has lapsed, of   *)
(* the purchase the row was reserved for.                                  *)
THEOREM Truthful == Spec => []ReplayTellsTheTruth
  <1>1. IInv => ReplayTellsTheTruth
    BY DEF IInv, Accounts, Backed, ReplayTellsTheTruth
  <1> QED  BY Inductive, <1>1, PTL

(* A refusal frees the key: a reservation with nobody at work under it is  *)
(* the mark of a process that died.                                        *)
THEOREM Freed == Spec => []ReservedMeansServed
  <1>1. Init => ReservedMeansServed
    BY DEF Init, Absent, ReservedMeansServed
  <1>2. TypeOK /\ ReservedMeansServed /\ [Next]_vars => ReservedMeansServed'
    <2> SUFFICES ASSUME TypeOK, ReservedMeansServed, [Next]_vars, row'.state = "reserved"
                 PROVE  deaths' > 0 \/ \E a \in Attempts : Working(a)'
      BY DEF ReservedMeansServed
    <2> DEFINE Goal == deaths' > 0 \/ \E a \in Attempts : Working(a)'
    <2>1. ASSUME NEW c \in Attempts, NEW p \in Purchases, Send(c, p) PROVE Goal
      <3>1. CASE row.state = "absent"
        BY <2>1, <3>1 DEF Send, Working, TypeOK
      <3>2. CASE row.state # "absent"
        <4>1. deaths > 0 \/ \E a \in Attempts : Working(a)
          BY <2>1, <3>2 DEF Send, ReservedMeansServed
        <4>2. \A a \in Attempts : Working(a) => Working(a)'
          BY <2>1 DEF Send, Working, TypeOK
        <4> QED  BY <2>1, <4>1, <4>2 DEF Send
      <3> QED  BY <3>1, <3>2
    <2>2. ASSUME NEW c \in Attempts,
                 \/ LookFindsNone(c) \/ LookAnswers(c) \/ LookFindsAbandoned(c) \/ Reclaim(c)
                 \/ Commit(c) \/ Refuse(c)
          PROVE  Goal
      <3>1. row.state = "reserved"
        BY <2>2 DEF LookFindsNone, LookAnswers, LookFindsAbandoned, Reclaim, Commit, Refuse,
                    TypeOK, Row, Absent
      <3>2. deaths > 0 \/ \E a \in Attempts : Working(a)
        BY <3>1 DEF ReservedMeansServed
      <3>3. \A a \in Attempts : Working(a) => Working(a)'
        BY <2>2 DEF LookFindsNone, LookAnswers, LookFindsAbandoned, Reclaim, Commit, Refuse,
                    AfterRefusal, Working, TypeOK
      <3>4. deaths' = deaths
        BY <2>2 DEF LookFindsNone, LookAnswers, LookFindsAbandoned, Reclaim, Commit, Refuse
      <3> QED  BY <3>2, <3>3, <3>4
    <2>3. ASSUME NEW c \in Attempts, Complete(c) PROVE FALSE
      <3>1. row.state # "absent" => row'.state = "done"
        <4>1. row.state # "absent" => row' = [row EXCEPT !.state = "done", !.response = asks[c]]
          BY <2>3 DEF Complete, Completed
        <4> QED  BY <4>1 DEF TypeOK, Row, Absent
      <3> QED  BY <2>3, <3>1 DEF Complete, Completed
    <2>4. ASSUME NEW c \in Attempts, Release(c) PROVE FALSE
      BY <2>4 DEF Release, Released, Absent
    <2>5. ASSUME NEW c \in Attempts, Die(c) PROVE Goal
      BY <2>5, IdempotencyAssumption DEF Die, TypeOK
    <2>6. CASE Second
      <3>1. row.state = "reserved"
        BY <2>6 DEF Second, TypeOK, Row, Absent
      <3>2. deaths > 0 \/ \E a \in Attempts : Working(a)
        BY <3>1 DEF ReservedMeansServed
      <3> QED  BY <2>6, <3>2 DEF Second, Working
    <2>7. CASE Expire
      BY <2>7 DEF Expire, Absent
    <2>8. CASE UNCHANGED vars
      BY <2>8 DEF vars, ReservedMeansServed, Working
    <2> QED  BY <2>1, <2>2, <2>3, <2>4, <2>5, <2>6, <2>7, <2>8 DEF Next, Serve
  <1> QED  BY <1>1, <1>2, TypeCorrect, PTL DEF Spec

-----------------------------------------------------------------------------
(* The limiter *)


(* A product of naturals, met where the provers would have to multiply.    *)
LEMMA NaturalProduct ==
  ASSUME NEW a \in Nat, NEW b \in Nat
  PROVE  a * b \in Nat
  OBVIOUS

LEMMA OneMore ==
  ASSUME NEW a \in Nat, NEW b \in Nat
  PROVE  a * (b + 1) = a * b + a
  OBVIOUS

LEMMA ProductGrows ==
  ASSUME NEW a \in Nat, NEW b \in Nat, NEW c \in Nat, b <= c
  PROVE  a * b <= a * c
<1>1. PICK d \in Nat : c = b + d
  <2>1. c - b \in Nat /\ c = b + (c - b)
    OBVIOUS
  <2> QED BY <2>1
<1>2. a * c = a * b + a * d
  BY <1>1
<1>3. a * d \in Nat
  BY NaturalProduct
<1> QED BY <1>2, <1>3

(* Rounding up leaves no less than was divided.                            *)
LEMMA RoundedUp ==
  ASSUME NEW n \in Nat, NEW d \in Nat \ {0}
  PROVE  /\ (n + d - 1) \div d \in Nat
         /\ d * ((n + d - 1) \div d) >= n
<1> DEFINE m == n + d - 1
<1>1. m \in Nat
  OBVIOUS
<1>2. m = d * (m \div d) + (m % d) /\ m % d \in 0..(d - 1) /\ m \div d \in Nat
  BY <1>1
<1> QED BY <1>1, <1>2

-----------------------------------------------------------------------------
(* What a bucket is worth *)

Bucket == [tokens: 0..Full, age: 0..(Idle + 1)]

LEMMA Limits ==
  /\ {Burst, Cost, Refill, PerSecond, Idle} \subseteq Nat \ {0}
  /\ Full \in Nat /\ Cost <= Full /\ Full <= Refill * Idle
  /\ NoBucket \in Bucket
<1>1. {Burst, Cost, Refill, PerSecond, Idle} \subseteq Nat \ {0} /\ Refill * Idle >= Burst * Cost
  BY LimitAssumption
<1>2. Burst * Cost \in Nat /\ Refill * Idle \in Nat
  BY <1>1, NaturalProduct
<1>3. Cost * 1 <= Cost * Burst
  BY <1>1, ProductGrows
<1>4. Cost <= Burst * Cost
  BY <1>1, <1>3
<1> QED BY <1>1, <1>2, <1>4 DEF Full, NoBucket, Bucket

LEMMA WorthType ==
  ASSUME NEW b \in Bucket
  PROVE  /\ Refilled(b) \in 0..Full
         /\ b.tokens + Refill * b.age \in Nat
<1>1. Refill * b.age \in Nat
  BY Limits, NaturalProduct DEF Bucket
<1> QED BY <1>1, Limits DEF Refilled, Least, Bucket

(* Fresh from take, a bucket is worth its tokens.                          *)
LEMMA WorthOfToday ==
  ASSUME NEW t \in 0..Full
  PROVE  /\ [tokens |-> t, age |-> 0] \in Bucket
         /\ Refilled([tokens |-> t, age |-> 0]) = t
<1>1. Refill * 0 = 0
  BY Limits
<1> QED BY <1>1, Limits DEF Refilled, Least, Bucket

(* A bucket old enough to be forgotten is full again.                      *)
LEMMA OldIsFull ==
  ASSUME NEW b \in Bucket, b.age >= Idle
  PROVE  Refilled(b) = Full
<1>1. Refill * Idle <= Refill * b.age
  BY Limits, ProductGrows DEF Bucket
<1>2. Refill * Idle \in Nat /\ Refill * b.age \in Nat
  BY Limits, NaturalProduct DEF Bucket
<1> QED BY <1>1, <1>2, Limits DEF Refilled, Least, Bucket

LEMMA NewIsFull == Refilled(NoBucket) = Full
  BY WorthOfToday, Limits DEF NoBucket

(* The sweep takes nothing away and gives nothing.                         *)
LEMMA SweepKeepsWorth ==
  ASSUME LimiterTypeOK, NEW k \in Keys
  PROVE  /\ Swept \in [Keys -> Bucket]
         /\ Refilled(Swept[k]) = Refilled(buckets[k])
<1>1. buckets \in [Keys -> Bucket]
  BY DEF LimiterTypeOK, Bucket
<1>2. CASE sweptAge < Idle
  BY <1>1, <1>2 DEF Swept
<1>3. CASE ~(sweptAge < Idle)
  <2>1. Swept = [j \in Keys |-> IF StaleBucket(buckets[j]) THEN NoBucket ELSE buckets[j]]
    BY <1>3 DEF Swept
  <2>2. Swept \in [Keys -> Bucket]
    BY <2>1, <1>1, Limits
  <2>3. CASE StaleBucket(buckets[k])
    <3>1. buckets[k].age >= Idle
      BY <2>3, <1>1, Limits DEF StaleBucket, Bucket
    <3>2. Refilled(buckets[k]) = Full
      BY <3>1, <1>1, OldIsFull
    <3>3. Swept[k] = NoBucket
      BY <2>1, <2>3
    <3> QED BY <2>2, <3>2, <3>3, NewIsFull
  <2>4. CASE ~StaleBucket(buckets[k])
    BY <2>1, <2>2, <2>4
  <2> QED BY <2>3, <2>4
<1> QED BY <1>2, <1>3

(* A moment adds what a moment refills, up to a full bucket.               *)
LEMMA MomentWorth ==
  ASSUME NEW b \in Bucket
  PROVE  LET older == [b EXCEPT !.age = Least(Idle + 1, @ + 1)]
         IN  /\ older \in Bucket
             /\ Refilled(older) = Least(Full, Refilled(b) + Refill)
<1> DEFINE older == [b EXCEPT !.age = Least(Idle + 1, @ + 1)]
<1>1. older \in Bucket
  BY Limits DEF Bucket, Least
<1>2. CASE b.age <= Idle
  <2>1. older.age = b.age + 1 /\ older.tokens = b.tokens
    BY <1>2, Limits DEF Bucket, Least
  <2>2. Refill * older.age = Refill * b.age + Refill
    BY <2>1, Limits, OneMore DEF Bucket
  <2>3. Refill * b.age \in Nat
    BY Limits, NaturalProduct DEF Bucket
  <2> QED BY <1>1, <2>1, <2>2, <2>3, Limits DEF Refilled, Least, Bucket
<1>3. CASE b.age > Idle
  <2>1. older.age >= Idle
    BY <1>3, Limits DEF Bucket, Least
  <2>2. Refilled(older) = Full /\ Refilled(b) = Full
    BY <1>1, <1>3, <2>1, OldIsFull, Limits DEF Bucket
  <2> QED BY <1>1, <2>2, Limits DEF Least
<1>4. b.age \in Nat /\ Idle \in Nat
  BY Limits DEF Bucket
<1> QED BY <1>1, <1>2, <1>3, <1>4

(* The wait that is reported is long enough for the token it is for.       *)
LEMMA WaitIsEnough ==
  ASSUME NEW t \in 0..Full, t < Cost
  PROVE  /\ Wait(t) * PerSecond \in Nat
         /\ t + Refill * (Wait(t) * PerSecond) >= Cost
<1> DEFINE d == Refill * PerSecond
           n == Cost - t
<1>1. d \in Nat \ {0}
  BY Limits
<1>2. n \in Nat
  BY Limits
<1>3. Wait(t) = (n + d - 1) \div d
  BY Limits, <1>1 DEF Wait
<1>4. Wait(t) \in Nat /\ d * Wait(t) >= n
  BY <1>1, <1>2, <1>3, RoundedUp
<1>5. Refill * (Wait(t) * PerSecond) = d * Wait(t)
  BY <1>4, Limits
<1>6. Wait(t) * PerSecond \in Nat
  BY <1>4, Limits, NaturalProduct
<1> QED BY <1>4, <1>5, <1>6, Limits

-----------------------------------------------------------------------------
(* The invariant *)

(* No bucket is worth more than what one never forgotten would hold.       *)
NeverMoreThanDue == \A k \in Keys : Refilled(buckets[k]) <= due[k] /\ due[k] <= Full

(* What a bucket is worth, and what comes back until the promised moment,  *)
(* makes a token.                                                          *)
PromisesAreKept ==
  \A k \in Keys : promise[k] # NoPromise => Refilled(buckets[k]) + Refill * promise[k] >= Cost

LimiterInv == LimiterTypeOK /\ NeverMoreThanDue /\ PromisesAreKept

LEMMA InitLimiterInv == LimiterInit => LimiterInv
<1> SUFFICES ASSUME LimiterInit PROVE LimiterInv
  OBVIOUS
<1>1. buckets = [k \in Keys |-> NoBucket] /\ sweptAge = Idle
      /\ due = [k \in Keys |-> Full] /\ promise = [k \in Keys |-> NoPromise]
  BY DEF LimiterInit
<1>2. LimiterTypeOK
  BY <1>1, Limits DEF LimiterTypeOK, Bucket, NoPromise
<1>3. NeverMoreThanDue
  <2> SUFFICES ASSUME NEW k \in Keys
               PROVE  Refilled(buckets[k]) <= due[k] /\ due[k] <= Full
    BY DEF NeverMoreThanDue
  <2> QED BY <1>1, NewIsFull, Limits
<1>4. PromisesAreKept
  BY <1>1 DEF PromisesAreKept
<1> QED BY <1>2, <1>3, <1>4 DEF LimiterInv

(* A restart is a fresh start.                                             *)
LEMMA RestartKeepsInv == RestartLimiter => LimiterInv'
<1> SUFFICES ASSUME RestartLimiter PROVE LimiterInv'
  OBVIOUS
<1>1. buckets' = [k \in Keys |-> NoBucket] /\ sweptAge' = Idle
      /\ due' = [k \in Keys |-> Full] /\ promise' = [k \in Keys |-> NoPromise]
  BY DEF RestartLimiter
<1>2. LimiterTypeOK'
  BY <1>1, Limits DEF LimiterTypeOK, Bucket, NoPromise
<1>3. NeverMoreThanDue'
  <2> SUFFICES ASSUME NEW k \in Keys
               PROVE  Refilled(buckets'[k]) <= due'[k] /\ due'[k] <= Full
    BY DEF NeverMoreThanDue
  <2> QED BY <1>1, NewIsFull, Limits
<1>4. PromisesAreKept'
  BY <1>1 DEF PromisesAreKept
<1> QED BY <1>2, <1>3, <1>4 DEF LimiterInv

LEMMA TakeKeepsInv ==
  ASSUME LimiterInv, NEW k \in Keys, Take(k)
  PROVE  LimiterInv'
<1> DEFINE tokens == Refilled(Swept[k])
           allowed == tokens >= Cost
           kept == IF allowed THEN tokens - Cost ELSE tokens
<1>1. LimiterTypeOK /\ NeverMoreThanDue /\ PromisesAreKept
  BY DEF LimiterInv
<1>2. Swept \in [Keys -> Bucket] /\ \A j \in Keys : Refilled(Swept[j]) = Refilled(buckets[j])
  BY <1>1, SweepKeepsWorth
<1>3. tokens \in 0..Full /\ kept \in 0..Full
  <2>1. tokens \in 0..Full
    BY <1>2, WorthType
  <2> QED BY <2>1, Limits
<1>4. /\ buckets' = [Swept EXCEPT ![k] = [tokens |-> kept, age |-> 0]]
      /\ sweptAge' = IF sweptAge < Idle THEN sweptAge ELSE 0
      /\ due' = [due EXCEPT ![k] = IF allowed THEN @ - Cost ELSE @]
      /\ promise' = [promise EXCEPT ![k] = IF allowed THEN NoPromise ELSE Wait(tokens) * PerSecond]
  BY DEF Take
<1>5. ~allowed => /\ Wait(tokens) * PerSecond \in Nat
                  /\ tokens + Refill * (Wait(tokens) * PerSecond) >= Cost
  <2> SUFFICES ASSUME ~allowed
               PROVE  /\ Wait(tokens) * PerSecond \in Nat
                      /\ tokens + Refill * (Wait(tokens) * PerSecond) >= Cost
    OBVIOUS
  <2>1. tokens < Cost
    BY <1>3, Limits
  <2> HIDE DEF tokens
  <2> QED BY <1>3, <2>1, WaitIsEnough
<1>6. [tokens |-> kept, age |-> 0] \in Bucket /\ Refilled([tokens |-> kept, age |-> 0]) = kept
  BY <1>3, WorthOfToday
<1>7. tokens <= due[k] /\ due[k] \in Int /\ due[k] <= Full
  BY <1>1, <1>2 DEF NeverMoreThanDue, LimiterTypeOK
<1> HIDE DEF tokens, allowed, kept
<1>8. buckets' \in [Keys -> Bucket]
  BY <1>2, <1>4, <1>6
<1>9. buckets'[k] = [tokens |-> kept, age |-> 0] /\ \A j \in Keys \ {k} : buckets'[j] = Swept[j]
  BY <1>2, <1>4
<1>10. LimiterTypeOK'
  <2>1. sweptAge' \in 0..Idle
    BY <1>1, <1>4, Limits DEF LimiterTypeOK
  <2>2. due' \in [Keys -> Int]
    BY <1>1, <1>4, <1>7, Limits DEF LimiterTypeOK
  <2>3. promise' \in [Keys -> Nat \cup {NoPromise}]
    BY <1>1, <1>4, <1>5 DEF LimiterTypeOK
  <2> QED BY <1>8, <2>1, <2>2, <2>3 DEF LimiterTypeOK, Bucket
<1>11. NeverMoreThanDue'
  <2> SUFFICES ASSUME NEW j \in Keys
               PROVE  Refilled(buckets'[j]) <= due'[j] /\ due'[j] <= Full
    BY DEF NeverMoreThanDue
  <2>1. CASE j = k
    <3>1. due'[k] = IF allowed THEN due[k] - Cost ELSE due[k]
      BY <1>1, <1>4 DEF LimiterTypeOK
    <3>2. Refilled(buckets'[k]) = kept
      BY <1>6, <1>9
    <3>3. kept <= due'[k] /\ due'[k] <= Full
      BY <1>3, <1>7, <3>1, Limits DEF kept
    <3> QED BY <2>1, <3>2, <3>3
  <2>2. CASE j # k
    <3>1. due'[j] = due[j]
      BY <1>1, <1>4, <2>2 DEF LimiterTypeOK
    <3>2. Refilled(buckets'[j]) = Refilled(buckets[j])
      BY <1>2, <1>9, <2>2
    <3> QED BY <1>1, <3>1, <3>2 DEF NeverMoreThanDue
  <2> QED BY <2>1, <2>2
<1>12. PromisesAreKept'
  <2> SUFFICES ASSUME NEW j \in Keys, promise'[j] # NoPromise
               PROVE  Refilled(buckets'[j]) + Refill * promise'[j] >= Cost
    BY DEF PromisesAreKept
  <2>1. CASE j = k
    <3>1. promise'[k] = IF allowed THEN NoPromise ELSE Wait(tokens) * PerSecond
      BY <1>1, <1>4 DEF LimiterTypeOK
    <3>2. ~allowed /\ promise'[k] = Wait(tokens) * PerSecond
      BY <2>1, <3>1
    <3>3. Refilled(buckets'[k]) = tokens
      BY <1>6, <1>9, <3>2 DEF kept
    <3> QED BY <1>5, <2>1, <3>2, <3>3
  <2>2. CASE j # k
    <3>1. promise'[j] = promise[j]
      BY <1>1, <1>4, <2>2 DEF LimiterTypeOK
    <3>2. Refilled(buckets'[j]) = Refilled(buckets[j])
      BY <1>2, <1>9, <2>2
    <3> QED BY <1>1, <3>1, <3>2 DEF PromisesAreKept
  <2> QED BY <2>1, <2>2
<1> QED BY <1>10, <1>11, <1>12 DEF LimiterInv

LEMMA MomentKeepsInv ==
  ASSUME LimiterInv, Moment
  PROVE  LimiterInv'
<1>1. LimiterTypeOK /\ NeverMoreThanDue /\ PromisesAreKept
  BY DEF LimiterInv
<1>2. buckets \in [Keys -> Bucket]
  BY <1>1 DEF LimiterTypeOK, Bucket
<1>3. /\ buckets' = [k \in Keys |-> [buckets[k] EXCEPT !.age = Least(Idle + 1, @ + 1)]]
      /\ sweptAge' = Least(Idle, sweptAge + 1)
      /\ due' = [k \in Keys |-> Least(Full, due[k] + Refill)]
      /\ promise' = [k \in Keys |-> IF promise[k] > 0 THEN promise[k] - 1 ELSE promise[k]]
  BY DEF Moment
<1>4. ASSUME NEW k \in Keys
      PROVE  /\ buckets'[k] \in Bucket
             /\ Refilled(buckets'[k]) = Least(Full, Refilled(buckets[k]) + Refill)
  BY <1>2, <1>3, MomentWorth
<1>5. LimiterTypeOK'
  <2>1. buckets' \in [Keys -> Bucket]
    BY <1>3, <1>4
  <2>2. sweptAge' \in 0..Idle
    BY <1>1, <1>3, Limits DEF LimiterTypeOK, Least
  <2>3. due' \in [Keys -> Int]
    BY <1>1, <1>3, Limits DEF LimiterTypeOK, Least
  <2>4. promise' \in [Keys -> Nat \cup {NoPromise}]
    BY <1>1, <1>3 DEF LimiterTypeOK, NoPromise
  <2> QED BY <2>1, <2>2, <2>3, <2>4 DEF LimiterTypeOK, Bucket
<1>6. NeverMoreThanDue'
  <2> SUFFICES ASSUME NEW k \in Keys
               PROVE  Refilled(buckets'[k]) <= due'[k] /\ due'[k] <= Full
    BY DEF NeverMoreThanDue
  <2>1. Refilled(buckets[k]) \in 0..Full /\ due[k] \in Int /\ Refilled(buckets[k]) <= due[k]
    BY <1>1, <1>2, WorthType DEF NeverMoreThanDue, LimiterTypeOK
  <2>2. due'[k] = Least(Full, due[k] + Refill)
    BY <1>3
  <2> QED BY <1>4, <2>1, <2>2, Limits DEF Least
<1>7. PromisesAreKept'
  <2> SUFFICES ASSUME NEW k \in Keys, promise'[k] # NoPromise
               PROVE  Refilled(buckets'[k]) + Refill * promise'[k] >= Cost
    BY DEF PromisesAreKept
  <2>1. Refilled(buckets[k]) \in 0..Full
    BY <1>2, WorthType
  <2>2. Refilled(buckets'[k]) = Least(Full, Refilled(buckets[k]) + Refill)
    BY <1>4
  <2>3. promise'[k] = IF promise[k] > 0 THEN promise[k] - 1 ELSE promise[k]
    BY <1>3
  <2>4. promise[k] \in Nat /\ Refilled(buckets[k]) + Refill * promise[k] >= Cost
    BY <1>1, <2>3 DEF LimiterTypeOK, PromisesAreKept, NoPromise
  <2>5. promise'[k] \in Nat /\ Refill * promise'[k] \in Nat
    BY <2>3, <2>4, Limits, NaturalProduct
  <2>6. CASE promise[k] > 0
    <3>1. Refill * promise[k] = Refill * promise'[k] + Refill
      BY <2>3, <2>5, <2>6, <2>4, Limits, OneMore
    <3> QED BY <2>1, <2>2, <2>4, <2>5, <3>1, Limits DEF Least
  <2>7. CASE promise[k] = 0
    <3>1. Refill * promise[k] = 0 /\ Refill * promise'[k] = 0
      BY <2>3, <2>7, Limits
    <3> QED BY <2>1, <2>2, <2>4, <3>1, Limits DEF Least
  <2> QED BY <2>4, <2>6, <2>7
<1> QED BY <1>5, <1>6, <1>7 DEF LimiterInv

LEMMA NextLimiterInv == LimiterInv /\ [LimiterNext]_limiterVars => LimiterInv'
<1> SUFFICES ASSUME LimiterInv, [LimiterNext]_limiterVars PROVE LimiterInv'
  OBVIOUS
<1>1. CASE \E k \in Keys : Take(k)
  BY <1>1, TakeKeepsInv
<1>2. CASE Moment
  BY <1>2, MomentKeepsInv
<1>3. CASE RestartLimiter
  BY <1>3, RestartKeepsInv
<1>4. CASE UNCHANGED limiterVars
  <2>1. buckets' = buckets /\ sweptAge' = sweptAge /\ due' = due /\ promise' = promise
    BY <1>4 DEF limiterVars
  <2>2. LimiterTypeOK' /\ NeverMoreThanDue' /\ PromisesAreKept'
    BY <2>1 DEF LimiterInv, LimiterTypeOK, NeverMoreThanDue, PromisesAreKept
  <2> QED BY <2>2 DEF LimiterInv
<1> QED BY <1>1, <1>2, <1>3, <1>4 DEF LimiterNext

LEMMA LimiterInvariance == LimiterSpec => []LimiterInv
<1>1. LimiterInit => LimiterInv
  BY InitLimiterInv
<1>2. LimiterInv /\ [LimiterNext]_limiterVars => LimiterInv'
  BY NextLimiterInv
<1> QED BY <1>1, <1>2, PTL DEF LimiterSpec

-----------------------------------------------------------------------------
(* Theorems *)

(* rateLimit.ts: however the asking, the sweeps set off by others and the  *)
(* forgetting fall, no more is let through in any stretch of time than a   *)
(* burst and what came back in it.                                         *)
THEOREM NeverOverdrawn == LimiterSpec => []RateHeld
<1>1. LimiterInv => RateHeld
  <2> SUFFICES ASSUME LimiterInv, NEW k \in Keys PROVE due[k] >= 0
    BY DEF RateHeld
  <2>1. LimiterTypeOK /\ Refilled(buckets[k]) <= due[k]
    BY DEF LimiterInv, NeverMoreThanDue
  <2>2. buckets[k] \in Bucket /\ due[k] \in Int
    BY <2>1 DEF LimiterTypeOK, Bucket
  <2>3. Refilled(buckets[k]) \in 0..Full
    BY <2>2, WorthType
  <2> QED BY <2>1, <2>2, <2>3, Limits
<1> QED BY <1>1, LimiterInvariance, PTL

(* rateLimit.test.ts: the wait a refusal reports is long enough to         *)
(* succeed, even asked again in the meantime.                              *)
THEOREM WaitsAreHonest == LimiterSpec => []RetryAfterIsEnough
<1>1. LimiterInv => RetryAfterIsEnough
  <2> SUFFICES ASSUME LimiterInv, NEW k \in Keys, promise[k] = 0
               PROVE  Refilled(buckets[k]) >= Cost
    BY DEF RetryAfterIsEnough
  <2>1. Refilled(buckets[k]) + Refill * 0 >= Cost
    BY DEF LimiterInv, PromisesAreKept, NoPromise
  <2>2. buckets[k] \in Bucket
    BY DEF LimiterInv, LimiterTypeOK, Bucket
  <2>3. Refilled(buckets[k]) \in 0..Full
    BY <2>2, WorthType
  <2> QED BY <2>1, <2>3, Limits
<1> QED BY <1>1, LimiterInvariance, PTL
=============================================================================

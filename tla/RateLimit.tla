------------------------------ MODULE RateLimit ------------------------------
(***************************************************************************)
(* The token buckets in front of the writes: RateLimiter and the onRequest *)
(* hook.  A bucket is refilled when it is next asked, and forgotten when   *)
(* it has long not been; time is therefore kept as ages, each capped where *)
(* the code can no longer tell it from a greater one.                      *)
(*                                                                         *)
(* Tokens are counted in units, Cost of them to a request, so that a       *)
(* moment refills a whole number.  `due' and `promise' are history: what a *)
(* bucket refilled every moment and never forgotten would hold, and the    *)
(* moments left of the wait the last refusal reported.                     *)
(***************************************************************************)
EXTENDS Integers

CONSTANTS
  Keys,      \* an account, or the address of a sign-in, with a route of LIMITS
  Burst,     \* requests allowed at once
  Cost,      \* units of a request
  Refill,    \* units that come back in a moment
  PerSecond, \* moments to a second, the unit of Retry-After
  Idle       \* IDLE_MS, in moments

(* Every entry of LIMITS is full again well within IDLE_MS.                *)
ASSUME LimitAssumption ==
  /\ {Burst, Cost, Refill, PerSecond, Idle} \subseteq Nat \ {0}
  /\ Refill * Idle >= Burst * Cost

VARIABLES buckets, sweptAge, due, promise

limiterVars == <<buckets, sweptAge, due, promise>>

Full == Burst * Cost

Least(a, b) == IF a <= b THEN a ELSE b

(* What take supposes of a key it does not find, and the age of no matter. *)
NoBucket == [tokens |-> Full, age |-> 0]

NoPromise == -1

LimiterInit ==
  /\ buckets = [k \in Keys |-> NoBucket]
  /\ sweptAge = Idle
  /\ due = [k \in Keys |-> Full]
  /\ promise = [k \in Keys |-> NoPromise]

-----------------------------------------------------------------------------
(* take *)

(* Mutation: whatever is there when the sweep comes is dropped.            *)
StaleAny(b) == b.age > 0

(* Nobody has touched it in a while.                                       *)
StaleBucket(b) == b.age > Idle

(* The sweep every take begins with, when the last is long enough ago.     *)
Swept ==
  IF sweptAge < Idle THEN buckets
  ELSE [k \in Keys |-> IF StaleBucket(buckets[k]) THEN NoBucket ELSE buckets[k]]

Refilled(b) == Least(Full, b.tokens + Refill * b.age)

(* Mutation: the seconds rounded down.                                     *)
WaitShort(tokens) ==
  LET exact == (Cost - tokens) \div (Refill * PerSecond) IN IF exact < 1 THEN 1 ELSE exact

(* Seconds until the token is whole, rounded up.                           *)
Wait(tokens) == (Cost - tokens + Refill * PerSecond - 1) \div (Refill * PerSecond)

(* A limited write that says who it is from.  Refused, it is answered 429  *)
(* with the wait and reaches no further hook.                              *)
Take(k) ==
  LET tokens == Refilled(Swept[k])
      allowed == tokens >= Cost
  IN /\ buckets' = [Swept EXCEPT ![k] =
           [tokens |-> IF allowed THEN tokens - Cost ELSE tokens, age |-> 0]]
     /\ sweptAge' = IF sweptAge < Idle THEN sweptAge ELSE 0
     /\ due' = [due EXCEPT ![k] = IF allowed THEN @ - Cost ELSE @]
     /\ promise' = [promise EXCEPT ![k] = IF allowed THEN NoPromise ELSE Wait(tokens) * PerSecond]

-----------------------------------------------------------------------------
(* Everything else *)

Moment ==
  /\ buckets' = [k \in Keys |-> [buckets[k] EXCEPT !.age = Least(Idle + 1, @ + 1)]]
  /\ sweptAge' = Least(Idle, sweptAge + 1)
  /\ due' = [k \in Keys |-> Least(Full, due[k] + Refill)]
  /\ promise' = [k \in Keys |-> IF promise[k] > 0 THEN promise[k] - 1 ELSE promise[k]]

(* The buckets are one process's memory: the next starts full.             *)
RestartLimiter ==
  /\ buckets' = [k \in Keys |-> NoBucket]
  /\ sweptAge' = Idle
  /\ due' = [k \in Keys |-> Full]
  /\ promise' = [k \in Keys |-> NoPromise]

LimiterNext == (\E k \in Keys : Take(k)) \/ Moment \/ RestartLimiter

LimiterSpec == LimiterInit /\ [][LimiterNext]_limiterVars

-----------------------------------------------------------------------------
(* Properties *)

(* Buckets hold between nothing and a burst, and ages stay below the cap.  *)
LimiterTypeOK ==
  /\ buckets \in [Keys -> [tokens: 0..Full, age: 0..(Idle + 1)]]
  /\ sweptAge \in 0..Idle
  /\ due \in [Keys -> Int]
  /\ promise \in [Keys -> Nat \cup {NoPromise}]

(* rateLimit.ts: a burst is bounded by the capacity and the sustained rate *)
(* is exactly the refill rate.  However the asking, the sweeps set off by  *)
(* others and the forgetting fall, a process lets no more through in any   *)
(* stretch of time than a burst and what came back in it: the bucket never *)
(* forgotten is never overdrawn.                                           *)
RateHeld == \A k \in Keys : due[k] >= 0

(* rateLimit.test.ts: the wait it reports is long enough to succeed, even  *)
(* asked again in the meantime, as long as nothing else got through: when  *)
(* the wait is over the bucket never forgotten holds the token.            *)
RetryAfterIsEnough ==
  \A k \in Keys : promise[k] = 0 => Refilled(buckets[k]) >= Cost
=============================================================================
